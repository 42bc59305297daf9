---------------------------- MODULE ReplayProofs ----------------------------
(***************************************************************************)
(* A record is read back through the code that read the first file of      *)
(* options.  What comes out is what went in: every default is filled in    *)
(* already, every timeout fitted, every answer resolved.  So a removal     *)
(* leaves the options and the grants of the policy and fewer modules; and  *)
(* what fewer modules accept, the modules before accepted; and the tool    *)
(* that explains the country filter, which reads the record too, answers   *)
(* for the policy it was compiled into.  An update that sets options of    *)
(* some modules leaves the rest of the policy as it was.                   *)
(***************************************************************************)
EXTENDS PolicyProofs

(***************************************************************************)
(* Complete options                                                        *)
(***************************************************************************)
LEMMA Above ==
  ASSUME NEW f, NEW g, f = [x \in DOMAIN f |-> f[x]], DOMAIN g \subseteq DOMAIN f
  PROVE  f @@ g = f
BY DEF @@

LEMMA Below ==
  ASSUME NEW f, NEW g, g = [x \in DOMAIN g |-> g[x]], \A x \in DOMAIN f : x \in DOMAIN g /\ f[x] = g[x]
  PROVE  f @@ g = g
BY DEF @@

LEMMA AboveIs ==
  ASSUME NEW f, NEW g
  PROVE  f @@ g = [x \in DOMAIN (f @@ g) |-> (f @@ g)[x]]
BY DEF @@

Unnamed == ""

\* Nothing is left to fill in, for a selection.
Filled(v, names) ==
  /\ v = [k \in DOMAIN v |-> v[k]]
  /\ DOMAIN CoreDefaults \subseteq DOMAIN v /\ "TYPECHAIN" \notin DOMAIN v
  /\ v.ACCESS_POLICY = Unnamed /\ v.BYPASS_SOURCE_DOMAINS = {}
  /\ \A m \in names : DOMAIN DefaultsOf(m) \cup RequiredOf(m) \subseteq DOMAIN v
  /\ "UDP_NEW_RATE" \in DOMAIN v => {"SOURCETV_UDP_NEW_RATE", "SOURCETV_UDP_NEW_BURST"} \subseteq DOMAIN v
  /\ MetersComplete(v) /\ TimeoutsCover(v, names)

\* What a configuration is asked for.
Valid(b, v, names, access, f) ==
  /\ b \in {"nftables", "iptables"} /\ names \subseteq Catalog(b)
  /\ ~({"openvpn_server", "openvpn_sitetosite"} \subseteq names)
  /\ names \cap Game # {} => Game \subseteq names
  /\ PoliciesValid(b, v) /\ LanValid(b, v, names) /\ PayloadsValid(b, v, names) /\ BypassValid(v, names)
  /\ GeoValid(v, names) /\ GameValid(v, names) /\ TcpValid(v, names) /\ VpnValid(v)
  /\ AccessValid(access) /\ AccessFits(v, names, access) /\ GeoFilesPresent(v, names, f)

LEMMA RefillSame ==
  ASSUME NEW v, NEW w, NEW rates, \A q \in rates : v[q[1]] = w[q[1]] /\ v[q[2]] = w[q[2]]
  PROVE  Refill(v, rates) = Refill(w, rates)
<1>1. {q \in rates : v[q[1]] # 0 /\ v[q[2]] # 0} = {q \in rates : w[q[1]] # 0 /\ w[q[2]] # 0}
  OBVIOUS
<1>2. {Ceil(v[k[2]], v[k[1]]) : k \in {q \in rates : v[q[1]] # 0 /\ v[q[2]] # 0}}
      = {Ceil(w[k[2]], w[k[1]]) : k \in {q \in rates : w[q[1]] # 0 /\ w[q[2]] # 0}}
  BY <1>1
<1> QED
  BY <1>2 DEF Refill

\* The options that meters look at.
GameMeters ==
  {"A2S_RATE", "A2S_BURST", "L4D2_LOGIN_RATE", "L4D2_LOGIN_BURST", "UDP_NEW_RATE", "UDP_NEW_BURST",
   "SOURCETV_UDP_NEW_RATE", "SOURCETV_UDP_NEW_BURST"}
GameTimeouts ==
  {"NFT_A2S_METER_TIMEOUT", "NFT_LOGIN_METER_TIMEOUT", "NFT_UDP_NEW_METER_TIMEOUT"}

LEMMA GameDefaults ==
  /\ {"A2S_RATE", "A2S_BURST", "L4D2_LOGIN_RATE", "L4D2_LOGIN_BURST", "NFT_A2S_METER_TIMEOUT",
      "NFT_LOGIN_METER_TIMEOUT"} \subseteq DOMAIN DefaultsOf("l4d2_a2s_filters")
  /\ {"UDP_NEW_RATE", "UDP_NEW_BURST", "NFT_UDP_NEW_METER_TIMEOUT", "NFT_UDP_EST_METER_TIMEOUT", "L4D2_CMD_LIMIT"}
       \subseteq DOMAIN DefaultsOf("l4d2_udp_base")
<1>1. {"A2S_RATE", "A2S_BURST", "L4D2_LOGIN_RATE", "L4D2_LOGIN_BURST", "NFT_A2S_METER_TIMEOUT",
      "NFT_LOGIN_METER_TIMEOUT"} \subseteq DOMAIN DefaultsOf("l4d2_a2s_filters")
  BY DEF DefaultsOf, @@
<1>2. {"UDP_NEW_RATE", "UDP_NEW_BURST", "NFT_UDP_NEW_METER_TIMEOUT", "NFT_UDP_EST_METER_TIMEOUT", "L4D2_CMD_LIMIT"}
       \subseteq DOMAIN DefaultsOf("l4d2_udp_base")
  BY DEF DefaultsOf, @@
<1> QED
  BY <1>1, <1>2

TcpKeys == {"SSH_RATE", "SSH_BURST", "HTTP_HTTPS_RATE", "HTTP_HTTPS_BURST"}

\* Options that differ in no meter need the same.
LEMMA NeedsSame ==
  ASSUME NEW v, NEW w, NEW names, MetersComplete(v),
         \A k \in TcpKeys : (k \in DOMAIN v <=> k \in DOMAIN w) /\ (k \in DOMAIN v => v[k] = w[k]),
         Game \subseteq names => \A k \in GameMeters : v[k] = w[k]
  PROVE  Needs(v, names) = Needs(w, names)
<1>1. {m \in TcpMeters : m[1] \in DOMAIN v} = {m \in TcpMeters : m[1] \in DOMAIN w}
  BY DEF TcpMeters, TcpKeys
<1>2. \A q \in {m \in TcpMeters : m[1] \in DOMAIN v} : v[q[1]] = w[q[1]] /\ v[q[2]] = w[q[2]]
  BY DEF TcpMeters, TcpKeys, MetersComplete
<1>3. {<<q[3], Ceil(v[q[2]] * v[q[1]].per, v[q[1]].count)>> : q \in {m \in TcpMeters : m[1] \in DOMAIN v}}
      = {<<q[3], Ceil(w[q[2]] * w[q[1]].per, w[q[1]].count)>> : q \in {m \in TcpMeters : m[1] \in DOMAIN w}}
  BY <1>1, <1>2
<1>4. CASE ~(Game \subseteq names)
  BY <1>3, <1>4 DEF Needs
<1>5. CASE Game \subseteq names
  <2>1. Refill(v, {<<"A2S_RATE", "A2S_BURST">>}) = Refill(w, {<<"A2S_RATE", "A2S_BURST">>})
    BY <1>5, RefillSame DEF GameMeters
  <2>2. Refill(v, {<<"L4D2_LOGIN_RATE", "L4D2_LOGIN_BURST">>}) = Refill(w, {<<"L4D2_LOGIN_RATE", "L4D2_LOGIN_BURST">>})
    BY <1>5, RefillSame DEF GameMeters
  <2>3. Refill(v, {<<"UDP_NEW_RATE", "UDP_NEW_BURST">>, <<"SOURCETV_UDP_NEW_RATE", "SOURCETV_UDP_NEW_BURST">>})
        = Refill(w, {<<"UDP_NEW_RATE", "UDP_NEW_BURST">>, <<"SOURCETV_UDP_NEW_RATE", "SOURCETV_UDP_NEW_BURST">>})
    BY <1>5, RefillSame, SMTT(60) DEF GameMeters
  <2> QED
    BY <1>3, <1>5, <2>1, <2>2, <2>3 DEF Needs
<1> QED
  BY <1>4, <1>5

\* A meter's share of the timeouts, and the command limit's.
MeterCovered(v, q) == Covered(v, q) /\ v[q[1]] <= 86400
CommandCovered(v) ==
  /\ v.L4D2_CMD_LIMIT \in 10..10000
  /\ Ceil(v.L4D2_CMD_LIMIT + 30, v.L4D2_CMD_LIMIT + 10) <= v.NFT_UDP_EST_METER_TIMEOUT
  /\ v.NFT_UDP_EST_METER_TIMEOUT <= 86400

LEMMA CoverIs ==
  ASSUME NEW v, NEW names
  PROVE  TimeoutsCover(v, names) <=> /\ \A q \in Needs(v, names) : MeterCovered(v, q)
                                     /\ names \cap Game # {} => CommandCovered(v)
BY SMTT(60) DEF TimeoutsCover, MeterCovered, CommandCovered

LEMMA MeterSame ==
  ASSUME NEW v, NEW w, NEW q, v[q[1]] = w[q[1]], MeterCovered(v, q)
  PROVE  MeterCovered(w, q)
BY SMTT(60) DEF MeterCovered, Covered

LEMMA CommandSame ==
  ASSUME NEW v, NEW w, v.L4D2_CMD_LIMIT = w.L4D2_CMD_LIMIT,
         v.NFT_UDP_EST_METER_TIMEOUT = w.NFT_UDP_EST_METER_TIMEOUT, CommandCovered(v)
  PROVE  CommandCovered(w)
BY SMTT(60) DEF CommandCovered

LEMMA CoverSame ==
  ASSUME NEW v, NEW w, NEW names, Needs(v, names) = Needs(w, names),
         \A q \in Needs(v, names) : v[q[1]] = w[q[1]],
         names \cap Game # {} => /\ v.L4D2_CMD_LIMIT = w.L4D2_CMD_LIMIT
                                 /\ v.NFT_UDP_EST_METER_TIMEOUT = w.NFT_UDP_EST_METER_TIMEOUT,
         TimeoutsCover(v, names)
  PROVE  TimeoutsCover(w, names)
<1>1. /\ \A q \in Needs(v, names) : MeterCovered(v, q)
      /\ names \cap Game # {} => CommandCovered(v)
  BY CoverIs, Zenon
<1>2. \A q \in Needs(w, names) : MeterCovered(w, q)
  BY <1>1, MeterSame
<1>3. names \cap Game # {} => CommandCovered(w)
  BY <1>1, CommandSame
<1> QED
  BY <1>2, <1>3, CoverIs, Zenon

\* The timeouts a selection needs are there.
LEMMA NeedsThere ==
  ASSUME NEW v, NEW names, MetersComplete(v), \A m \in names : DOMAIN DefaultsOf(m) \subseteq DOMAIN v,
         NEW q \in Needs(v, names)
  PROVE  q[1] \in DOMAIN v /\ q[1] \in Timeouts
<1>1. CASE q \in {<<x[3], Ceil(v[x[2]] * v[x[1]].per, v[x[1]].count)>> : x \in {m \in TcpMeters : m[1] \in DOMAIN v}}
  BY <1>1 DEF MetersComplete, TcpMeters, Timeouts
<1>2. CASE Game \subseteq names /\ q[1] \in GameTimeouts
  BY <1>2, GameDefaults DEF GameTimeouts, Game, Timeouts
<1> QED
  BY <1>1, <1>2 DEF Needs, GameTimeouts

\* Options that a check cannot tell from others.
Aside == Timeouts \cup Lists \cup {"ACCESS_POLICY"}
Alike(v, w) == \A k : k \notin Aside => (k \in DOMAIN v <=> k \in DOMAIN w) /\ (k \in DOMAIN v => v[k] = w[k])

LEMMA GetAlike ==
  ASSUME NEW v, NEW w, Alike(v, w), NEW k, k \notin Aside, NEW default
  PROVE  Get(v, k, default) = Get(w, k, default)
BY DEF Alike, Get

\* The options every configuration has.
LEMMA CoreAlike ==
  ASSUME NEW v, NEW w, Alike(v, w), DOMAIN CoreDefaults \subseteq DOMAIN v
  PROVE  /\ v.FAMILY_POLICY = w.FAMILY_POLICY /\ v.ROUTED_POLICY = w.ROUTED_POLICY
         /\ v.CONTAINER_POLICY = w.CONTAINER_POLICY /\ v.HOST_SERVICES = w.HOST_SERVICES
         /\ v.PRIVILEGED_BYPASS = w.PRIVILEGED_BYPASS /\ v.DNS_ALLOWED_CIDRS = w.DNS_ALLOWED_CIDRS
         /\ v.GEO_IPV6_POLICY = w.GEO_IPV6_POLICY /\ v.ADMIN_SOURCES = w.ADMIN_SOURCES
         /\ v.MODULES_EXCLUDE = w.MODULES_EXCLUDE
<1> DEFINE core == {"FAMILY_POLICY", "ROUTED_POLICY", "CONTAINER_POLICY", "HOST_SERVICES", "PRIVILEGED_BYPASS",
                    "DNS_ALLOWED_CIDRS", "GEO_IPV6_POLICY", "ADMIN_SOURCES", "MODULES_EXCLUDE"}
<1>1. core \subseteq DOMAIN CoreDefaults
  BY DEF CoreDefaults
<1>2. core \cap Aside = {}
  BY DEF Aside, Timeouts, Lists
<1>3. \A k \in core : v[k] = w[k]
  <2> HIDE DEF core
  <2> QED
    BY <1>1, <1>2 DEF Alike
<1> QED
  BY <1>3

LEMMA OptionAlike ==
  ASSUME NEW v, NEW w, Alike(v, w), NEW names, \A m \in names : DOMAIN DefaultsOf(m) \cup RequiredOf(m) \subseteq DOMAIN v,
         NEW m \in names, NEW k \in DOMAIN DefaultsOf(m) \cup RequiredOf(m), k \notin Aside
  PROVE  v[k] = w[k]
BY DEF Alike

LEMMA PoliciesAlike ==
  ASSUME NEW v, NEW w, Alike(v, w), DOMAIN CoreDefaults \subseteq DOMAIN v, NEW b, PoliciesValid(b, v)
  PROVE  PoliciesValid(b, w)
BY CoreAlike DEF PoliciesValid

LEMMA PayloadsAlike ==
  ASSUME NEW v, NEW w, Alike(v, w), DOMAIN CoreDefaults \subseteq DOMAIN v, NEW b, NEW names, PayloadsValid(b, v, names)
  PROVE  PayloadsValid(b, w, names)
BY CoreAlike DEF PayloadsValid

LEMMA LanAlike ==
  ASSUME NEW v, NEW w, Alike(v, w), DOMAIN CoreDefaults \subseteq DOMAIN v, NEW b, NEW names,
         \A m \in names : DOMAIN DefaultsOf(m) \cup RequiredOf(m) \subseteq DOMAIN v, LanValid(b, v, names)
  PROVE  LanValid(b, w, names)
<1>1. Get(v, "OVPNS2S_ALLOW_LAN", FALSE) = Get(w, "OVPNS2S_ALLOW_LAN", FALSE)
  <2>1. "OVPNS2S_ALLOW_LAN" \notin Aside
    BY DEF Aside, Timeouts, Lists
  <2> QED
    BY <2>1 DEF Get, Alike
<1>2. CASE ~Get(v, "OVPNS2S_ALLOW_LAN", FALSE)
  BY <1>1, <1>2 DEF LanValid
<1>3. CASE Get(v, "OVPNS2S_ALLOW_LAN", FALSE)
  <2>1. "openvpn_sitetosite" \in names
    BY <1>3 DEF LanValid
  <2> DEFINE keys == {"OVPNS2S_INTERFACE", "OVPNS2S_LOCAL_SUBNETS", "OVPNS2S_REMOTE_SUBNETS", "OVPNS2S_LOCAL_INTERFACE"}
  <2>2. keys \subseteq DOMAIN DefaultsOf("openvpn_sitetosite") \cup RequiredOf("openvpn_sitetosite")
    BY DEF DefaultsOf, RequiredOf
  <2>3. keys \cap Aside = {}
    BY DEF Aside, Timeouts, Lists
  <2>4. \A k \in keys : v[k] = w[k]
    <3> HIDE DEF keys
    <3> QED
      BY <2>1, <2>2, <2>3, OptionAlike
  <2> QED
    BY <2>4, <1>1, CoreAlike DEF LanValid
<1> QED
  BY <1>2, <1>3

LEMMA GeoAlike ==
  ASSUME NEW v, NEW w, Alike(v, w), DOMAIN CoreDefaults \subseteq DOMAIN v, NEW names, NEW f,
         \A m \in names : DOMAIN DefaultsOf(m) \cup RequiredOf(m) \subseteq DOMAIN v
  PROVE  /\ GeoOn(v, names) = GeoOn(w, names)
         /\ GeoValid(v, names) => GeoValid(w, names)
         /\ GeoFilesPresent(v, names, f) => GeoFilesPresent(w, names, f)
<1>1. CASE "geo_country_filter" \notin names
  BY <1>1 DEF GeoOn, GeoValid, GeoFilesPresent
<1>2. CASE "geo_country_filter" \in names
  <2> DEFINE keys == {"GEO_POLICY_MODE", "GEO_POLICY_ALLOWED_COUNTRIES", "GEO_POLICY_DENIED_COUNTRIES"}
  <2>1. keys \subseteq DOMAIN DefaultsOf("geo_country_filter")
    BY DEF DefaultsOf, @@
  <2>2. keys \cap Aside = {}
    BY DEF Aside, Timeouts, Lists
  <2>3. \A k \in keys : v[k] = w[k]
    <3> HIDE DEF keys
    <3> QED
      BY <1>2, <2>1, <2>2 DEF Alike
  <2> QED
    BY <2>3, CoreAlike DEF GeoOn, GeoValid, GeoFilesPresent
<1> QED
  BY <1>1, <1>2

LEMMA GameAlike ==
  ASSUME NEW v, NEW w, Alike(v, w), NEW names,
         \A m \in names : DOMAIN DefaultsOf(m) \cup RequiredOf(m) \subseteq DOMAIN v
  PROVE  /\ names \cap Game # {} => /\ v.L4D2_GAMESERVER_UDP_PORTS = w.L4D2_GAMESERVER_UDP_PORTS
                                    /\ v.L4D2_SOURCETV_UDP_PORTS = w.L4D2_SOURCETV_UDP_PORTS
         /\ GameValid(v, names) => GameValid(w, names)
<1>1. CASE names \cap Game = {}
  BY <1>1 DEF GameValid
<1>2. CASE names \cap Game # {}
  <2> DEFINE keys == {"L4D2_GAMESERVER_UDP_PORTS", "L4D2_SOURCETV_UDP_PORTS"}
  <2>1. PICK m \in names : m \in Game
    BY <1>2
  <2>2. keys \subseteq DOMAIN DefaultsOf(m)
    BY <2>1 DEF DefaultsOf, Game, GamePorts, @@
  <2>3. keys \cap Aside = {} /\ "BYPASS_UDP_PORTS" \notin Aside
    BY DEF Aside, Timeouts, Lists
  <2>4. \A k \in keys : v[k] = w[k]
    <3> HIDE DEF keys
    <3> QED
      BY <2>1, <2>2, <2>3, OptionAlike
  <2>5. Get(v, "BYPASS_UDP_PORTS", {}) = Get(w, "BYPASS_UDP_PORTS", {})
    BY <2>3, GetAlike
  <2> QED
    BY <2>4, <2>5 DEF GameValid
<1> QED
  BY <1>1, <1>2

LEMMA TcpAlike ==
  ASSUME NEW v, NEW w, Alike(v, w), NEW names,
         \A m \in names : DOMAIN DefaultsOf(m) \cup RequiredOf(m) \subseteq DOMAIN v, TcpValid(v, names)
  PROVE  TcpValid(w, names)
<1> DEFINE keys == {"SSH_PORT", "HTTP_HTTPS_PORTS", "L4D2_GAMESERVER_TCP_PORTS", "BYPASS_TCP_PORTS"}
<1>1. /\ "SSH_PORT" \in DOMAIN DefaultsOf("tcp_ssh")
      /\ "HTTP_HTTPS_PORTS" \in DOMAIN DefaultsOf("http_https_protect")
      /\ "L4D2_GAMESERVER_TCP_PORTS" \in DOMAIN DefaultsOf("l4d2_tcp_protect")
      /\ "BYPASS_TCP_PORTS" \in DOMAIN DefaultsOf("allowlist_ports")
  BY DEF DefaultsOf
<1>2. keys \cap Aside = {}
  BY DEF Aside, Timeouts, Lists
<1>3. /\ "tcp_ssh" \in names => v.SSH_PORT = w.SSH_PORT
      /\ "http_https_protect" \in names => v.HTTP_HTTPS_PORTS = w.HTTP_HTTPS_PORTS
      /\ "l4d2_tcp_protect" \in names => v.L4D2_GAMESERVER_TCP_PORTS = w.L4D2_GAMESERVER_TCP_PORTS
      /\ "allowlist_ports" \in names => v.BYPASS_TCP_PORTS = w.BYPASS_TCP_PORTS
  BY <1>1, <1>2 DEF Alike
<1>4. ControlledPorts(v, names) = ControlledPorts(w, names)
  BY <1>3 DEF ControlledPorts
<1> QED
  BY <1>3, <1>4 DEF TcpValid

LEMMA VpnAlike ==
  ASSUME NEW v, NEW w, Alike(v, w), VpnValid(v)
  PROVE  VpnValid(w)
<1>1. {"OVPNSRV_PROTO", "OVPNSRV_ENABLE_NAT", "OVPNSRV_LAN_INTERFACE", "OVPNS2S_ENABLE_NAT",
       "OVPNS2S_LOCAL_INTERFACE", "OVPNS2S_ROUTER_ALIAS"} \cap Aside = {}
  BY DEF Aside, Timeouts, Lists
<1>2. /\ Get(v, "OVPNSRV_PROTO", "udp") = Get(w, "OVPNSRV_PROTO", "udp")
      /\ Get(v, "OVPNSRV_ENABLE_NAT", FALSE) = Get(w, "OVPNSRV_ENABLE_NAT", FALSE)
      /\ Get(v, "OVPNSRV_LAN_INTERFACE", "") = Get(w, "OVPNSRV_LAN_INTERFACE", "")
      /\ Get(v, "OVPNS2S_ENABLE_NAT", FALSE) = Get(w, "OVPNS2S_ENABLE_NAT", FALSE)
      /\ Get(v, "OVPNS2S_LOCAL_INTERFACE", "") = Get(w, "OVPNS2S_LOCAL_INTERFACE", "")
      /\ Get(v, "OVPNS2S_ROUTER_ALIAS", {}) = Get(w, "OVPNS2S_ROUTER_ALIAS", {})
  BY <1>1, Zenon DEF Get, Alike
<1> QED
  BY <1>2 DEF VpnValid

LEMMA GrantsAlike ==
  ASSUME NEW v, NEW w, Alike(v, w), DOMAIN CoreDefaults \subseteq DOMAIN v, NEW names, NEW access,
         \A m \in names : DOMAIN DefaultsOf(m) \cup RequiredOf(m) \subseteq DOMAIN v, AccessFits(v, names, access)
  PROVE  AccessFits(w, names, access)
<1>1. "openvpn_server" \in names => v.OVPNSRV_PROTO = w.OVPNSRV_PROTO
  <2>1. "OVPNSRV_PROTO" \in DOMAIN DefaultsOf("openvpn_server") /\ "OVPNSRV_PROTO" \notin Aside
    BY DEF DefaultsOf, Aside, Timeouts, Lists
  <2> QED
    BY <2>1, OptionAlike
<1> QED
  BY <1>1, CoreAlike DEF AccessFits

(***************************************************************************)
(* A configuration is complete                                             *)
(***************************************************************************)
\* The old option is gone, and no module has it.
LEMMA NoTypechain ==
  ASSUME NEW supplied, NEW names, NEW explicit
  PROVE  LET v0 == Translated(supplied) @@ CoreDefaults
             v1 == WithDefaults(v0, names)
         IN "TYPECHAIN" \notin DOMAIN v0 /\ "TYPECHAIN" \notin DOMAIN v1
<1> DEFINE v0 == Translated(supplied) @@ CoreDefaults
           keys == UNION {DOMAIN DefaultsOf(m) : m \in names}
           own == [k \in keys |-> DefaultsOf(CHOOSE m \in names : k \in DOMAIN DefaultsOf(m))[k]]
           filled == v0 @@ own
           tv == IF "UDP_NEW_RATE" \in DOMAIN filled
                   THEN [SOURCETV_UDP_NEW_RATE |-> filled.UDP_NEW_RATE, SOURCETV_UDP_NEW_BURST |-> filled.UDP_NEW_BURST]
                   ELSE << >>
<1>1. "TYPECHAIN" \notin DOMAIN Translated(supplied)
  <2>1. "TYPECHAIN" \notin DOMAIN Translation(supplied.TYPECHAIN)
    BY DEF Translation
  <2>2. CASE "TYPECHAIN" \notin DOMAIN supplied
    BY <2>2 DEF Translated
  <2>3. CASE "TYPECHAIN" \in DOMAIN supplied
    <3> DEFINE kept == [k \in DOMAIN supplied \ {"TYPECHAIN"} |-> supplied[k]]
    <3>1. "TYPECHAIN" \notin DOMAIN kept
      OBVIOUS
    <3>2. Translated(supplied) = kept @@ Translation(supplied.TYPECHAIN)
      BY <2>3 DEF Translated
    <3> HIDE DEF kept
    <3>3. DOMAIN Translated(supplied) = DOMAIN kept \cup DOMAIN Translation(supplied.TYPECHAIN)
      BY <3>2, Together
    <3> QED
      BY <2>1, <3>1, <3>3
  <2> QED
    BY <2>2, <2>3
<1>2. "TYPECHAIN" \notin DOMAIN CoreDefaults
  BY DEF CoreDefaults
<1>3. "TYPECHAIN" \notin DOMAIN v0
  BY <1>1, <1>2, Together
<1>4. ASSUME NEW m PROVE "TYPECHAIN" \notin DOMAIN DefaultsOf(m)
  BY DEF DefaultsOf, GamePorts, @@
<1>5. "TYPECHAIN" \notin DOMAIN own
  BY <1>4
<1>6. "TYPECHAIN" \notin DOMAIN tv
  <2> HIDE DEF filled
  <2> QED
    OBVIOUS
<1>7. WithDefaults(v0, names) = filled @@ tv
  BY DEF WithDefaults
<1> HIDE DEF own, tv, v0
<1>8. "TYPECHAIN" \notin DOMAIN filled
  BY <1>3, <1>5, Together
<1> HIDE DEF filled
<1>9. DOMAIN WithDefaults(v0, names) = DOMAIN filled \cup DOMAIN tv
  BY <1>7, Together
<1> QED
  BY <1>3, <1>6, <1>8, <1>9 DEF v0

\* The rate of SourceTV comes with that of the game.
LEMMA SourceTvGiven ==
  ASSUME NEW v, NEW names, "UDP_NEW_RATE" \in DOMAIN WithDefaults(v, names)
  PROVE  {"SOURCETV_UDP_NEW_RATE", "SOURCETV_UDP_NEW_BURST"} \subseteq DOMAIN WithDefaults(v, names)
<1> DEFINE keys == UNION {DOMAIN DefaultsOf(m) : m \in names}
           own == [k \in keys |-> DefaultsOf(CHOOSE m \in names : k \in DOMAIN DefaultsOf(m))[k]]
           filled == v @@ own
           tv == IF "UDP_NEW_RATE" \in DOMAIN filled
                   THEN [SOURCETV_UDP_NEW_RATE |-> filled.UDP_NEW_RATE, SOURCETV_UDP_NEW_BURST |-> filled.UDP_NEW_BURST]
                   ELSE << >>
<1>1. WithDefaults(v, names) = filled @@ tv
  BY DEF WithDefaults
<1> HIDE DEF filled
<1>2. "UDP_NEW_RATE" \notin DOMAIN tv
  OBVIOUS
<1>3. "UDP_NEW_RATE" \in DOMAIN filled
  <2> HIDE DEF tv
  <2>1. DOMAIN WithDefaults(v, names) = DOMAIN filled \cup DOMAIN tv
    BY <1>1, Together
  <2> QED
    BY <1>2, <2>1
<1>4. DOMAIN tv = {"SOURCETV_UDP_NEW_RATE", "SOURCETV_UDP_NEW_BURST"}
  BY <1>3
<1> HIDE DEF tv
<1>5. DOMAIN WithDefaults(v, names) = DOMAIN filled \cup DOMAIN tv
  BY <1>1, Together
<1> QED
  BY <1>4, <1>5

\* Only timeouts are added.
LEMMA FittedAdds ==
  ASSUME NEW v, NEW names, NEW explicit
  PROVE  DOMAIN Fitted(v, names, explicit) \subseteq DOMAIN v \cup Timeouts
<1> DEFINE short == {q \in Needs(v, names) : q[1] \notin explicit /\ ~Covered(v, q)}
           longer == [t \in {q[1] : q \in short} |-> (CHOOSE q \in short : q[1] = t)[2]]
<1>1. Fitted(v, names, explicit) = longer @@ v
  BY DEF Fitted
<1>2. ASSUME NEW q \in Needs(v, names) PROVE q[1] \in Timeouts
  BY DEF Needs, Timeouts, TcpMeters
<1>3. DOMAIN longer \subseteq Timeouts
  BY <1>2
<1> HIDE DEF longer
<1> QED
  BY <1>1, <1>3, Together

\* What comes out of a configuration that is not refused is complete, and passes each of
\* the checks again.
LEMMA ConfiguredFilled ==
  ASSUME NEW r, NEW f, NEW c \in Configured(r, f)
  PROVE  Filled(c.config, c.selected) /\ Valid(c.backend, c.config, c.selected, c.access, f)
<1> DEFINE v0 == Translated(r.supplied) @@ CoreDefaults
           names == Selection(r, v0)
           v1 == WithDefaults(v0, names)
           v == Fitted(v1, names, r.explicit)
           w == Resolved(v, f)
           access == IF r.normalized THEN r.access ELSE f.access[v0.ACCESS_POLICY]
<1>1. /\ c = [backend |-> r.backend, config |-> w, selected |-> names, access |-> access]
      /\ PoliciesValid(r.backend, v1) /\ LanValid(r.backend, v1, names)
      /\ PayloadsValid(r.backend, v1, names) /\ BypassValid(v1, names)
      /\ MetersComplete(v1) /\ TimeoutsCover(v, names)
      /\ GeoValid(v, names) /\ GameValid(v, names) /\ TcpValid(v, names) /\ VpnValid(v)
      /\ AccessValid(access) /\ AccessFits(v, names, access) /\ GeoFilesPresent(v, names, f)
      /\ DnsValid(v, f) /\ SelectionValid(r, v0)
      /\ \A m \in names : RequiredOf(m) \subseteq DOMAIN v0
  BY DEF Configured
<1>2. /\ r.backend \in {"nftables", "iptables"} /\ names \subseteq Catalog(r.backend)
      /\ ~({"openvpn_server", "openvpn_sitetosite"} \subseteq names) /\ (names \cap Game # {} => Game \subseteq names)
  <2>1. \A p \in DOMAIN Profiles : Profiles[p] \subseteq Catalog(r.backend)
    BY DEF Profiles, Catalog, Game
  <2>2. names \subseteq Listed(r, v0) \cup IF FallsBack(r, v0) THEN UNION {Profiles[p] : p \in ChosenProfiles(r, v0)} ELSE {}
    BY DEF Selection
  <2> QED
    BY <2>1, <2>2, <1>1 DEF SelectionValid
<1>3. DOMAIN CoreDefaults \subseteq DOMAIN v0
  BY Together
<1> HIDE DEF names, v1, v, w, access, v0
<1>4. "TYPECHAIN" \notin DOMAIN v1
  BY NoTypechain DEF v1, v0
<1>5. /\ \A k \in DOMAIN v0 : k \in DOMAIN v1 /\ v1[k] = v0[k]
      /\ \A m \in names : DOMAIN DefaultsOf(m) \subseteq DOMAIN v1
      /\ "UDP_NEW_RATE" \in DOMAIN v1 => {"SOURCETV_UDP_NEW_RATE", "SOURCETV_UDP_NEW_BURST"} \subseteq DOMAIN v1
  BY DefaultsKeep, SourceTvGiven DEF v1
<1>6. \A m \in names : DOMAIN DefaultsOf(m) \cup RequiredOf(m) \subseteq DOMAIN v1
  BY <1>1, <1>5
<1>7. /\ \A k \in DOMAIN v1 : k \in DOMAIN v /\ (k \notin Timeouts => v[k] = v1[k])
      /\ DOMAIN v \subseteq DOMAIN v1 \cup Timeouts
  BY FittedKeeps, FittedAdds DEF v
<1>8. Lists \cup {"ACCESS_POLICY"} \subseteq DOMAIN v
  <2>1. Lists \cup {"ACCESS_POLICY"} \subseteq DOMAIN CoreDefaults
    BY DEF Lists, CoreDefaults
  <2> QED
    BY <2>1, <1>3, <1>5, <1>7
<1>9. /\ w = [k \in DOMAIN w |-> w[k]] /\ DOMAIN w = DOMAIN v
      /\ \A k \in DOMAIN v : k \notin Lists \cup {"ACCESS_POLICY"} => w[k] = v[k]
      /\ w.ACCESS_POLICY = Unnamed /\ w.BYPASS_SOURCE_DOMAINS = {}
      /\ w.BYPASS_SOURCE_IPS = v.BYPASS_SOURCE_IPS \cup {{a} : a \in Answers(v, f)}
  <2> DEFINE known == [ACCESS_POLICY |-> Unnamed, BYPASS_SOURCE_DOMAINS |-> {},
                       BYPASS_SOURCE_IPS |-> v.BYPASS_SOURCE_IPS \cup {{a} : a \in Answers(v, f)}]
  <2>1. w = known @@ v
    BY Zenon DEF w, Resolved, Unnamed
  <2>2. DOMAIN known = Lists \cup {"ACCESS_POLICY"}
    BY DEF Lists
  <2>3. /\ known.ACCESS_POLICY = Unnamed /\ known.BYPASS_SOURCE_DOMAINS = {}
        /\ known.BYPASS_SOURCE_IPS = v.BYPASS_SOURCE_IPS \cup {{a} : a \in Answers(v, f)}
    OBVIOUS
  <2> HIDE DEF known
  <2>4. w = [k \in DOMAIN w |-> w[k]]
    BY <2>1, AboveIs
  <2>5. DOMAIN w = DOMAIN known \cup DOMAIN v
    BY <2>1, Together
  <2>6. \A k \in DOMAIN v : k \notin DOMAIN known => w[k] = v[k]
    BY <2>1, Right
  <2>7. \A k \in DOMAIN known : w[k] = known[k]
    BY <2>1, Left
  <2>8. DOMAIN w = DOMAIN v
    BY <1>8, <2>2, <2>5
  <2> QED
    BY <2>2, <2>3, <2>4, <2>6, <2>7, <2>8 DEF Lists
<1>10. Alike(v1, v) /\ Alike(v, w) /\ Alike(v1, w)
  BY <1>7, <1>9 DEF Alike, Aside
<1>11. /\ DOMAIN CoreDefaults \subseteq DOMAIN v1 /\ DOMAIN CoreDefaults \subseteq DOMAIN v /\ DOMAIN CoreDefaults \subseteq DOMAIN w
       /\ \A m \in names : DOMAIN DefaultsOf(m) \cup RequiredOf(m) \subseteq DOMAIN v
       /\ \A m \in names : DOMAIN DefaultsOf(m) \cup RequiredOf(m) \subseteq DOMAIN w
  BY <1>3, <1>5, <1>6, <1>7, <1>9
<1>12. /\ PoliciesValid(r.backend, w) /\ LanValid(r.backend, w, names) /\ PayloadsValid(r.backend, w, names)
       /\ GeoValid(w, names) /\ GameValid(w, names) /\ TcpValid(w, names) /\ VpnValid(w)
       /\ AccessFits(w, names, access) /\ GeoFilesPresent(w, names, f)
  BY <1>1, <1>6, <1>10, <1>11, PoliciesAlike, LanAlike, PayloadsAlike, GeoAlike, GameAlike, TcpAlike, VpnAlike, GrantsAlike
<1>13. BypassValid(w, names)
  <2>1. v1.BYPASS_SOURCE_IPS = v.BYPASS_SOURCE_IPS /\ v1.BYPASS_SOURCE_DOMAINS = v.BYPASS_SOURCE_DOMAINS
    <3>1. Lists \subseteq DOMAIN v1 /\ Lists \cap Timeouts = {}
      BY <1>11 DEF Lists, Timeouts, CoreDefaults
    <3> QED
      BY <3>1, <1>7 DEF Lists
  <2>2. v1.PRIVILEGED_BYPASS = w.PRIVILEGED_BYPASS
    BY <1>10, <1>11, CoreAlike
  <2>3. Answers(v, f) # {} => v.BYPASS_SOURCE_DOMAINS # {}
    BY DEF Answers
  <2> QED
    BY <2>1, <2>2, <2>3, <1>1, <1>9 DEF BypassValid
<1>14. MetersComplete(w) /\ MetersComplete(v)
  <2>1. \A q \in TcpMeters : q[1] \notin Timeouts
    BY DEF TcpMeters, Timeouts
  <2> QED
    BY <2>1, <1>1, <1>7, <1>9 DEF MetersComplete
<1>15. TimeoutsCover(w, names)
  <2>1. (TcpKeys \cup GameMeters \cup Timeouts) \cap (Lists \cup {"ACCESS_POLICY"}) = {}
    BY DEF TcpKeys, GameMeters, Timeouts, Lists
  <2>2. \A k \in TcpKeys : (k \in DOMAIN v <=> k \in DOMAIN w) /\ (k \in DOMAIN v => v[k] = w[k])
    BY <2>1, <1>9
  <2>3. Game \subseteq names => \A k \in GameMeters : v[k] = w[k]
    <3>1. SUFFICES ASSUME Game \subseteq names PROVE GameMeters \subseteq DOMAIN v
      BY <2>1, <1>9
    <3>2. {"SOURCETV_UDP_NEW_RATE", "SOURCETV_UDP_NEW_BURST"} \subseteq DOMAIN v1
      BY <3>1, <1>5, GameDefaults DEF Game
    <3> QED
      BY <3>1, <3>2, <1>7, <1>11, GameDefaults DEF Game, GameMeters
  <2>4. Needs(v, names) = Needs(w, names)
    BY <2>2, <2>3, <1>14, NeedsSame
  <2>5. \A q \in Needs(v, names) : v[q[1]] = w[q[1]]
    BY <2>1, <1>9, <1>11, <1>14, NeedsThere
  <2>6. names \cap Game # {} => v.L4D2_CMD_LIMIT = w.L4D2_CMD_LIMIT /\ v.NFT_UDP_EST_METER_TIMEOUT = w.NFT_UDP_EST_METER_TIMEOUT
    <3>1. {"L4D2_CMD_LIMIT", "NFT_UDP_EST_METER_TIMEOUT"} \cap (Lists \cup {"ACCESS_POLICY"}) = {}
      BY DEF Lists
    <3>2. names \cap Game # {} => {"L4D2_CMD_LIMIT", "NFT_UDP_EST_METER_TIMEOUT"} \subseteq DOMAIN v
      BY <1>2, <1>11, GameDefaults DEF Game
    <3> QED
      BY <3>1, <3>2, <1>9
  <2> QED
    BY <2>4, <2>5, <2>6, <1>1, CoverSame
<1>16. "TYPECHAIN" \notin DOMAIN w
  <2>1. "TYPECHAIN" \notin DOMAIN v1 /\ "TYPECHAIN" \notin Timeouts
    BY <1>4 DEF Timeouts
  <2> QED
    BY <2>1, <1>7, <1>9
<1>17. "UDP_NEW_RATE" \in DOMAIN w => {"SOURCETV_UDP_NEW_RATE", "SOURCETV_UDP_NEW_BURST"} \subseteq DOMAIN w
  BY <1>5, <1>7, <1>9 DEF Timeouts
<1>18. Filled(w, names)
  BY <1>9, <1>11, <1>14, <1>15, <1>16, <1>17 DEF Filled
<1>19. Valid(r.backend, w, names, access, f)
  BY <1>1, <1>2, <1>12, <1>13 DEF Valid
<1> QED
  BY <1>1, <1>18, <1>19

(***************************************************************************)
(* Complete options read back                                              *)
(***************************************************************************)
\* Fewer modules need no more.
LEMMA FewerFilled ==
  ASSUME NEW v, NEW names, Filled(v, names), NEW S, S \subseteq names
  PROVE  Filled(v, S)
<1>1. Needs(v, S) \subseteq Needs(v, names)
  BY SMTT(60) DEF Needs
<1>2. TimeoutsCover(v, S)
  BY <1>1 DEF Filled, TimeoutsCover
<1> QED
  BY <1>2 DEF Filled

LEMMA DefaultsThere ==
  ASSUME NEW v, NEW names, Filled(v, names)
  PROVE  WithDefaults(v, names) = v
<1> DEFINE keys == UNION {DOMAIN DefaultsOf(m) : m \in names}
           own == [k \in keys |-> DefaultsOf(CHOOSE m \in names : k \in DOMAIN DefaultsOf(m))[k]]
           filled == v @@ own
           tv == IF "UDP_NEW_RATE" \in DOMAIN filled
                   THEN [SOURCETV_UDP_NEW_RATE |-> filled.UDP_NEW_RATE, SOURCETV_UDP_NEW_BURST |-> filled.UDP_NEW_BURST]
                   ELSE << >>
<1>1. WithDefaults(v, names) = filled @@ tv
  BY DEF WithDefaults
<1>2. DOMAIN own \subseteq DOMAIN v
  BY DEF Filled
<1> HIDE DEF own
<1>3. filled = v
  BY <1>2, Above DEF Filled
<1> HIDE DEF filled
<1>4. DOMAIN tv \subseteq DOMAIN v
  BY <1>3 DEF Filled
<1> HIDE DEF tv
<1> QED
  BY <1>1, <1>3, <1>4, Above DEF Filled

LEMMA TimeoutsThere ==
  ASSUME NEW v, NEW names, Filled(v, names), NEW explicit
  PROVE  Fitted(v, names, explicit) = v
<1> DEFINE short == {q \in Needs(v, names) : q[1] \notin explicit /\ ~Covered(v, q)}
           longer == [t \in {q[1] : q \in short} |-> (CHOOSE q \in short : q[1] = t)[2]]
<1>1. short = {}
  BY DEF Filled, TimeoutsCover
<1>2. longer = [t \in {} |-> (CHOOSE q \in short : q[1] = t)[2]]
  BY <1>1
<1>3. Fitted(v, names, explicit) = longer @@ v
  BY DEF Fitted
<1>4. DOMAIN longer = {}
  BY <1>2
<1> HIDE DEF longer
<1>5. longer @@ v = v
  BY <1>4 DEF @@, Filled
<1> QED
  BY <1>3, <1>5, SMTT(60)

LEMMA AnswersThere ==
  ASSUME NEW v, NEW names, Filled(v, names), NEW f
  PROVE  Resolved(v, f) = v /\ DnsValid(v, f)
<1>1. Answers(v, f) = {}
  BY DEF Filled, Answers
<1>2. DnsValid(v, f)
  BY <1>1 DEF DnsValid, Filled
<1> DEFINE known == [ACCESS_POLICY |-> Unnamed, BYPASS_SOURCE_DOMAINS |-> {},
                     BYPASS_SOURCE_IPS |-> v.BYPASS_SOURCE_IPS \cup {{a} : a \in Answers(v, f)}]
<1>3. Resolved(v, f) = known @@ v
  BY Zenon DEF Resolved, Unnamed
<1>4. known.BYPASS_SOURCE_IPS = v.BYPASS_SOURCE_IPS
  BY <1>1
<1>5. \A k \in DOMAIN known : k \in DOMAIN v /\ known[k] = v[k]
  <2>1. {"ACCESS_POLICY", "BYPASS_SOURCE_DOMAINS", "BYPASS_SOURCE_IPS"} \subseteq DOMAIN v
    BY DEF CoreDefaults, Filled
  <2>2. DOMAIN known = {"ACCESS_POLICY", "BYPASS_SOURCE_DOMAINS", "BYPASS_SOURCE_IPS"}
    OBVIOUS
  <2>3. known.ACCESS_POLICY = v.ACCESS_POLICY /\ known.BYPASS_SOURCE_DOMAINS = v.BYPASS_SOURCE_DOMAINS
    BY DEF Filled
  <2> HIDE DEF known
  <2> QED
    BY <1>4, <2>1, <2>2, <2>3
<1> HIDE DEF known
<1>6. known @@ v = v
  BY <1>5 DEF @@, Filled
<1> QED
  BY <1>2, <1>3, <1>6

\* Read back with some of its modules, a complete configuration is those modules and its
\* own options, or nothing when the checks refuse that.
Requested(b, v, listed, access, f) ==
  LET S == listed \ v.MODULES_EXCLUDE IN
  /\ b \in {"nftables", "iptables"} /\ listed \cup v.MODULES_EXCLUDE \subseteq Catalog(b)
  /\ Valid(b, v, S, access, f)

LEMMA ReadBack ==
  ASSUME NEW v, NEW names, Filled(v, names), NEW b, NEW listed, listed \subseteq names, NEW access, NEW explicit, NEW f
  PROVE  Configured(Normalized(b, v, listed, access, explicit), f) =
           IF Requested(b, v, listed, access, f)
             THEN {[backend |-> b, config |-> v, selected |-> listed \ v.MODULES_EXCLUDE, access |-> access]} ELSE {}
<1> DEFINE r == Normalized(b, v, listed, access, explicit)
           S == listed \ v.MODULES_EXCLUDE
           v0 == Translated(r.supplied) @@ CoreDefaults
<1>1. /\ r.backend = b /\ r.only = <<listed>> /\ r.skip = <<>> /\ r.profiles = <<>> /\ r.normalized
      /\ r.access = access /\ r.explicit = explicit
  BY Zenon DEF Normalized
<1>2. r.supplied = v
  <2>1. r.supplied = [ACCESS_POLICY |-> Unnamed] @@ v
    BY Zenon DEF Normalized, Unnamed
  <2>2. "ACCESS_POLICY" \in DOMAIN v
    BY DEF CoreDefaults, Filled
  <2> DEFINE none == [ACCESS_POLICY |-> Unnamed]
  <2>3. \A x \in DOMAIN none : x \in DOMAIN v /\ none[x] = v[x]
    BY <2>2 DEF Filled
  <2>4. v = [k \in DOMAIN v |-> v[k]]
    BY DEF Filled
  <2> HIDE DEF none
  <2>5. none @@ v = v
    BY <2>3, <2>4, Below
  <2> QED
    BY <2>1, <2>5 DEF none
<1> HIDE DEF r
<1>3. v0 = v
  BY <1>2, Above DEF Filled, Translated
<1> HIDE DEF v0
<1>4. Selection(r, v) = S /\ Excluded(r, v) = v.MODULES_EXCLUDE /\ Listed(r, v) = listed /\ ~FallsBack(r, v)
  BY <1>1 DEF Selection, Excluded, Listed, FallsBack
<1>5. Filled(v, S)
  BY FewerFilled
<1>6. WithDefaults(v, S) = v /\ Fitted(v, S, explicit) = v /\ Resolved(v, f) = v /\ DnsValid(v, f)
  BY <1>5, DefaultsThere, TimeoutsThere, AnswersThere
<1>7. Translatable(r.supplied) /\ "TYPECHAIN" \notin DOMAIN r.supplied
  BY <1>2 DEF Translatable, Filled
<1>8. (\A m \in S : RequiredOf(m) \subseteq DOMAIN v) /\ MetersComplete(v) /\ TimeoutsCover(v, S)
  BY <1>5 DEF Filled
<1>9. SelectionValid(r, v) =
        (/\ b \in {"nftables", "iptables"} /\ listed \cup v.MODULES_EXCLUDE \subseteq Catalog(b)
         /\ ~({"openvpn_server", "openvpn_sitetosite"} \subseteq S) /\ (S \cap Game # {} => Game \subseteq S))
  BY <1>1, <1>4 DEF SelectionValid
<1> DEFINE checked ==
      /\ PoliciesValid(b, v) /\ LanValid(b, v, S) /\ PayloadsValid(b, v, S) /\ BypassValid(v, S)
      /\ GeoValid(v, S) /\ GameValid(v, S) /\ TcpValid(v, S) /\ VpnValid(v)
      /\ AccessValid(access) /\ AccessFits(v, S, access) /\ GeoFilesPresent(v, S, f)
<1>10. Configured(r, f) =
         IF SelectionValid(r, v) /\ checked
           THEN {[backend |-> b, config |-> v, selected |-> S, access |-> access]} ELSE {}
  <2> DEFINE names0 == Selection(r, v0)
             v1 == WithDefaults(v0, names0)
             w == Fitted(v1, names0, r.explicit)
             x == Resolved(w, f)
             given == IF r.normalized THEN r.access ELSE f.access[v0.ACCESS_POLICY]
  <2>1. names0 = S /\ given = access
    BY <1>1, <1>3, <1>4
  <2>2. v1 = v
    BY <2>1, <1>3, <1>6
  <2>3. w = v
    BY <2>1, <2>2, <1>1, <1>6
  <2>4. x = v
    BY <2>3, <1>6
  <2>5. Configured(r, f) =
          IF /\ Translatable(r.supplied) /\ (r.normalized => "TYPECHAIN" \notin DOMAIN r.supplied)
             /\ SelectionValid(r, v0) /\ (\A m \in names0 : RequiredOf(m) \subseteq DOMAIN v0)
             /\ r.normalized \/ v0.ACCESS_POLICY \in DOMAIN f.access
             /\ PoliciesValid(r.backend, v1) /\ LanValid(r.backend, v1, names0)
             /\ PayloadsValid(r.backend, v1, names0) /\ BypassValid(v1, names0)
             /\ MetersComplete(v1) /\ TimeoutsCover(w, names0)
             /\ GeoValid(w, names0) /\ GameValid(w, names0) /\ TcpValid(w, names0) /\ VpnValid(w)
             /\ AccessValid(given) /\ AccessFits(w, names0, given)
             /\ GeoFilesPresent(w, names0, f) /\ DnsValid(w, f)
          THEN {[backend |-> r.backend, config |-> x, selected |-> names0, access |-> given]}
          ELSE {}
    BY Zenon DEF Configured, v0
  <2> HIDE DEF names0, v1, w, x, given, S
  <2> QED
    BY <2>1, <2>2, <2>3, <2>4, <2>5, <1>1, <1>3, <1>6, <1>7, <1>8
<1>11. (SelectionValid(r, v) /\ checked) <=> Requested(b, v, listed, access, f)
  BY <1>9 DEF Requested, Valid
<1> QED
  BY <1>10, <1>11 DEF r

(***************************************************************************)
(* The record is complete                                                  *)
(***************************************************************************)
\* A policy with complete options, that passes every check, and the chains of those.
Parts(p) == [backend |-> p.backend, config |-> p.config, selected |-> p.selected, access |-> p.access]
Whole(p, f) ==
  /\ Filled(p.config, p.selected) /\ Valid(p.backend, p.config, p.selected, p.access, f)
  /\ p \in Generated(Parts(p), f)
CurrentInv == \A p \in Current : Whole(p, read)

LEMMA GeneratedWhole ==
  ASSUME NEW r, NEW f, NEW c \in Configured(r, f), NEW p \in Generated(c, f)
  PROVE  Whole(p, f) /\ Parts(p) = c /\ p.schema \in {2, 3}
<1>1. c = [backend |-> c.backend, config |-> c.config, selected |-> c.selected, access |-> c.access]
  <2> DEFINE v0 == Translated(r.supplied) @@ CoreDefaults
             names == Selection(r, v0)
             w == Resolved(Fitted(WithDefaults(v0, names), names, r.explicit), f)
             access == IF r.normalized THEN r.access ELSE f.access[v0.ACCESS_POLICY]
  <2>1. c = [backend |-> r.backend, config |-> w, selected |-> names, access |-> access]
    BY DEF Configured
  <2> HIDE DEF w, names, access
  <2> QED
    BY <2>1
<1>2. p.backend = c.backend /\ p.config = c.config /\ p.selected = c.selected /\ p.access = c.access /\ p.schema \in {2, 3}
  BY <1>1, GeneratedIs
<1>3. Parts(p) = c
  BY <1>1, <1>2 DEF Parts
<1> QED
  BY <1>2, <1>3, ConfiguredFilled DEF Whole

LEMMA WholeFields ==
  ASSUME NEW f, NEW p, Whole(p, f)
  PROVE  /\ p = [k \in DOMAIN p |-> p[k]] /\ DOMAIN p = {"schema", "chains", "backend", "config", "selected", "access"}
         /\ p.schema \in {2, 3} /\ AsCompiled(p, f) /\ Generated(Parts(p), f) = {p}
<1>1. Parts(p) = [backend |-> Parts(p).backend, config |-> Parts(p).config, selected |-> Parts(p).selected,
                  access |-> Parts(p).access]
  BY DEF Parts
<1>2. p \in Generated(Parts(p), f)
  BY DEF Whole
<1>3. DOMAIN p = {"schema", "chains", "backend", "config", "selected", "access"} /\ p.schema \in {2, 3} /\ AsCompiled(p, f)
  BY <1>1, <1>2, GeneratedIs
<1>4. /\ Generated(Parts(p), f) = {p}
      /\ \E g : p = g @@ Parts(p)
  BY <1>2 DEF Generated
<1> QED
  BY <1>3, <1>4, AboveIs

\* What an older release wrote comes back as this release would have written it.
LEMMA OlderMigrates ==
  ASSUME NEW q, NEW f, Whole(q, f), q.schema = 2, NEW t \in {0, 1, 2}, NEW dimensions \in BOOLEAN,
         ~dimensions => \A k \in Dimensions : Translation(t)[k] = q.config[k],
         NEW p \in Migrated(Older(q, t, dimensions))
  PROVE  p = q
<1> DEFINE v == q.config
           told == [TYPECHAIN |-> t, ACCESS_POLICY |-> "acl"]
           rest == Without(v, IF dimensions THEN {} ELSE Dimensions)
           X == told @@ rest
           o == Older(q, t, dimensions)
<1>1. /\ q = [k \in DOMAIN q |-> q[k]]
      /\ DOMAIN q = {"schema", "chains", "backend", "config", "selected", "access"}
  BY WholeFields
<1>2. /\ v = [k \in DOMAIN v |-> v[k]] /\ "TYPECHAIN" \notin DOMAIN v /\ v.ACCESS_POLICY = Unnamed
      /\ {"ACCESS_POLICY", "HOST_SERVICES", "CONTAINER_POLICY"} \subseteq DOMAIN v
  BY DEF Whole, Filled, CoreDefaults
<1>3. o = [q EXCEPT !.schema = 1, !.config = X]
  BY DEF Older
<1> HIDE DEF X
<1>4. o.schema = 1 /\ o.config = X
  BY <1>1, <1>3
<1>5. PICK config \in LegacyDimensions(X) : p = [o EXCEPT !.config = [ACCESS_POLICY |-> Unnamed] @@ config, !.schema = 2]
  <2> HIDE DEF o
  <2>1. p \in {[o EXCEPT !.config = [ACCESS_POLICY |-> Unnamed] @@ config, !.schema = 2] :
               config \in {x \in LegacyDimensions(o.config) : x.BYPASS_SOURCE_DOMAINS = {}}}
    <3>1. p \in Migrated(o)
      BY DEF o
    <3> QED
      BY <1>4, <3>1, Zenon DEF Migrated, Unnamed
  <2> QED
    BY <1>4, <2>1
<1> DEFINE y == [ACCESS_POLICY |-> Unnamed] @@ config
<1>6. /\ DOMAIN told = {"TYPECHAIN", "ACCESS_POLICY"}
      /\ DOMAIN rest = DOMAIN v \ (IF dimensions THEN {} ELSE Dimensions)
      /\ \A k \in DOMAIN rest : rest[k] = v[k]
  BY DEF Without
<1>7. /\ DOMAIN X = {"TYPECHAIN", "ACCESS_POLICY"} \cup DOMAIN rest
      /\ \A k \in DOMAIN rest : k \notin {"TYPECHAIN", "ACCESS_POLICY"} => X[k] = v[k]
  <2> HIDE DEF told, rest
  <2>1. X = told @@ rest
    BY DEF X
  <2> HIDE DEF X
  <2>2. DOMAIN X = DOMAIN told \cup DOMAIN rest
    BY <2>1, Together
  <2>3. \A k \in DOMAIN rest : k \notin DOMAIN told => X[k] = rest[k]
    BY <2>1, Right
  <2> QED
    BY <2>2, <2>3, <1>6
<1> HIDE DEF told, rest
<1>8. /\ DOMAIN Without(X, {"TYPECHAIN"}) = DOMAIN X \ {"TYPECHAIN"}
      /\ \A k \in DOMAIN X \ {"TYPECHAIN"} : Without(X, {"TYPECHAIN"})[k] = X[k]
  BY DEF Without
<1>9. DOMAIN config = DOMAIN v /\ \A k \in DOMAIN v : k # "ACCESS_POLICY" => config[k] = v[k]
  <2>1. CASE dimensions
    <3>1. Dimensions \cap DOMAIN X = Dimensions
      BY <2>1, <1>2, <1>6, <1>7 DEF Dimensions
    <3>2. config = Without(X, {"TYPECHAIN"})
      BY <3>1 DEF LegacyDimensions
    <3>3. DOMAIN rest = DOMAIN v
      BY <2>1, <1>6
    <3> QED
      BY <3>2, <3>3, <1>2, <1>7, <1>8
  <2>2. CASE ~dimensions
    <3>1. Dimensions \cap DOMAIN X = {} /\ DOMAIN rest = DOMAIN v \ Dimensions
      BY <2>2, <1>6, <1>7 DEF Dimensions
    <3>2. config \in {Translation(X.TYPECHAIN) @@ Without(X, {"TYPECHAIN"})}
      BY <3>1 DEF LegacyDimensions, Dimensions
    <3>3. X.TYPECHAIN = t
      BY Left, <1>6 DEF X, told
    <3>4. config = Translation(t) @@ Without(X, {"TYPECHAIN"})
      BY <3>2, <3>3
    <3>5. DOMAIN Translation(t) = Dimensions
      BY DEF Translation, Dimensions
    <3>6. DOMAIN config = Dimensions \cup DOMAIN Without(X, {"TYPECHAIN"})
      BY <3>4, <3>5, Together
    <3>7. \A k \in Dimensions : config[k] = v[k]
      BY <2>2, <3>4, <3>5, Left
    <3>8. \A k \in DOMAIN Without(X, {"TYPECHAIN"}) : k \notin Dimensions => config[k] = Without(X, {"TYPECHAIN"})[k]
      BY <3>4, <3>5, Right
    <3>9. DOMAIN config = DOMAIN v
      BY <3>1, <3>6, <1>2, <1>7, <1>8 DEF Dimensions
    <3> QED
      BY <3>1, <3>7, <3>8, <3>9, <1>2, <1>7, <1>8
  <2> QED
    BY <2>1, <2>2
<1>10. y = v
  <2> DEFINE none == [ACCESS_POLICY |-> Unnamed]
  <2>1. DOMAIN none = {"ACCESS_POLICY"} /\ none.ACCESS_POLICY = v.ACCESS_POLICY
    BY <1>2
  <2>2. y = none @@ config
    OBVIOUS
  <2> HIDE DEF none, y
  <2>3. DOMAIN y = DOMAIN none \cup DOMAIN config
    BY <2>2, Together
  <2>4. y = [k \in DOMAIN y |-> y[k]]
    BY <2>2, AboveIs
  <2>5. \A k \in DOMAIN none : y[k] = none[k]
    BY <2>2, Left
  <2>6. \A k \in DOMAIN config : k \notin DOMAIN none => y[k] = config[k]
    BY <2>2, Right
  <2>7. DOMAIN y = DOMAIN v
    BY <1>2, <1>9, <2>1, <2>3
  <2>8. \A k \in DOMAIN v : y[k] = v[k]
    BY <1>9, <2>1, <2>5, <2>6
  <2> QED
    BY <1>2, <2>4, <2>7, <2>8
<1>11. p = [o EXCEPT !.config = v, !.schema = 2]
  BY <1>5, <1>10
<1> HIDE DEF v, o
<1>12. p = q
  BY <1>1, <1>3, <1>11 DEF v
<1> QED
  BY <1>12

LEMMA RemovedBy ==
  ASSUME NEW p, NEW d, NEW next \in RemoveConfiguration(p, d)
  PROVE  \E c \in Merged(p, d.set) : \E n \in Named(p, c, d.names, d.set) :
           next \in Reread(p, c.config, p.selected \ n.selected, c.access, d.set)
<1> DEFINE Rest(n) == p.selected \ n.selected
           Remaining(c) == UNION {IF Rest(n) = {} THEN {} ELSE
                                    {x \in Reread(p, c.config, Rest(n), c.access, d.set) :
                                       \A g \in Containers(x.access) : g.service \in x.selected}
                                  : n \in Named(p, c, d.names, d.set)}
<1>1. PICK c \in Merged(p, d.set) : next \in Remaining(c)
  BY DEF RemoveConfiguration
<1>2. PICK n \in Named(p, c, d.names, d.set) : next \in Reread(p, c.config, Rest(n), c.access, d.set)
  BY <1>1
<1> QED
  BY <1>2

LEMMA CurrentOf ==
  ASSUME NEW f, NEW p, Whole(p, f)
  PROVE  Migrated(p) \subseteq {p}
<1>1. p.schema # 1
  BY WholeFields
<1> QED
  BY <1>1, Zenon DEF Migrated

\* Each operation confirms a configuration; anything else leaves the record alone.
LEMMA StepConfirms ==
  ASSUME PolicyNext
  PROVE  \/ record' = record /\ read' = read
         \/ \E r, c, operation : c \in Configured(r, files) /\ Confirm(c, operation)
<1>1. ASSUME NEW r \in Requests, Apply(r)
      PROVE  \E x, c, operation : c \in Configured(x, files) /\ Confirm(c, operation)
  BY <1>1 DEF Apply
<1>2. ASSUME NEW p, NEW config, NEW selected, NEW access, NEW set, NEW c \in Reread(p, config, selected, access, set)
      PROVE  \E r : c \in Configured(r, files)
  BY DEF Reread
<1>3. ASSUME NEW p, NEW set, NEW c \in Merged(p, set) PROVE \E r : c \in Configured(r, files)
  BY <1>2 DEF Merged
<1>4. ASSUME NEW u \in Updates, Partial(u)
      PROVE  \E r, c, operation : c \in Configured(r, files) /\ Confirm(c, operation)
  <2>1. PICK p \in Current : \E c \in PartialConfiguration(p, u) : Confirm(c, Operation("partial", u.only, u.set))
    BY <1>4 DEF Partial
  <2>2. PICK c \in PartialConfiguration(p, u) : Confirm(c, Operation("partial", u.only, u.set))
    BY <2>1
  <2>3. c \in Merged(p, u.set)
    BY DEF PartialConfiguration
  <2> QED
    BY <2>2, <2>3, <1>3
<1>5. ASSUME NEW d \in Removals, Remove(d)
      PROVE  \E r, c, operation : c \in Configured(r, files) /\ Confirm(c, operation)
  <2>1. PICK p \in Current : \E next \in RemoveConfiguration(p, d) : Confirm(next, Operation("remove", d.names, d.set))
    BY <1>5 DEF Remove
  <2>2. PICK next \in RemoveConfiguration(p, d) : Confirm(next, Operation("remove", d.names, d.set))
    BY <2>1
  <2>3. PICK c, n : next \in Reread(p, c.config, p.selected \ n.selected, c.access, d.set)
    BY RemovedBy
  <2> QED
    BY <2>2, <2>3, <1>2
<1>6. CASE EditAccess \/ UpdateStarts \/ CountryReplaced
  BY <1>6 DEF EditAccess, UpdateStarts, CountryReplaced
<1> QED
  BY <1>1, <1>4, <1>5, <1>6, Zenon DEF PolicyNext

\* Whatever the record holds, what the next policy starts from is complete.
LEMMA CurrentKept == PolicySpec => []CurrentInv
<1>1. PolicyInit => CurrentInv
  <2> SUFFICES ASSUME PolicyInit, NEW p \in Current PROVE Whole(p, Disk) /\ read = Disk
    BY DEF CurrentInv, PolicyInit
  <2>1. PICK o \in OlderRecords : p \in Migrated(o)
    BY DEF PolicyInit, Current
  <2> DEFINE candidates == UNION {Generated(c, Disk) : c \in UNION {Configured(r, Disk) : r \in Requests}}
             policies == {q \in candidates : q.schema = 2}
             Told(q) == {t \in {0, 1, 2} : \A k \in Dimensions : Translation(t)[k] = q.config[k]}
  <2>2. o \in {Older(q, 0, TRUE) : q \in policies} \cup UNION {{Older(q, t, FALSE) : t \in Told(q)} : q \in policies}
    BY DEF OlderRecords
  <2>3. \A q \in policies : q \in candidates /\ q.schema = 2
    OBVIOUS
  <2>4. \A q, t : t \in Told(q) => t \in {0, 1, 2} /\ \A k \in Dimensions : Translation(t)[k] = q.config[k]
    OBVIOUS
  <2> HIDE DEF candidates, Told, policies
  <2>5. PICK q \in policies, t \in {0, 1, 2}, dimensions \in BOOLEAN :
          /\ o = Older(q, t, dimensions)
          /\ ~dimensions => \A k \in Dimensions : Translation(t)[k] = q.config[k]
    <3>1. CASE \E q \in policies : o = Older(q, 0, TRUE)
      <4>1. 0 \in {0, 1, 2} /\ TRUE \in BOOLEAN
        OBVIOUS
      <4> QED
        BY <3>1, <4>1, Zenon
    <3>2. CASE \E q \in policies : \E t \in Told(q) : o = Older(q, t, FALSE)
      <4>1. PICK q \in policies : \E t \in Told(q) : o = Older(q, t, FALSE)
        BY <3>2
      <4>2. PICK t \in Told(q) : o = Older(q, t, FALSE)
        BY <4>1
      <4>3. t \in {0, 1, 2} /\ \A k \in Dimensions : Translation(t)[k] = q.config[k]
        BY <2>4, Zenon
      <4>4. FALSE \in BOOLEAN
        OBVIOUS
      <4> QED
        BY <4>2, <4>3, <4>4, Zenon
    <3> QED
      BY <2>2, <3>1, <3>2, Zenon
  <2>6. Whole(q, Disk)
    <3>1. PICK r \in Requests : \E c \in Configured(r, Disk) : q \in Generated(c, Disk)
      BY <2>3 DEF candidates
    <3> QED
      BY <3>1, GeneratedWhole
  <2>7. p = q
    BY <2>1, <2>3, <2>5, <2>6, OlderMigrates
  <2> QED
    BY <2>6, <2>7 DEF PolicyInit
<1>2. CurrentInv /\ [PolicyNext]_policyVars => CurrentInv'
  <2> SUFFICES ASSUME CurrentInv, [PolicyNext]_policyVars PROVE CurrentInv'
    OBVIOUS
  <2>1. CASE record' = record /\ read' = read
    BY <2>1 DEF CurrentInv, Current
  <2>2. ASSUME NEW r, NEW c \in Configured(r, files), NEW operation, Confirm(c, operation) PROVE CurrentInv'
    <3>1. PICK p \in Generated(c, files) : record' = <<p>> /\ read' = files
      BY <2>2 DEF Confirm
    <3>2. Whole(p, files)
      BY GeneratedWhole
    <3>3. Current' \subseteq {p}
      BY <3>1, <3>2, CurrentOf DEF Current
    <3> QED
      BY <3>1, <3>2, <3>3 DEF CurrentInv
  <2> QED
    BY <2>1, <2>2, StepConfirms DEF policyVars
<1> QED
  BY <1>1, <1>2, PTL DEF PolicySpec

\* RecordReplays.  The record holds a complete configuration, and reading it back fills in
\* nothing, fits nothing and refuses nothing.
THEOREM ReplaySafe == PolicySpec => []RecordReplays
<1>1. CurrentInv => RecordReplays
  <2> SUFFICES ASSUME CurrentInv, NEW p \in Current, Settled,
                      p.config.MODULES_EXCLUDE \subseteq Catalog(p.backend) \ p.selected
               PROVE  UNION {Generated(c, files) : c \in Reread(p, p.config, p.selected, p.access, << >>)} = {p}
    BY DEF RecordReplays
  <2>1. Whole(p, files)
    BY DEF CurrentInv, Settled
  <2>2. p.selected \ p.config.MODULES_EXCLUDE = p.selected
    OBVIOUS
  <2>3. Requested(p.backend, p.config, p.selected, p.access, files)
    BY <2>1, <2>2 DEF Whole, Requested, Valid
  <2>4. Reread(p, p.config, p.selected, p.access, << >>) = {Parts(p)}
    <3>1. Filled(p.config, p.selected)
      BY <2>1 DEF Whole
    <3> QED
      BY <2>2, <2>3, <3>1, ReadBack DEF Reread, Parts
  <2>5. Generated(Parts(p), files) = {p}
    BY <2>1, WholeFields
  <2> QED
    BY <2>4, <2>5
<1> QED
  BY <1>1, CurrentKept, PTL

(***************************************************************************)
(* What lists of rules make of a packet                                    *)
(***************************************************************************)
\* A rule decides, and none before it does.
Deciding(s, k, says, i) ==
  i \in DOMAIN s /\ Decides(s[i], k, says) /\ \A j \in 1..(i - 1) : ~Decides(s[j], k, says)

LEMMA DecidingIs ==
  ASSUME NEW s, IsList(s), NEW k, NEW says
  PROVE  /\ ~Passed(s, k, says) => \E i : Deciding(s, k, says, i)
         /\ \A i : Deciding(s, k, says, i) => ~Passed(s, k, says) /\ FirstOf(s, k, says) = VerdictOf(s[i], says)
         /\ Passed(s, k, says) => FirstOf(s, k, says) = "return"
<1> DEFINE all == {i \in DOMAIN s : Decides(s[i], k, says)}
           First(i) == Decides(s[i], k, says) /\ \A j \in 1..(i - 1) : ~Decides(s[j], k, says)
<1>1. DOMAIN s = 1..Len(s) /\ Len(s) \in Nat /\ all \subseteq Nat
  BY ListFacts DEF IsList
<1>2. ASSUME ~Passed(s, k, says) PROVE \E i : Deciding(s, k, says, i)
  <2>1. all # {}
    BY <1>2 DEF Passed, Members
  <2>2. PICK i \in all : \A j \in all : i <= j
    BY <1>1, <2>1, Least
  <2> QED
    BY <1>1, <2>2 DEF Deciding
<1>3. ASSUME NEW i, Deciding(s, k, says, i)
      PROVE  ~Passed(s, k, says) /\ FirstOf(s, k, says) = VerdictOf(s[i], says)
  <2> DEFINE n == CHOOSE x \in DOMAIN s : First(x)
  <2>1. n \in DOMAIN s /\ First(n)
    BY <1>3 DEF Deciding
  <2>2. FirstOf(s, k, says) = VerdictOf(s[n], says)
    BY <1>3 DEF FirstOf, VerdictOf, Deciding
  <2> HIDE DEF n
  <2>3. n = i
    BY <1>1, <1>3, <2>1 DEF Deciding
  <2> QED
    BY <1>3, <2>2, <2>3 DEF Passed, Members, Deciding
<1> QED
  BY <1>2, <1>3, FirstEnds

\* Two lists one after the other.
LEMMA FirstThen ==
  ASSUME NEW s, NEW t, IsList(s), IsList(t), NEW k, NEW says
  PROVE  /\ IsList(s \o t)
         /\ Passed(s \o t, k, says) <=> Passed(s, k, says) /\ Passed(t, k, says)
         /\ FirstOf(s \o t, k, says) = IF Passed(s, k, says) THEN FirstOf(t, k, says) ELSE FirstOf(s, k, says)
<1> DEFINE u == s \o t
<1>1. /\ IsList(u) /\ Len(u) = Len(s) + Len(t)
      /\ \A i \in 1..Len(s) : u[i] = s[i]
      /\ \A i \in 1..Len(t) : u[Len(s) + i] = t[i]
  BY Joined
<1>2. Passed(u, k, says) <=> Passed(s, k, says) /\ Passed(t, k, says)
  BY Joined DEF Passed
<1>3. /\ Len(s) \in Nat /\ Len(t) \in Nat /\ DOMAIN s = 1..Len(s) /\ DOMAIN t = 1..Len(t)
      /\ DOMAIN u = 1..(Len(s) + Len(t))
  BY <1>1, ListFacts DEF IsList
<1> HIDE DEF u
<1>4. CASE ~Passed(s, k, says)
  <2>1. PICK i : Deciding(s, k, says, i)
    BY <1>4, DecidingIs
  <2>2. Deciding(u, k, says, i) /\ u[i] = s[i]
    <3>1. i \in 1..Len(s) /\ i \in DOMAIN u
      BY <1>3, <2>1 DEF Deciding
    <3>2. \A j \in 1..(i - 1) : u[j] = s[j]
      BY <1>1, <1>3, <3>1
    <3> QED
      BY <1>1, <2>1, <3>1, <3>2 DEF Deciding
  <2> QED
    BY <1>1, <1>2, <1>4, <2>1, <2>2, DecidingIs, ZenonT(60) DEF u
<1>5. CASE Passed(s, k, says) /\ ~Passed(t, k, says)
  <2>1. PICK i : Deciding(t, k, says, i)
    BY <1>5, DecidingIs
  <2> DEFINE n == Len(s) + i
  <2>2. i \in 1..Len(t) /\ n \in DOMAIN u /\ u[n] = t[i]
    BY <1>1, <1>3, <2>1 DEF Deciding
  <2>3. ASSUME NEW j \in 1..(n - 1) PROVE ~Decides(u[j], k, says)
    <3>1. CASE j \in 1..Len(s)
      BY <1>1, <1>3, <1>5, <3>1 DEF Passed, Members
    <3>2. CASE j \notin 1..Len(s)
      <4>1. j - Len(s) \in 1..(i - 1) /\ j - Len(s) \in 1..Len(t) /\ Len(s) + (j - Len(s)) = j
        BY <1>3, <2>2, <3>2
      <4>2. u[j] = t[j - Len(s)]
        BY <1>1, <4>1
      <4> QED
        BY <2>1, <4>1, <4>2 DEF Deciding
    <3> QED
      BY <3>1, <3>2
  <2>4. Deciding(u, k, says, n)
    BY <2>1, <2>2, <2>3 DEF Deciding
  <2> HIDE DEF n
  <2> QED
    BY <1>1, <1>2, <1>5, <2>1, <2>2, <2>4, DecidingIs DEF u
<1>6. CASE Passed(s, k, says) /\ Passed(t, k, says)
  BY <1>1, <1>2, <1>6, DecidingIs DEF u
<1> QED
  BY <1>1, <1>2, <1>4, <1>5, <1>6 DEF u

\* Two lists, each with what the chains its rules enter say, make the same of a packet.
Same(s, one, t, two, k) ==
  /\ IsList(s) /\ IsList(t) /\ (Passed(s, k, one) <=> Passed(t, k, two)) /\ FirstOf(s, k, one) = FirstOf(t, k, two)

LEMMA SameThen ==
  ASSUME NEW s, NEW s1, NEW t, NEW t1, NEW one, NEW two, NEW k, Same(s, one, t, two, k), Same(s1, one, t1, two, k)
  PROVE  Same(s \o s1, one, t \o t1, two, k)
BY FirstThen DEF Same

\* They do when their rules do, one by one.
LEMMA SameRules ==
  ASSUME NEW s, NEW t, IsList(s), IsList(t), DOMAIN s = DOMAIN t, NEW one, NEW two, NEW k,
         \A i \in DOMAIN s : /\ s[i].to = t[i].to /\ s[i].chain = t[i].chain
                             /\ Matches(s[i], k) <=> Matches(t[i], k)
                             /\ s[i].to = "jump" /\ Matches(s[i], k) => one[s[i].chain] = two[s[i].chain]
  PROVE  Same(s, one, t, two, k)
<1>1. \A i \in DOMAIN s : (Decides(s[i], k, one) <=> Decides(t[i], k, two))
                          /\ (Decides(s[i], k, one) => VerdictOf(s[i], one) = VerdictOf(t[i], two))
  BY SMTT(60) DEF Decides, VerdictOf
<1>2. DOMAIN s = 1..Len(s) /\ Len(s) \in Nat
  BY ListFacts DEF IsList
<1>3. Passed(s, k, one) <=> Passed(t, k, two)
  BY <1>1 DEF Passed, Members
<1>4. CASE Passed(s, k, one)
  BY <1>3, <1>4, DecidingIs DEF Same
<1>5. CASE ~Passed(s, k, one)
  <2>1. PICK i : Deciding(s, k, one, i)
    BY <1>5, DecidingIs
  <2>2. Deciding(t, k, two, i)
    <3>1. i \in DOMAIN s /\ \A j \in 1..(i - 1) : j \in DOMAIN s
      BY <1>2, <2>1 DEF Deciding
    <3> QED
      BY <1>1, <2>1, <3>1 DEF Deciding
  <2>3. FirstOf(s, k, one) = VerdictOf(s[i], one) /\ FirstOf(t, k, two) = VerdictOf(t[i], two)
    BY <2>1, <2>2, DecidingIs
  <2> QED
    BY <1>1, <1>3, <2>1, <2>3 DEF Same, Deciding
<1> QED
  BY <1>4, <1>5

\* The same list, entered with chains that say the same.
LEMMA SameList ==
  ASSUME NEW s, IsList(s), NEW one, NEW two, NEW k, \A r \in Members(s) : r.to = "jump" => one[r.chain] = two[r.chain]
  PROVE  Same(s, one, s, two, k)
BY SameRules DEF Members

LEMMA FlatSame ==
  ASSUME NEW s, Flat(s), NEW one, NEW two, NEW k
  PROVE  Same(s, one, s, two, k)
BY SameList DEF Flat

\* What the services ask for, whoever sends the packet and in whatever family; and the
\* chains they enter.
Asked == {"proto", "dport", "state", "meter", "size", "sig", "verb"}
LimitsOf(ctx) == {<<ctx, x>> : x \in GameLimits \cup QueryLimits}
Asks(s, entered) ==
  IsList(s) /\ \A r \in Members(s) : DOMAIN r.on \subseteq Asked /\ (r.to = "jump" => r.chain \in entered)

LEMMA AsksRule ==
  ASSUME NEW entered, NEW on, DOMAIN on \subseteq Asked
  PROVE  /\ \A to : to # "jump" => Asks(<<Rule(on, to)>>, entered)
         /\ \A chain : chain \in entered => Asks(<<Jump(on, chain)>>, entered)
<1>1. ASSUME NEW to, to # "jump" PROVE Asks(<<Rule(on, to)>>, entered)
  <2> DEFINE a == Rule(on, to)
  <2>1. a.on = on /\ a.to = to
    BY RuleIs
  <2> HIDE DEF a
  <2> QED
    BY <1>1, <2>1, OneList DEF Asks, a
<1>2. ASSUME NEW chain \in entered PROVE Asks(<<Jump(on, chain)>>, entered)
  <2> DEFINE a == Jump(on, chain)
  <2>1. a.on = on /\ a.chain = chain
    BY JumpIs
  <2> HIDE DEF a
  <2> QED
    BY <2>1, OneList DEF Asks, a
<1> QED
  BY <1>1, <1>2

LEMMA AsksThen ==
  ASSUME NEW entered, NEW s, NEW t, Asks(s, entered), Asks(t, entered)
  PROVE  Asks(s \o t, entered)
BY Joined DEF Asks

LEMMA AsksOnly ==
  ASSUME NEW entered, NEW condition, NEW s, Asks(s, entered)
  PROVE  Asks(Only(condition, s), entered)
BY OnlyList DEF Asks

LEMMA AsksBoth ==
  ASSUME NEW entered, NEW on, DOMAIN on \subseteq Asked, NEW s, Asks(s, entered)
  PROVE  Asks(Both(on, s), entered)
<1>1. IsList(Both(on, s))
  BY BothList DEF Asks
<1>2. ASSUME NEW r \in Members(Both(on, s))
      PROVE  DOMAIN r.on \subseteq Asked /\ (r.to = "jump" => r.chain \in entered)
  <2>1. PICK q \in Members(s) : r.to = q.to /\ r.chain = q.chain /\ r.on = on @@ q.on
    BY BothMembers
  <2>2. DOMAIN r.on = DOMAIN on \cup DOMAIN q.on
    BY <2>1, Together
  <2> QED
    BY <2>1, <2>2 DEF Asks
<1> QED
  BY <1>1, <1>2 DEF Asks

LEMMA ServicesAsk ==
  ASSUME NEW nft, NEW v, NEW ctx
  PROVE  /\ Asks(AllowlistRules(v), {}) /\ Asks(SshRules(v), {}) /\ Asks(RconRules(nft, v), {})
         /\ Asks(WebRules(v), {}) /\ Asks(GameRules(nft, v, ctx), LimitsOf(ctx))
<1>1. /\ \A ports : DOMAIN Tcp(ports) \subseteq Asked /\ DOMAIN Udp(ports) \subseteq Asked
      /\ DOMAIN New \subseteq Asked /\ DOMAIN Under \subseteq Asked /\ DOMAIN Over \subseteq Asked
      /\ DOMAIN Replies \subseteq Asked /\ DOMAIN Short \subseteq Asked
      /\ \A sigs : DOMAIN Signature(sigs) \subseteq Asked
  BY TcpFields, UdpFields DEF New, Under, Over, Replies, Short, Signature, Asked
<1>2. ASSUME NEW f, NEW g, DOMAIN f \subseteq Asked, DOMAIN g \subseteq Asked PROVE DOMAIN (f @@ g) \subseteq Asked
  BY <1>2, Together
<1>3. /\ \A sizes : DOMAIN [size |-> sizes] \subseteq Asked
      /\ \A states : DOMAIN [state |-> states] \subseteq Asked
      /\ \A verbs : DOMAIN [verb |-> verbs] \subseteq Asked
  BY DEF Asked
<1>4. ASSUME NEW on, DOMAIN on \subseteq Asked, NEW entered, NEW to, to # "jump" PROVE Asks(<<Rule(on, to)>>, entered)
  BY <1>4, AsksRule
<1>5. ASSUME NEW on, DOMAIN on \subseteq Asked, NEW x \in GameLimits \cup QueryLimits
      PROVE  Asks(<<Jump(on, <<ctx, x>>)>>, LimitsOf(ctx))
  BY <1>5, AsksRule DEF LimitsOf
<1>6. \A entered, a, b : Asks(<<a>>, entered) /\ Asks(<<b>>, entered) => Asks(<<a, b>>, entered)
  BY OneList DEF Asks
<1>7. \A entered, a, b, c : Asks(<<a, b>>, entered) /\ Asks(<<c>>, entered) => Asks(<<a, b, c>>, entered)
  BY OneList DEF Asks
<1>8. \A entered, a, b, c, d : Asks(<<a, b, c>>, entered) /\ Asks(<<d>>, entered) => Asks(<<a, b, c, d>>, entered)
  BY OneList DEF Asks
<1>17. /\ "a2s_limit" \in GameLimits \cup QueryLimits /\ "steam_group_limit" \in GameLimits \cup QueryLimits
       /\ "login_limit" \in GameLimits \cup QueryLimits /\ "udp_new_limit" \in GameLimits \cup QueryLimits
       /\ "udp_new_limit_sourcetv" \in GameLimits \cup QueryLimits
       /\ "udp_established_limit" \in GameLimits \cup QueryLimits
  BY DEF GameLimits, QueryLimits
<1>9. Asks(AllowlistRules(v), {})
  <2>1. \A ports : Asks(<<Rule(Tcp(ports), "accept")>>, {}) /\ Asks(<<Rule(Udp(ports), "accept")>>, {})
    BY <1>1, <1>4
  <2> QED
    BY <2>1, AsksOnly, AsksThen DEF AllowlistRules
<1>10. DOMAIN (New @@ Under) \subseteq Asked /\ DOMAIN (New @@ Over) \subseteq Asked
  BY <1>1, <1>2
<1>11. Asks(SshRules(v), {})
  <2> DEFINE a == Rule(New @@ Under, "accept")
             b == Rule(New, "drop")
             c == Rule(Replies, "accept")
  <2>1. Asks(<<a>>, {}) /\ Asks(<<b>>, {}) /\ Asks(<<c>>, {})
    BY <1>1, <1>4, <1>10
  <2>2. SshRules(v) = Both(Tcp(v.SSH_PORT), <<a, b, c>>)
    BY DEF SshRules
  <2> HIDE DEF a, b, c
  <2> QED
    BY <1>1, <1>6, <1>7, <2>1, <2>2, AsksBoth
<1>12. Asks(WebRules(v), {})
  <2> DEFINE a == Rule(New @@ Under, "accept")
             b == Rule(New, "drop")
  <2>1. Asks(<<a>>, {}) /\ Asks(<<b>>, {})
    BY <1>1, <1>4, <1>10
  <2>2. WebRules(v) = Both(Tcp(v.HTTP_HTTPS_PORTS), <<a, b>>)
    BY DEF WebRules
  <2> HIDE DEF a, b
  <2> QED
    BY <1>1, <1>6, <2>1, <2>2, AsksBoth
<1>13. Asks(RconRules(nft, v), {})
  <2> DEFINE a == Rule(New @@ Under, "accept")
             over == IF nft THEN New @@ Over ELSE New
             b == Rule(over, "drop")
  <2>1. DOMAIN over \subseteq Asked
    BY <1>1, <1>10
  <2> HIDE DEF over
  <2>2. Asks(<<a>>, {}) /\ Asks(<<b>>, {})
    BY <1>1, <1>4, <1>10, <2>1
  <2>3. RconRules(nft, v) = Both(Tcp(v.L4D2_GAMESERVER_TCP_PORTS), <<a, b>>)
    BY DEF RconRules, over
  <2> HIDE DEF a, b
  <2> QED
    BY <1>1, <1>6, <2>2, <2>3, AsksBoth
<1>14. Asks(ValidationRules(v), LimitsOf(ctx))
  <2> DEFINE a == Rule([size |-> {"empty"}], "drop")
             b == Rule([size |-> {"huge"}], "drop")
             c == Rule([size |-> {"malformed"}], "drop")
             sizes == <<a, b>> \o Only(v.ENABLE_MALFORMED_FILTER, <<c>>)
  <2>1. Asks(<<a>>, LimitsOf(ctx)) /\ Asks(<<b>>, LimitsOf(ctx)) /\ Asks(<<c>>, LimitsOf(ctx))
    BY <1>3, <1>4
  <2>2. ValidationRules(v) = Both(Udp(v.L4D2_GAMESERVER_UDP_PORTS), sizes) \o Both(Udp(v.L4D2_SOURCETV_UDP_PORTS), sizes)
    BY DEF ValidationRules
  <2> HIDE DEF a, b, c
  <2>3. Asks(sizes, LimitsOf(ctx))
    BY <1>6, <2>1, AsksOnly, AsksThen
  <2> HIDE DEF sizes
  <2> QED
    BY <1>1, <2>2, <2>3, AsksBoth, AsksThen
<1>15. Asks(QueryRules(nft, v, ctx), LimitsOf(ctx))
  <2> DEFINE login == Udp(v.L4D2_GAMESERVER_UDP_PORTS) @@ Short @@ Signature({"71"})
             verbs == [verb |-> {"connect", "reserve"}] @@ login
             a == Jump(Signature({"54"}), <<ctx, "a2s_limit">>)
             b == Jump(Signature(SteamSignatures(nft, v)), <<ctx, "steam_group_limit">>)
             c == Jump(verbs, <<ctx, "login_limit">>)
             d == Rule(login, "drop")
             e == Jump(login, <<ctx, "login_limit">>)
             logins == IF nft THEN <<c, d>> ELSE <<e>>
             queries == <<a>> \o Only(v.ENABLE_STEAM_GROUP_FILTER, <<b>>)
  <2>1. DOMAIN login \subseteq Asked
    <3> DEFINE one == Udp(v.L4D2_GAMESERVER_UDP_PORTS)
               two == Signature({"71"})
    <3>1. login = (one @@ Short) @@ two
      OBVIOUS
    <3>2. DOMAIN one \subseteq Asked /\ DOMAIN two \subseteq Asked /\ DOMAIN Short \subseteq Asked
      BY <1>1
    <3> HIDE DEF one, two, login
    <3> QED
      BY <1>2, <3>1, <3>2
  <2> HIDE DEF login
  <2>2. DOMAIN verbs \subseteq Asked
    BY <1>2, <1>3, <2>1
  <2> HIDE DEF verbs
  <2>3. /\ Asks(<<a>>, LimitsOf(ctx)) /\ Asks(<<b>>, LimitsOf(ctx)) /\ Asks(<<c>>, LimitsOf(ctx)) /\ Asks(<<d>>, LimitsOf(ctx))
        /\ Asks(<<e>>, LimitsOf(ctx))
    BY <1>1, <1>4, <1>5, <1>17, <2>1, <2>2
  <2>4. QueryRules(nft, v, ctx) = Both(Udp(AllGamePorts(v)), queries) \o logins
    BY DEF QueryRules, login, verbs
  <2> HIDE DEF a, b, c, d, e
  <2>5. Asks(queries, LimitsOf(ctx)) /\ Asks(logins, LimitsOf(ctx))
    BY <1>6, <2>3, AsksOnly, AsksThen
  <2> HIDE DEF queries, logins
  <2> QED
    BY <1>1, <2>4, <2>5, AsksBoth, AsksThen
<1>16. Asks(BaseRules(v, ctx), LimitsOf(ctx))
  <2> DEFINE a == Jump(Udp(v.L4D2_GAMESERVER_UDP_PORTS) @@ New, <<ctx, "udp_new_limit">>)
             b == Jump(Udp(v.L4D2_SOURCETV_UDP_PORTS) @@ New, <<ctx, "udp_new_limit_sourcetv">>)
             c == Jump(Udp(v.L4D2_GAMESERVER_UDP_PORTS) @@ [state |-> {"established"}], <<ctx, "udp_established_limit">>)
             d == Jump(Udp(v.L4D2_SOURCETV_UDP_PORTS) @@ [state |-> {"established"}], <<ctx, "udp_established_limit">>)
  <2>1. \A ports : /\ DOMAIN (Udp(ports) @@ New) \subseteq Asked
                   /\ DOMAIN (Udp(ports) @@ [state |-> {"established"}]) \subseteq Asked
    BY <1>1, <1>2, <1>3
  <2>2. Asks(<<a>>, LimitsOf(ctx)) /\ Asks(<<b>>, LimitsOf(ctx)) /\ Asks(<<c>>, LimitsOf(ctx)) /\ Asks(<<d>>, LimitsOf(ctx))
    BY <1>5, <1>17, <2>1
  <2>3. BaseRules(v, ctx) = <<a, b, c, d>>
    BY DEF BaseRules
  <2> HIDE DEF a, b, c, d
  <2> QED
    BY <1>6, <1>7, <1>8, <2>2, <2>3
<1> QED
  BY <1>9, <1>11, <1>12, <1>13, <1>14, <1>15, <1>16, AsksThen DEF GameRules

\* The rules iptables has for IPv4 alone are the same for a packet of IPv4.
LEMMA FamiliesSame ==
  ASSUME NEW nft, NEW names, NEW rules, IsList(rules), NEW k, NEW says,
         nft \/ names \cap Game = {} \/ (k.fam = 4 /\ \A r \in Members(rules) : "fam" \notin DOMAIN r.on)
  PROVE  Same(ForFamilies(nft, names, rules), says, rules, says, k)
<1>1. CASE nft \/ names \cap Game = {}
  BY <1>1, SameList DEF ForFamilies
<1>2. CASE ~nft /\ names \cap Game # {}
  <2> DEFINE four == [fam |-> {4}]
             s == Both(four, rules)
  <2>1. IsList(s) /\ DOMAIN s = DOMAIN rules
    BY BothList DEF Both
  <2>2. \A i \in DOMAIN rules : /\ s[i].to = rules[i].to /\ s[i].chain = rules[i].chain
                                /\ s[i].on = four @@ rules[i].on
    BY DEF Both
  <2>3. ForFamilies(nft, names, rules) = s
    BY <1>2 DEF ForFamilies
  <2>4. DOMAIN four = {"fam"} /\ four["fam"] = {4}
    OBVIOUS
  <2> HIDE DEF four, s
  <2>5. ASSUME NEW i \in DOMAIN rules PROVE Matches(s[i], k) <=> Matches(rules[i], k)
    <3>1. "fam" \notin DOMAIN rules[i].on /\ k.fam = 4
      BY <1>2 DEF Members
    <3> DEFINE on == rules[i].on
    <3>2. DOMAIN s[i].on = {"fam"} \cup DOMAIN on
      <4>1. s[i].on = four @@ on
        BY <2>2
      <4> HIDE DEF on
      <4>2. DOMAIN (four @@ on) = DOMAIN four \cup DOMAIN on
        BY Together
      <4> QED
        BY <2>4, <4>1, <4>2
    <3>3. s[i].on["fam"] = {4} /\ \A field \in DOMAIN rules[i].on : s[i].on[field] = rules[i].on[field]
      BY <2>2, <2>4, <3>1, Left, Right
    <3> QED
      BY <3>1, <3>2, <3>3 DEF Matches
  <2> QED
    BY <2>1, <2>2, <2>3, <2>5, SameRules
<1> QED
  BY <1>1, <1>2

LEMMA SameBack ==
  ASSUME NEW s, NEW t, NEW one, NEW two, NEW k, Same(s, one, t, two, k)
  PROVE  Same(t, two, s, one, k)
BY DEF Same

LEMMA SameOn ==
  ASSUME NEW s, NEW t, NEW u, NEW one, NEW two, NEW three, NEW k, Same(s, one, t, two, k), Same(t, two, u, three, k)
  PROVE  Same(s, one, u, three, k)
BY DEF Same

(***************************************************************************)
(* Removing modules                                                        *)
(***************************************************************************)
\* The chains of a container are what they were compiled to.
LEMMA ContainersFurnished ==
  ASSUME NEW nft, NEW v, NEW names, NEW access, NEW f, NEW i \in DOMAIN access.containers
  PROVE  LET g == access.containers[i]
             chains == ChainsOf(nft, v, names, access, f)
         IN /\ <<i, "service">> \in DOMAIN chains /\ chains[<<i, "service">>] = ContainerChain(nft, v, names, g, i)
            /\ g.service = "l4d2_udp_base" => \A x \in GameLimits \cup QueryLimits :
                 <<i, x>> \in DOMAIN chains /\ chains[<<i, x>>] = GameChains(nft, Serving(v, g), i)[<<i, x>>]
<1> DEFINE grant == access.containers[i]
           chains == ChainsOf(nft, v, names, access, f)
           a == <<Host, "input">> :> InputChain(nft, v, names, access)
           b == <<Host, "forward">> :> ForwardChain(v, access)
           c == <<Host, "shared">> :> SharedRules(v, names)
           d == ContainerChains(nft, v, names, access)
           e == IF Game \subseteq names THEN GameChains(nft, v, Host) ELSE << >>
           g == IF GeoOn(v, names) THEN <<Host, "geo_country_gate_v4">> :> GeoGate(v, GeoSets(v, f)) ELSE << >>
           Chains(j) == LET h == access.containers[j] IN
             <<j, "service">> :> ContainerChain(nft, v, names, h, j)
             @@ IF h.service = "l4d2_udp_base" THEN GameChains(nft, Serving(v, h), j) ELSE << >>
<1>1. chains = ((((a @@ b) @@ c) @@ d) @@ e) @@ g
  BY DEF ChainsOf
<1>2. \A name \in DOMAIN Chains(i) : name[1] = i => name \in DOMAIN d /\ d[name] = Chains(i)[name]
  <2>1. d = [name \in UNION {DOMAIN Chains(j) : j \in DOMAIN access.containers} |-> Chains(name[1])[name]]
    BY DEF ContainerChains
  <2> HIDE DEF d, Chains
  <2> QED
    BY <2>1
<1>3. ASSUME NEW x, x \notin {"input", "forward", "shared"}, <<i, x>> \in DOMAIN Chains(i)
      PROVE  <<i, x>> \in DOMAIN chains /\ chains[<<i, x>>] = Chains(i)[<<i, x>>]
  <2> DEFINE name == <<i, x>>
  <2>1. name \notin DOMAIN a /\ name \notin DOMAIN b /\ name \notin DOMAIN c
    <3>1. \A rules : /\ name \notin DOMAIN (<<Host, "input">> :> rules) /\ name \notin DOMAIN (<<Host, "forward">> :> rules)
                     /\ name \notin DOMAIN (<<Host, "shared">> :> rules)
      BY <1>3 DEF :>
    <3> HIDE DEF name
    <3> QED
      BY <3>1, Zenon
  <2>2. name[1] = i /\ name \in DOMAIN Chains(i)
    BY <1>3
  <2> HIDE DEF name
  <2>3. name \in DOMAIN d /\ d[name] = Chains(i)[name]
    BY <1>2, <2>2
  <2> HIDE DEF a, b, c, d, e, g, Chains
  <2> DEFINE before == (a @@ b) @@ c
             more == before @@ d
             most == more @@ e
  <2>4. name \notin DOMAIN before
    <3>1. ASSUME NEW one, NEW two, name \notin DOMAIN one, name \notin DOMAIN two PROVE name \notin DOMAIN (one @@ two)
      <4>1. DOMAIN (one @@ two) = DOMAIN one \cup DOMAIN two
        BY Together
      <4> QED
        BY <3>1, <4>1
    <3> QED
      BY <2>1, <3>1
  <2> HIDE DEF before
  <2>5. name \in DOMAIN more /\ more[name] = d[name]
    BY <2>3, <2>4, Right
  <2> HIDE DEF more
  <2>6. name \in DOMAIN most /\ most[name] = d[name]
    BY <2>5, Left
  <2> HIDE DEF most
  <2>7. name \in DOMAIN (most @@ g) /\ (most @@ g)[name] = d[name]
    BY <2>6, Left
  <2>8. chains = most @@ g
    BY <1>1 DEF most, more, before
  <2> HIDE DEF chains
  <2> QED
    BY <2>3, <2>7, <2>8 DEF name
<1> DEFINE own == <<i, "service">> :> ContainerChain(nft, v, names, grant, i)
           limits == IF grant.service = "l4d2_udp_base" THEN GameChains(nft, Serving(v, grant), i) ELSE << >>
<1>4. Chains(i) = own @@ limits
  OBVIOUS
<1>5. DOMAIN own = {<<i, "service">>} /\ own[<<i, "service">>] = ContainerChain(nft, v, names, grant, i)
  BY Entry
<1>6. grant.service = "l4d2_udp_base" => limits = GameChains(nft, Serving(v, grant), i)
  OBVIOUS
<1> HIDE DEF own, limits, chains, Chains
<1>7. <<i, "service">> \in DOMAIN chains /\ chains[<<i, "service">>] = ContainerChain(nft, v, names, grant, i)
  <2>1. <<i, "service">> \in DOMAIN Chains(i) /\ Chains(i)[<<i, "service">>] = own[<<i, "service">>]
    BY <1>4, <1>5, Left
  <2> QED
    BY <1>3, <1>5, <2>1
<1>8. ASSUME grant.service = "l4d2_udp_base", NEW x \in GameLimits \cup QueryLimits
      PROVE  <<i, x>> \in DOMAIN chains /\ chains[<<i, x>>] = GameChains(nft, Serving(v, grant), i)[<<i, x>>]
  <2>1. x \notin {"input", "forward", "shared", "service"}
    BY DEF GameLimits, QueryLimits
  <2>2. <<i, x>> \notin DOMAIN own
    BY <1>5, <2>1
  <2>3. <<i, x>> \in DOMAIN limits
    BY <1>6, <1>8, GameChainsAre
  <2>4. <<i, x>> \in DOMAIN Chains(i) /\ Chains(i)[<<i, x>>] = limits[<<i, x>>]
    <3> DEFINE name == <<i, x>>
    <3> HIDE DEF name
    <3>1. name \notin DOMAIN own /\ name \in DOMAIN limits
      BY <2>2, <2>3 DEF name
    <3>2. name \in DOMAIN (own @@ limits) /\ (own @@ limits)[name] = limits[name]
      BY <3>1, Right
    <3> QED
      BY <1>4, <3>2 DEF name
  <2> QED
    BY <1>3, <1>6, <1>8, <2>1, <2>4
<1> QED
  BY <1>7, <1>8 DEF chains

\* What the chains say that a chain enters, and what the base chains enter.
Inner(chains, k) == Says(chains, k, [c \in DOMAIN chains |-> "return"])
Outer(chains, k) == Says(chains, k, Inner(chains, k))

LEMMA WalkIs ==
  ASSUME NEW chains, NEW k
  PROVE  /\ \A name : Walk(chains, name, k) = FirstOf(chains[name], k, Outer(chains, k))
         /\ \A name \in DOMAIN chains :
              /\ Inner(chains, k)[name] = FirstOf(chains[name], k, [c \in DOMAIN chains |-> "return"])
              /\ Outer(chains, k)[name] = FirstOf(chains[name], k, Inner(chains, k))
BY DEF Walk, Outer, Inner, Says

\* The rules of a container's service.
LEMMA ServiceAsks ==
  ASSUME NEW nft, NEW v, NEW access, AccessValid(access), NEW g \in Containers(access), g.service # "openvpn_server",
         NEW ctx
  PROVE  /\ g.service = "l4d2_udp_base" => Asks(ServiceRules(nft, v, g, ctx), LimitsOf(ctx))
         /\ g.service # "l4d2_udp_base" => Asks(ServiceRules(nft, v, g, ctx), {})
<1>1. g.service \in {"tcp_ssh", "http_https_protect", "l4d2_udp_base", "allowlist_ports"}
  BY DEF AccessValid
<1> QED
  BY <1>1, ServicesAsk DEF ServiceRules

\* A container's service makes the same of a packet whatever else is selected: iptables
\* has the rules for IPv4 alone where games are served, and has nothing of IPv6 there.
LEMMA ContainerSame ==
  ASSUME NEW nft, NEW v, NEW access, AccessValid(access), NEW names, NEW fewer, NEW f, NEW h, NEW k,
         nft \/ (names \cap Game = {} /\ fewer \cap Game = {}) \/ k.fam = 4, NEW i \in DOMAIN access.containers
  PROVE  Outer(ChainsOf(nft, v, names, access, f), k)[<<i, "service">>] =
           Outer(ChainsOf(nft, v, fewer, access, h), k)[<<i, "service">>]
<1> DEFINE g == access.containers[i]
           name == <<i, "service">>
           one == ChainsOf(nft, v, names, access, f)
           two == ChainsOf(nft, v, fewer, access, h)
           rules == ServiceRules(nft, Serving(v, g), g, i)
<1>1. /\ name \in DOMAIN one /\ one[name] = ContainerChain(nft, v, names, g, i)
      /\ name \in DOMAIN two /\ two[name] = ContainerChain(nft, v, fewer, g, i)
      /\ g.service = "l4d2_udp_base" => \A x \in GameLimits \cup QueryLimits :
           /\ <<i, x>> \in DOMAIN one /\ <<i, x>> \in DOMAIN two
           /\ one[<<i, x>>] = GameChains(nft, Serving(v, g), i)[<<i, x>>] /\ two[<<i, x>>] = one[<<i, x>>]
  BY ContainersFurnished
<1>2. \A x \in GameLimits \cup QueryLimits : Flat(GameChains(nft, Serving(v, g), i)[<<i, x>>])
  BY GameChainsAre
<1>3. g \in Containers(access)
  BY DEF Containers
<1> DEFINE says == Inner(one, k)
           says2 == Inner(two, k)
<1>4. ASSUME g.service = "l4d2_udp_base", NEW chain \in LimitsOf(i) PROVE says[chain] = says2[chain]
  <2>1. PICK x \in GameLimits \cup QueryLimits : chain = <<i, x>>
    BY <1>4 DEF LimitsOf
  <2>2. chain \in DOMAIN one /\ chain \in DOMAIN two /\ one[chain] = two[chain] /\ Flat(one[chain])
    BY <1>1, <1>2, <1>4, <2>1
  <2> HIDE DEF one, two
  <2>3. /\ says[chain] = FirstOf(one[chain], k, [c \in DOMAIN one |-> "return"])
        /\ says2[chain] = FirstOf(two[chain], k, [c \in DOMAIN two |-> "return"])
    BY <2>2, WalkIs
  <2> DEFINE s == one[chain]
             out == [c \in DOMAIN one |-> "return"]
             out2 == [c \in DOMAIN two |-> "return"]
  <2> HIDE DEF out, out2
  <2>4. Same(s, out, s, out2, k)
    BY <2>2, FlatSame
  <2> QED
    BY <2>2, <2>3, <2>4 DEF Same, out, out2
<1> HIDE DEF one, two, says, says2, rules
<1>5. Outer(one, k)[name] = FirstOf(one[name], k, says) /\ Outer(two, k)[name] = FirstOf(two[name], k, says2)
  <2> HIDE DEF name
  <2> QED
    BY <1>1, WalkIs DEF says, says2
<1>6. CASE g.service = "openvpn_server"
  <2> DEFINE a == <<Rule(<<>>, "accept")>>
  <2>1. one[name] = a /\ two[name] = a
    BY <1>1, <1>6 DEF ContainerChain
  <2>2. Flat(a)
    <3> DEFINE r == Rule(<<>>, "accept")
    <3>1. r.to = "accept"
      BY RuleIs
    <3> HIDE DEF r
    <3> QED
      BY <3>1, OneList DEF Flat, r
  <2> HIDE DEF a, name
  <2>3. Same(a, says, a, says2, k)
    BY <2>2, FlatSame
  <2> QED
    BY <1>5, <2>1, <2>3 DEF Same, one, two, name
<1>7. CASE g.service # "openvpn_server"
  <2>1. /\ one[name] = ForFamilies(nft, names, rules) \o EstablishedOnly
        /\ two[name] = ForFamilies(nft, fewer, rules) \o EstablishedOnly
    BY <1>1, <1>7 DEF ContainerChain, rules
  <2>2. /\ g.service = "l4d2_udp_base" => Asks(rules, LimitsOf(i))
        /\ g.service # "l4d2_udp_base" => Asks(rules, {})
    BY <1>3, <1>7, ServiceAsks DEF rules
  <2>3. IsList(rules) /\ \A r \in Members(rules) : "fam" \notin DOMAIN r.on
    BY <2>2 DEF Asks, Asked
  <2>4. \A r \in Members(rules) : r.to = "jump" => says[r.chain] = says2[r.chain]
    BY <1>4, <2>2 DEF Asks
  <2> HIDE DEF g, name
  <2>5. Same(rules, says, rules, says2, k)
    BY <2>3, <2>4, SameList
  <2>6. /\ Same(ForFamilies(nft, names, rules), says, rules, says, k)
        /\ Same(ForFamilies(nft, fewer, rules), says2, rules, says2, k)
    BY <2>3, FamiliesSame
  <2>7. Same(ForFamilies(nft, names, rules), says, ForFamilies(nft, fewer, rules), says2, k)
    BY <2>5, <2>6, SameBack, SameOn
  <2>8. Same(EstablishedOnly, says, EstablishedOnly, says2, k)
    BY EstablishedOpen, FlatSame DEF Flat
  <2>9. Same(one[name], says, two[name], says2, k)
    BY <2>1, <2>7, <2>8, SameThen
  <2> QED
    BY <1>5, <2>9 DEF Same, one, two, name
<1> QED
  BY <1>6, <1>7

\* What comes after a list that decides changes nothing.
LEMMA SameEnough ==
  ASSUME NEW s, NEW t, NEW one, NEW two, NEW k, Same(s, one, t, two, k), ~Passed(s, k, one),
         NEW s1, NEW t1, IsList(s1), IsList(t1)
  PROVE  Same(s \o s1, one, t \o t1, two, k) /\ ~Passed(s \o s1, k, one)
BY FirstThen DEF Same

\* iptables with games drops every packet of IPv6 ahead of the modules.
Blocked(v) == v.FAMILY_POLICY = "ipv4-block-ipv6"
LEMMA FamilyDrops ==
  ASSUME NEW k, k.fam = 6, NEW says
  PROVE  Decides(Rule([fam |-> {6}], "drop"), k, says)
<1> DEFINE r == Rule([fam |-> {6}], "drop")
           on == [fam |-> {6}]
<1>1. r.on = on /\ r.to = "drop"
  BY RuleIs
<1>2. DOMAIN on = {"fam"} /\ on["fam"] = {6}
  OBVIOUS
<1> HIDE DEF r, on
<1> QED
  BY <1>1, <1>2 DEF Decides, Matches, r, on

LEMMA CoreForwardBlocks ==
  ASSUME NEW v, Blocked(v), NEW k, k.fam = 6, NEW says
  PROVE  ~Passed(CoreForward(v), k, says)
<1> DEFINE r == Rule([fam |-> {6}], "drop")
           first == <<r>>
           rest == <<Rule([proto |-> {"icmp"}, state |-> {"related"}], "accept"), Rule([state |-> {"invalid"}], "drop")>>
<1>1. CoreForward(v) = first \o rest
  BY DEF CoreForward, Blocked, Only
<1>2. IsList(first) /\ Members(first) = {r} /\ IsList(rest)
  BY OneList
<1> HIDE DEF first, rest
<1>3. r \in Members(CoreForward(v))
  BY <1>1, <1>2, Joined
<1>4. Decides(r, k, says)
  BY FamilyDrops
<1> HIDE DEF r
<1> QED
  BY <1>3, <1>4 DEF Passed

LEMMA ForwardTailFlat ==
  ASSUME NEW v, NEW access, Enumerated(access)
  PROVE  Flat(ForwardTail(v, access))
<1>1. CASE v.ROUTED_POLICY = "drop"
  <2> DEFINE r == Rule(<<>>, "drop")
  <2>1. r.to = "drop" /\ ForwardTail(v, access) = <<r>>
    BY <1>1, RuleIs DEF ForwardTail
  <2> HIDE DEF r
  <2> QED
    BY <2>1, OneList DEF Flat
<1>2. CASE v.ROUTED_POLICY # "drop"
  <2> DEFINE r == Rule(<<>>, "return")
  <2>1. r.to = "return"
    BY RuleIs
  <2>2. PICK isolate : /\ ForwardTail(v, access) = isolate \o <<r>>
                       /\ IsList(isolate) /\ \A q \in Members(isolate) : q.to \in {"drop", "return"}
    BY <1>2, TailIsolates
  <2> HIDE DEF r
  <2>3. IsList(<<r>>) /\ Members(<<r>>) = {r}
    BY OneList
  <2> QED
    BY <2>1, <2>2, <2>3, Joined DEF Flat
<1> QED
  BY <1>1, <1>2

\* A packet to forward meets the same rules, and the same services of the containers.
LEMMA ForwardSame ==
  ASSUME NEW nft, NEW v, NEW access, AccessValid(access), Enumerated(access), NEW names, NEW fewer, NEW f, NEW h,
         NEW k, k.fam \in {4, 6}, nft \/ (names \cap Game = {} /\ fewer \cap Game = {}) \/ Blocked(v)
  PROVE  Walk(ChainsOf(nft, v, names, access, f), <<Host, "forward">>, k) =
           Walk(ChainsOf(nft, v, fewer, access, h), <<Host, "forward">>, k)
<1> DEFINE name == <<Host, "forward">>
           one == ChainsOf(nft, v, names, access, f)
           two == ChainsOf(nft, v, fewer, access, h)
           says == Outer(one, k)
           says2 == Outer(two, k)
           core == CoreForward(v)
           grants == ForwardGrants(access)
           entries == ContainerEntries(access)
           tail == ForwardTail(v, access)
           s == ((core \o grants) \o entries) \o tail
<1>1. one[name] = s /\ two[name] = s
  <2>1. ForwardChain(v, access) = s
    BY DEF ForwardChain
  <2>2. one[name] = ForwardChain(v, access) /\ two[name] = ForwardChain(v, access)
    BY ForwardFurnished
  <2> HIDE DEF s, one, two, name
  <2> QED
    BY <2>1, <2>2
<1>2. /\ IsFiniteSet(access.forward) /\ \A g \in access.forward : Fields \subseteq DOMAIN g
  BY DEF Enumerated
<1>3. Flat(core) /\ Flat(grants) /\ Flat(tail)
  BY <1>2, CoreForwardOpen, ForwardGrantsOpen, ForwardTailFlat DEF Flat
<1>4. IsList(entries) /\ \A r \in Members(entries) : r.to = "jump" => \E i \in DOMAIN access.containers : r.chain = <<i, "service">>
  BY EntriesOpen
<1>5. Same(s, says, s, says2, k)
  <2>1. CASE Blocked(v) /\ k.fam = 6
    <3>1. ~Passed(core, k, says)
      BY <2>1, CoreForwardBlocks
    <3> HIDE DEF core, grants, entries, tail, says, says2
    <3>2. Same(core, says, core, says2, k)
      BY <1>3, FlatSame
    <3>3. Same(core \o grants, says, core \o grants, says2, k) /\ ~Passed(core \o grants, k, says)
      BY <1>3, <3>1, <3>2, SameEnough DEF Flat
    <3>4. /\ Same((core \o grants) \o entries, says, (core \o grants) \o entries, says2, k)
          /\ ~Passed((core \o grants) \o entries, k, says)
      BY <1>4, <3>3, SameEnough
    <3> QED
      BY <1>3, <3>4, SameEnough DEF Flat
  <2>2. CASE ~(Blocked(v) /\ k.fam = 6)
    <3>1. nft \/ (names \cap Game = {} /\ fewer \cap Game = {}) \/ k.fam = 4
      BY <2>2
    <3>2. ASSUME NEW i \in DOMAIN access.containers PROVE says[<<i, "service">>] = says2[<<i, "service">>]
      BY <3>1, ContainerSame
    <3> HIDE DEF core, grants, entries, tail, says, says2
    <3>3. ASSUME NEW r \in Members(entries), r.to = "jump" PROVE says[r.chain] = says2[r.chain]
      <4>1. PICK i \in DOMAIN access.containers : r.chain = <<i, "service">>
        BY <1>4, <3>3
      <4> QED
        BY <3>2, <4>1
    <3>4. Same(entries, says, entries, says2, k)
      BY <1>4, <3>3, SameList
    <3>5. Same(core, says, core, says2, k) /\ Same(grants, says, grants, says2, k) /\ Same(tail, says, tail, says2, k)
      BY <1>3, FlatSame
    <3> QED
      BY <3>4, <3>5, SameThen
  <2> QED
    BY <2>1, <2>2
<1>6. Walk(one, name, k) = FirstOf(one[name], k, says) /\ Walk(two, name, k) = FirstOf(two[name], k, says2)
  BY WalkIs, ZenonT(60)
<1> HIDE DEF s, one, two, says, says2, name
<1> QED
  BY <1>1, <1>5, <1>6 DEF Same, one, two, name

\* The grants of a tunnel are those they were, or none.
LEMMA SharedFewer ==
  ASSUME NEW v, NEW names, FiniteOptions(v), "openvpn_sitetosite" \in names => Subnets \subseteq DOMAIN v,
         NEW fewer, fewer \subseteq names, NEW k, NEW says, NEW says2, FirstOf(SharedRules(v, fewer), k, says2) = "accept"
  PROVE  FirstOf(SharedRules(v, names), k, says) = "accept"
<1>1. SharedRules(v, fewer) = SharedRules(v, names) \/ SharedRules(v, fewer) = <<>>
  BY DEF SharedRules
<1>2. Flat(SharedRules(v, names))
  BY SharedOpen DEF Flat
<1>3. SharedRules(v, fewer) # <<>>
  <2>1. Passed(<<>>, k, says2) /\ IsList(<<>>)
    BY OneList DEF Passed
  <2>2. FirstOf(<<>>, k, says2) = "return"
    BY <2>1, DecidingIs
  <2> QED
    BY <2>2
<1>4. Same(SharedRules(v, names), says, SharedRules(v, names), says2, k)
  BY <1>2, FlatSame
<1> QED
  BY <1>1, <1>3, <1>4 DEF Same

\* What a removal leaves of a policy: its options and its grants, fewer modules, and the
\* prefixes of its filter.
Fewer(p, f, q, h) ==
  /\ Whole(p, f) /\ Whole(q, h) /\ FiniteOptions(p.config) /\ Enumerated(p.access)
  /\ q.backend = p.backend /\ q.config = p.config /\ q.access = p.access /\ q.selected \subseteq p.selected
  /\ GeoOn(p.config, q.selected) = GeoOn(p.config, p.selected)
  /\ GeoOn(p.config, p.selected) => GeoSets(p.config, h) = GeoSets(p.config, f)

LEMMA FewerFacts ==
  ASSUME NEW p, NEW f, NEW q, NEW h, Fewer(p, f, q, h)
  PROVE  LET nft == p.backend = "nftables" IN
         /\ p.chains = ChainsOf(nft, p.config, p.selected, p.access, f)
         /\ q.chains = ChainsOf(nft, p.config, q.selected, p.access, h)
         /\ nft \/ (p.selected \cap Game = {} /\ q.selected \cap Game = {}) \/ Blocked(p.config)
         /\ Filled(p.config, p.selected) /\ Valid(p.backend, p.config, p.selected, p.access, f)
         /\ \A m \in p.selected : DOMAIN DefaultsOf(m) \cup RequiredOf(m) \subseteq DOMAIN p.config
<1>1. AsCompiled(p, f) /\ AsCompiled(q, h)
  BY WholeFields DEF Fewer
<1>2. Filled(p.config, p.selected) /\ Valid(p.backend, p.config, p.selected, p.access, f)
  BY DEF Fewer, Whole
<1>3. p.backend = "nftables" \/ p.selected \cap Game = {} \/ Blocked(p.config)
  BY <1>2 DEF Valid, PayloadsValid, Blocked
<1>4. q.selected \cap Game \subseteq p.selected \cap Game
  BY DEF Fewer
<1>5. /\ p.chains = ChainsOf(p.backend = "nftables", p.config, p.selected, p.access, f)
      /\ q.chains = ChainsOf(p.backend = "nftables", p.config, q.selected, p.access, h)
  BY <1>1 DEF AsCompiled, Fewer
<1>6. \A m \in p.selected : DOMAIN DefaultsOf(m) \cup RequiredOf(m) \subseteq DOMAIN p.config
  BY <1>2 DEF Filled
<1>7. p.selected \cap Game = {} => q.selected \cap Game = {}
  BY <1>4
<1> QED
  BY <1>2, <1>3, <1>5, <1>6, <1>7

LEMMA ForwardsFewer ==
  ASSUME NEW p, NEW f, NEW q, NEW h, Fewer(p, f, q, h), NEW k, k.fam \in {4, 6}, Forwards(q, k) = "accept"
  PROVE  Forwards(p, k) = "accept"
<1> DEFINE nft == p.backend = "nftables"
           one == p.chains
           two == q.chains
           forward == <<Host, "forward">>
           shared == <<Host, "shared">>
<1>1. /\ one = ChainsOf(nft, p.config, p.selected, p.access, f)
      /\ two = ChainsOf(nft, p.config, q.selected, p.access, h)
      /\ nft \/ (p.selected \cap Game = {} /\ q.selected \cap Game = {}) \/ Blocked(p.config)
      /\ AccessValid(p.access)
      /\ "openvpn_sitetosite" \in p.selected => Subnets \subseteq DOMAIN p.config
  <2>1. Subnets \subseteq RequiredOf("openvpn_sitetosite")
    BY DEF Subnets, RequiredOf
  <2> QED
    BY <2>1, FewerFacts DEF Valid
<1>2. Walk(one, forward, k) = Walk(two, forward, k)
  <2> HIDE DEF one, two, nft
  <2>1. Enumerated(p.access)
    BY DEF Fewer
  <2> QED
    BY <1>1, <2>1, ForwardSame
<1>3. /\ one[shared] = SharedRules(p.config, p.selected) /\ two[shared] = SharedRules(p.config, q.selected)
  <2> HIDE DEF one, two, nft
  <2> QED
    BY <1>1, ForwardFurnished
<1>4. /\ Walk(one, shared, k) = FirstOf(one[shared], k, Outer(one, k))
      /\ Walk(two, shared, k) = FirstOf(two[shared], k, Outer(two, k))
  <2> HIDE DEF one, two, shared
  <2> QED
    BY WalkIs, ZenonT(60)
<1>5. Walk(two, shared, k) = "accept" => Walk(one, shared, k) = "accept"
  <2> HIDE DEF one, two, nft, shared
  <2>1. FiniteOptions(p.config) /\ q.selected \subseteq p.selected
    BY DEF Fewer
  <2> DEFINE says == Outer(one, k)
             says2 == Outer(two, k)
  <2> HIDE DEF says, says2
  <2>2. ASSUME FirstOf(SharedRules(p.config, q.selected), k, says2) = "accept"
        PROVE  FirstOf(SharedRules(p.config, p.selected), k, says) = "accept"
    BY <1>1, <2>1, <2>2, SharedFewer
  <2> QED
    BY <1>3, <1>4, <2>2 DEF says, says2
<1>6. /\ Forwards(p, k) = IF Walk(one, forward, k) = "return" /\ Walk(one, shared, k) = "accept" THEN "accept"
                          ELSE Walk(one, forward, k)
      /\ Forwards(q, k) = IF Walk(two, forward, k) = "return" /\ Walk(two, shared, k) = "accept" THEN "accept"
                          ELSE Walk(two, forward, k)
  BY DEF Forwards
<1> HIDE DEF one, two, forward, shared
<1> QED
  BY <1>2, <1>5, <1>6

(***************************************************************************)
(* The services of the host                                                *)
(***************************************************************************)
\* A list accepts the packet.
Yields(s, k, says) == ~Passed(s, k, says) /\ FirstOf(s, k, says) = "accept"

LEMMA YieldsIs ==
  ASSUME NEW s, IsList(s), NEW k, NEW says
  PROVE  /\ Yields(s, k, says) <=> FirstOf(s, k, says) = "accept"
         /\ ~Passed(s, k, says) => \E r \in Members(s) : Matches(r, k)
<1>1. Passed(s, k, says) => FirstOf(s, k, says) = "return"
  BY DecidingIs
<1>2. ~Passed(s, k, says) => \E r \in Members(s) : Matches(r, k)
  BY DEF Passed, Decides
<1> QED
  BY <1>1, <1>2 DEF Yields

LEMMA YieldsThen ==
  ASSUME NEW s, NEW t, IsList(s), IsList(t), NEW k, NEW says
  PROVE  /\ IsList(s \o t)
         /\ Yields(s \o t, k, says) <=> Yields(s, k, says) \/ (Passed(s, k, says) /\ Yields(t, k, says))
         /\ Passed(s \o t, k, says) <=> Passed(s, k, says) /\ Passed(t, k, says)
BY FirstThen DEF Yields

\* What the compiler makes of the rules of the services: iptables has administrative
\* sources with the rules of the SSH ports.
Adapted(nft, v, rules) == IF nft THEN rules ELSE AdminByPort(v, rules)

LEMMA AdaptedIs ==
  ASSUME NEW nft, NEW v, NEW rules, IsList(rules)
  PROVE  LET s == Adapted(nft, v, rules) IN
         /\ IsList(s) /\ DOMAIN s = DOMAIN rules
         /\ \A i \in DOMAIN rules :
              /\ s[i].to = rules[i].to /\ s[i].chain = rules[i].chain
              /\ \A k : Matches(s[i], k) => Fits(rules[i], k, Where)
              /\ "fam" \notin DOMAIN rules[i].on => "fam" \notin DOMAIN s[i].on
<1>1. CASE nft
  BY <1>1 DEF Adapted, Matches, Fits
<1>2. CASE ~nft
  <2> DEFINE s == AdminByPort(v, rules)
  <2>1. Adapted(nft, v, rules) = s
    BY <1>2 DEF Adapted
  <2>2. /\ IsList(s) /\ DOMAIN s = DOMAIN rules
        /\ \A i \in DOMAIN rules : s[i].to = rules[i].to /\ s[i].chain = rules[i].chain
    BY ByPortNarrows
  <2>3. ASSUME NEW i \in DOMAIN rules, NEW k, Matches(s[i], k) PROVE Fits(rules[i], k, Where)
    <3>1. Fits(s[i], k, {"fam"})
      BY <2>3 DEF Matches, Fits
    <3> QED
      BY <3>1, ByPortNarrows
  <2>4. ASSUME NEW i \in DOMAIN rules, "fam" \notin DOMAIN rules[i].on PROVE "fam" \notin DOMAIN s[i].on
    <3> DEFINE r == rules[i]
               only == AdminOnly(v, <<r>>)
    <3>1. s[i] = r \/ s[i] = only[1]
      BY DEF AdminByPort
    <3>2. only = <<r>> \/ (DOMAIN only = {1} /\ only[1].on = [src |-> UNION v.ADMIN_SOURCES] @@ r.on)
      BY DEF AdminOnly, Both
    <3>3. DOMAIN ([src |-> UNION v.ADMIN_SOURCES] @@ r.on) = {"src"} \cup DOMAIN r.on
      <4> DEFINE src == [src |-> UNION v.ADMIN_SOURCES]
      <4>1. DOMAIN src = {"src"}
        OBVIOUS
      <4> HIDE DEF src, r
      <4>2. DOMAIN (src @@ r.on) = DOMAIN src \cup DOMAIN r.on
        BY Together
      <4> QED
        BY <4>1, <4>2 DEF src
    <3> HIDE DEF only
    <3> QED
      BY <2>4, <3>1, <3>2, <3>3
  <2> QED
    BY <2>1, <2>2, <2>3, <2>4
<1> QED
  BY <1>1, <1>2

LEMMA AdaptedJoined ==
  ASSUME NEW nft, NEW v, NEW s, NEW t, IsList(s), IsList(t)
  PROVE  Adapted(nft, v, s \o t) = Adapted(nft, v, s) \o Adapted(nft, v, t)
<1>1. CASE nft
  BY <1>1 DEF Adapted
<1>2. CASE ~nft
  <2> DEFINE Of(r) == IF "SSH_PORT" \in DOMAIN v /\ Get(r.on, "dport", {}) = v.SSH_PORT
                        THEN AdminOnly(v, <<r>>)[1] ELSE r
             u == s \o t
             a == AdminByPort(v, s)
             b == AdminByPort(v, t)
             c == AdminByPort(v, u)
  <2>1. /\ a = [i \in DOMAIN s |-> Of(s[i])] /\ b = [i \in DOMAIN t |-> Of(t[i])]
        /\ c = [i \in DOMAIN u |-> Of(u[i])]
    BY DEF AdminByPort
  <2> HIDE DEF Of
  <2>2. /\ IsList(u) /\ Len(u) = Len(s) + Len(t)
        /\ \A i \in 1..Len(s) : u[i] = s[i]
        /\ \A i \in 1..Len(t) : u[Len(s) + i] = t[i]
    BY Joined
  <2>3. /\ Len(s) \in Nat /\ Len(t) \in Nat /\ DOMAIN s = 1..Len(s) /\ DOMAIN t = 1..Len(t)
        /\ DOMAIN u = 1..(Len(s) + Len(t))
    BY <2>2, ListFacts DEF IsList
  <2> HIDE DEF u
  <2>4. IsList(a) /\ IsList(b) /\ IsList(c) /\ DOMAIN a = DOMAIN s /\ DOMAIN b = DOMAIN t /\ DOMAIN c = DOMAIN u
    BY <2>1, <2>2, Mapped
  <2> HIDE DEF a, b, c
  <2>5. Len(a) = Len(s) /\ Len(b) = Len(t)
    <3>1. \A m, n \in Nat : 1..m = 1..n => m = n
      <4> SUFFICES ASSUME NEW m \in Nat, NEW n \in Nat, 1..m = 1..n, m < n PROVE FALSE
        OBVIOUS
      <4>1. n \in 1..n /\ n \notin 1..m
        BY SMTT(60)
      <4> QED
        BY <4>1
    <3>2. DOMAIN a = 1..Len(a) /\ DOMAIN b = 1..Len(b) /\ Len(a) \in Nat /\ Len(b) \in Nat
      BY <2>4, ListFacts, ZenonT(60) DEF IsList
    <3> QED
      BY <2>3, <2>4, <3>1, <3>2
  <2> DEFINE ab == a \o b
  <2>6. /\ IsList(ab) /\ Len(ab) = Len(a) + Len(b)
        /\ \A i \in 1..Len(a) : ab[i] = a[i]
        /\ \A i \in 1..Len(b) : ab[Len(a) + i] = b[i]
    BY <2>4, Joined
  <2>7. DOMAIN ab = DOMAIN c /\ ab = [i \in DOMAIN ab |-> ab[i]] /\ c = [i \in DOMAIN c |-> c[i]]
    <3>1. DOMAIN ab = 1..Len(ab)
      BY <2>6, ListFacts
    <3>2. ab = [i \in DOMAIN ab |-> ab[i]]
      BY <2>6 DEF IsList
    <3>3. c = [i \in DOMAIN c |-> c[i]]
      BY <2>4 DEF IsList
    <3> QED
      BY <2>3, <2>4, <2>5, <2>6, <3>1, <3>2, <3>3
  <2> HIDE DEF ab
  <2>8. ASSUME NEW i \in DOMAIN c PROVE ab[i] = c[i]
    <3>1. c[i] = Of(u[i]) /\ i \in 1..(Len(s) + Len(t))
      BY <2>1, <2>3, <2>4
    <3>2. CASE i \in 1..Len(s)
      <4>1. ab[i] = a[i] /\ a[i] = Of(s[i]) /\ u[i] = s[i]
        BY <2>1, <2>2, <2>3, <2>5, <2>6, <3>2
      <4> QED
        BY <3>1, <4>1
    <3>3. CASE i \notin 1..Len(s)
      <4> DEFINE j == i - Len(s)
      <4>1. j \in 1..Len(t) /\ Len(s) + j = i
        BY <2>3, <3>1, <3>3
      <4> HIDE DEF j
      <4>2. ab[Len(a) + j] = b[j] /\ u[Len(s) + j] = t[j] /\ b[j] = Of(t[j])
        BY <2>1, <2>2, <2>3, <2>5, <2>6, <4>1
      <4> QED
        BY <2>5, <3>1, <4>1, <4>2
    <3> QED
      BY <3>2, <3>3
  <2>9. ab = c
    BY <2>7, <2>8
  <2>10. /\ Adapted(nft, v, s) = a /\ Adapted(nft, v, t) = b /\ Adapted(nft, v, s \o t) = c
    BY <1>2 DEF Adapted, a, b, c, u
  <2> QED
    BY <2>9, <2>10 DEF ab
<1> QED
  BY <1>1, <1>2

\* A list for TCP packets to some ports, that enters no other chain.
ForTcp(s, ports) ==
  Flat(s) /\ \A r \in Members(s) : \A k : Fits(r, k, Where) => k.proto = "tcp" /\ k.dport \in ports

LEMMA BothForTcp ==
  ASSUME NEW ports, NEW s, Flat(s)
  PROVE  ForTcp(Both(Tcp(ports), s), ports)
<1> DEFINE on == Tcp(ports)
           t == Both(on, s)
<1>1. IsList(s)
  BY DEF Flat
<1>2. IsList(t)
  BY <1>1, BothList
<1>3. ASSUME NEW r \in Members(t) PROVE r.to \in {"accept", "drop", "return"}
  <2>1. \E q \in Members(s) : r.to = q.to
    BY BothMembers
  <2> QED
    BY <2>1 DEF Flat
<1>4. ASSUME NEW r \in Members(t), NEW k, Fits(r, k, Where) PROVE k.proto = "tcp" /\ k.dport \in ports
  <2>1. DOMAIN on = {"proto", "dport"} /\ on["proto"] = {"tcp"} /\ on["dport"] = ports
    BY TcpFields
  <2>2. \A field \in DOMAIN on \ Where : k[field] \in on[field]
    BY <1>1, <1>4, Narrowed
  <2> HIDE DEF on
  <2>3. "proto" \in DOMAIN on \ Where /\ "dport" \in DOMAIN on \ Where
    BY <2>1 DEF Where
  <2> QED
    BY <2>1, <2>2, <2>3
<1> QED
  BY <1>2, <1>3, <1>4 DEF ForTcp, Flat

LEMMA ServicesForTcp ==
  ASSUME NEW nft, NEW v
  PROVE  /\ ForTcp(SshRules(v), v.SSH_PORT) /\ ForTcp(AdminOnly(v, SshRules(v)), v.SSH_PORT)
         /\ ForTcp(RconRules(nft, v), v.L4D2_GAMESERVER_TCP_PORTS) /\ ForTcp(WebRules(v), v.HTTP_HTTPS_PORTS)
<1>1. ASSUME NEW a, NEW b PROVE Flat(<<Rule(a, "accept"), Rule(b, "drop")>>)
  <2> DEFINE x == Rule(a, "accept")
             y == Rule(b, "drop")
  <2>1. x.to = "accept" /\ y.to = "drop"
    BY RuleIs
  <2> HIDE DEF x, y
  <2> QED
    BY <2>1, OneList DEF Flat, x, y
<1>2. ForTcp(WebRules(v), v.HTTP_HTTPS_PORTS)
  BY <1>1, BothForTcp DEF WebRules
<1>3. ForTcp(RconRules(nft, v), v.L4D2_GAMESERVER_TCP_PORTS)
  <2> DEFINE over == IF nft THEN New @@ Over ELSE New
  <2>1. RconRules(nft, v) = Both(Tcp(v.L4D2_GAMESERVER_TCP_PORTS), <<Rule(New @@ Under, "accept"), Rule(over, "drop")>>)
    BY DEF RconRules
  <2> HIDE DEF over
  <2> QED
    BY <1>1, <2>1, BothForTcp
<1>4. ForTcp(SshRules(v), v.SSH_PORT)
  <2> DEFINE x == Rule(New @@ Under, "accept")
             y == Rule(New, "drop")
             z == Rule(Replies, "accept")
  <2>1. x.to = "accept" /\ y.to = "drop" /\ z.to = "accept"
    BY RuleIs
  <2>2. SshRules(v) = Both(Tcp(v.SSH_PORT), <<x, y, z>>)
    BY DEF SshRules
  <2> HIDE DEF x, y, z
  <2>3. Flat(<<x, y, z>>)
    BY <2>1, OneList DEF Flat
  <2> QED
    BY <2>2, <2>3, BothForTcp
<1>5. ForTcp(AdminOnly(v, SshRules(v)), v.SSH_PORT)
  <2> DEFINE s == SshRules(v)
             t == AdminOnly(v, s)
  <2>1. IsList(s)
    BY <1>4 DEF ForTcp, Flat
  <2>2. /\ IsList(t) /\ DOMAIN t = DOMAIN s
        /\ \A i \in DOMAIN s : \A k : Fits(t[i], k, {"fam"}) => Fits(s[i], k, Where)
        /\ \A i \in DOMAIN s : t[i].to = s[i].to
    BY <2>1, AdminNarrows
  <2>3. ASSUME NEW i \in DOMAIN s, NEW k, Fits(t[i], k, Where) PROVE Fits(s[i], k, Where)
    <3>1. CASE v.ADMIN_SOURCES = {}
      BY <2>3, <3>1 DEF AdminOnly
    <3>2. CASE v.ADMIN_SOURCES # {}
      <4> DEFINE on == [src |-> UNION v.ADMIN_SOURCES]
                 q == s[i].on
      <4>1. t[i].on = on @@ q
        BY <3>2 DEF AdminOnly, Both
      <4>2. DOMAIN on = {"src"}
        OBVIOUS
      <4> HIDE DEF on, q
      <4>3. \A field \in DOMAIN q : field # "src" => field \in DOMAIN (on @@ q) /\ (on @@ q)[field] = q[field]
        BY <4>2, Right
      <4> QED
        BY <2>3, <4>1, <4>3 DEF Fits, Where, q
    <3> QED
      BY <3>1, <3>2
  <2> HIDE DEF s, t
  <2>4. ForTcp(s, v.SSH_PORT)
    BY <1>4 DEF s
  <2> QED
    BY <2>2, <2>3, <2>4 DEF ForTcp, Flat, Members, s, t
<1> QED
  BY <1>2, <1>3, <1>4, <1>5

\* A module of TCP ports, before and after modules are removed: what it has a say in is
\* for its ports, and it says the same unless it is gone.
LEMMA TcpFewer ==
  ASSUME NEW nft, NEW v, NEW s, NEW ports, ForTcp(s, ports), NEW selected \in BOOLEAN, NEW left \in BOOLEAN, left => selected,
         NEW k, NEW one, NEW two
  PROVE  LET before == Adapted(nft, v, Only(selected, s))
             after == Adapted(nft, v, Only(left, s))
         IN /\ IsList(before) /\ IsList(after)
            /\ left => Same(before, one, after, two, k)
            /\ ~left => Passed(after, k, two)
            /\ ~Passed(before, k, one) => selected /\ k.proto = "tcp" /\ k.dport \in ports
<1> DEFINE t == Adapted(nft, v, s)
           none == Adapted(nft, v, <<>>)
<1>1. /\ IsList(t) /\ DOMAIN t = DOMAIN s
      /\ \A i \in DOMAIN s : t[i].to = s[i].to /\ \A c : Matches(t[i], c) => Fits(s[i], c, Where)
  BY AdaptedIs DEF ForTcp, Flat
<1>2. IsList(none) /\ DOMAIN none = {}
  <2>1. IsList(<<>>) /\ DOMAIN <<>> = {}
    BY OneList
  <2> QED
    BY <2>1, AdaptedIs
<1>3. /\ Adapted(nft, v, Only(selected, s)) = IF selected THEN t ELSE none
      /\ Adapted(nft, v, Only(left, s)) = IF left THEN t ELSE none
  BY DEF Only
<1> HIDE DEF t, none
<1>4. Flat(t)
  BY <1>1 DEF ForTcp, Flat, Members
<1>5. \A says : Passed(none, k, says)
  BY <1>2 DEF Passed, Members
<1>6. ~Passed(t, k, one) => k.proto = "tcp" /\ k.dport \in ports
  BY <1>1 DEF Passed, Members, Decides, ForTcp
<1>7. Same(t, one, t, two, k)
  BY <1>4, FlatSame
<1> QED
  BY <1>2, <1>3, <1>4, <1>5, <1>6, <1>7 DEF Flat

\* A list that only accepts.
LEMMA AcceptsYield ==
  ASSUME NEW s, IsList(s), \A r \in Members(s) : r.to = "accept", NEW k, NEW says
  PROVE  Passed(s, k, says) \/ Yields(s, k, says)
<1> SUFFICES ASSUME ~Passed(s, k, says) PROVE Yields(s, k, says)
  OBVIOUS
<1>1. PICK i : Deciding(s, k, says, i)
  BY DecidingIs
<1>2. FirstOf(s, k, says) = VerdictOf(s[i], says) /\ s[i].to = "accept"
  BY <1>1, DecidingIs DEF Deciding, Members
<1> QED
  BY <1>2 DEF Yields, VerdictOf

LEMMA AllowlistAccepts ==
  ASSUME NEW v
  PROVE  IsList(AllowlistRules(v)) /\ \A r \in Members(AllowlistRules(v)) : r.to = "accept"
<1> DEFINE a == Rule(Udp(v.BYPASS_UDP_PORTS), "accept")
           b == Rule(Tcp(v.BYPASS_TCP_PORTS), "accept")
           one == Only(v.BYPASS_UDP_PORTS # {}, <<a>>)
           two == Only(v.BYPASS_TCP_PORTS # {}, <<b>>)
<1>1. AllowlistRules(v) = one \o two
  BY DEF AllowlistRules
<1>2. a.to = "accept" /\ b.to = "accept"
  BY RuleIs
<1> HIDE DEF a, b
<1>3. /\ IsList(one) /\ Members(one) \subseteq {a} /\ IsList(two) /\ Members(two) \subseteq {b}
  BY OneList, OnlyList
<1> HIDE DEF one, two
<1> QED
  BY <1>1, <1>2, <1>3, Joined

LEMMA AllowFewer ==
  ASSUME NEW nft, NEW v, NEW selected \in BOOLEAN, NEW left \in BOOLEAN, left => selected, NEW k, NEW one, NEW two
  PROVE  LET before == Adapted(nft, v, Only(selected, AllowlistRules(v)))
             after == Adapted(nft, v, Only(left, AllowlistRules(v)))
         IN /\ IsList(before) /\ IsList(after)
            /\ left => Same(before, one, after, two, k)
            /\ ~left => Passed(after, k, two)
            /\ ~Passed(before, k, one) => Yields(before, k, one)
<1> DEFINE s == AllowlistRules(v)
           t == Adapted(nft, v, s)
           none == Adapted(nft, v, <<>>)
<1>1. IsList(s) /\ \A r \in Members(s) : r.to = "accept"
  BY AllowlistAccepts
<1>2. IsList(t) /\ DOMAIN t = DOMAIN s /\ \A i \in DOMAIN s : t[i].to = s[i].to
  BY <1>1, AdaptedIs
<1>3. IsList(none) /\ DOMAIN none = {}
  <2>1. IsList(<<>>) /\ DOMAIN <<>> = {}
    BY OneList
  <2> QED
    BY <2>1, AdaptedIs
<1>4. /\ Adapted(nft, v, Only(selected, s)) = IF selected THEN t ELSE none
      /\ Adapted(nft, v, Only(left, s)) = IF left THEN t ELSE none
  BY DEF Only
<1> HIDE DEF t, none, s
<1>5. \A r \in Members(t) : r.to = "accept"
  BY <1>1, <1>2 DEF Members
<1>6. Same(t, one, t, two, k) /\ (Passed(t, k, one) \/ Yields(t, k, one))
  BY <1>2, <1>5, SameList, AcceptsYield
<1>7. \A says : Passed(none, k, says)
  BY <1>3 DEF Passed, Members
<1> QED
  BY <1>2, <1>3, <1>4, <1>6, <1>7 DEF s

\* The country filter is the same, and accepts nothing.
LEMMA GeoFewer ==
  ASSUME NEW nft, NEW v, NEW names, NEW fewer, GeoOn(v, fewer) = GeoOn(v, names), NEW k, NEW one, NEW two,
         GeoOn(v, names) => one[Gate] = two[Gate] /\ two[Gate] # "accept"
  PROVE  LET six == Adapted(nft, v, GeoDeniesV6(v, names))
             gate == Adapted(nft, v, GeoRules(v, names))
         IN /\ IsList(six) /\ IsList(gate)
            /\ GeoDeniesV6(v, fewer) = GeoDeniesV6(v, names) /\ GeoRules(v, fewer) = GeoRules(v, names)
            /\ Same(six, one, six, two, k) /\ Same(gate, one, gate, two, k)
            /\ ~Yields(six, k, two) /\ ~Yields(gate, k, two)
<1>1. GeoDeniesV6(v, fewer) = GeoDeniesV6(v, names) /\ GeoRules(v, fewer) = GeoRules(v, names)
  BY DEF GeoDeniesV6, GeoRules
<1>2. ASSUME NEW s, IsList(s), \A r \in Members(s) : ~Opens({Gate}, r), ~GeoOn(v, names) => s = <<>>
      PROVE  LET t == Adapted(nft, v, s) IN IsList(t) /\ Same(t, one, t, two, k) /\ ~Yields(t, k, two)
  <2> DEFINE t == Adapted(nft, v, s)
  <2>1. IsList(t) /\ DOMAIN t = DOMAIN s /\ \A i \in DOMAIN s : t[i].to = s[i].to /\ t[i].chain = s[i].chain
    BY <1>2, AdaptedIs
  <2>2. ~GeoOn(v, names) => DOMAIN s = {}
    BY <1>2
  <2> HIDE DEF t
  <2>3. \A r \in Members(t) : r.to # "accept" /\ (r.to = "jump" => r.chain = Gate) /\ GeoOn(v, names)
    BY <1>2, <2>1, <2>2 DEF Members, Opens
  <2>4. Same(t, one, t, two, k)
    BY <2>1, <2>3, SameList
  <2>5. ~Yields(t, k, two)
    <3> SUFFICES ASSUME Yields(t, k, two) PROVE FALSE
      OBVIOUS
    <3>1. PICK i : Deciding(t, k, two, i)
      BY <2>1, DecidingIs DEF Yields
    <3>2. VerdictOf(t[i], two) = "accept" /\ t[i] \in Members(t)
      BY <2>1, <3>1, DecidingIs DEF Yields, Deciding, Members
    <3> QED
      BY <2>3, <3>2 DEF VerdictOf
  <2> QED
    BY <2>1, <2>4, <2>5 DEF t
<1>3. /\ IsList(GeoDeniesV6(v, names)) /\ \A r \in Members(GeoDeniesV6(v, names)) : ~Opens({Gate}, r)
      /\ IsList(GeoRules(v, names)) /\ \A r \in Members(GeoRules(v, names)) : ~Opens({Gate}, r)
  BY GeoOpen
<1>4. ~GeoOn(v, names) => GeoDeniesV6(v, names) = <<>> /\ GeoRules(v, names) = <<>>
  BY DEF GeoDeniesV6, GeoRules, Only
<1> QED
  BY <1>1, <1>2, <1>3, <1>4

\* The games are served as they were, or not at all; and what they accept is for a game.
LEMMA GameFewer ==
  ASSUME NEW nft, NEW v, NEW selected \in BOOLEAN, NEW left \in BOOLEAN, left => selected, NEW k, NEW one, NEW two,
         left => \A chain \in LimitsOf(Host) : one[chain] = two[chain]
  PROVE  LET before == Adapted(nft, v, Only(selected, GameRules(nft, v, Host)))
             after == Adapted(nft, v, Only(left, GameRules(nft, v, Host)))
         IN /\ IsList(before) /\ IsList(after)
            /\ left => Same(before, one, after, two, k)
            /\ ~left => Passed(after, k, two)
            /\ Yields(after, k, two) => k.proto = "udp"
<1> DEFINE s == GameRules(nft, v, Host)
           t == Adapted(nft, v, s)
           none == Adapted(nft, v, <<>>)
<1>1. /\ IsList(s) /\ \A r \in Members(s) : r.to = "jump" => r.chain \in LimitsOf(Host)
      /\ \A r \in Members(s) : \A c : Opens({}, r) /\ Fits(r, c, Where) => ToGame(v, c)
  BY ServicesAsk, GameOpen DEF Asks
<1>2. /\ IsList(t) /\ DOMAIN t = DOMAIN s
      /\ \A i \in DOMAIN s : /\ t[i].to = s[i].to /\ t[i].chain = s[i].chain
                             /\ \A c : Matches(t[i], c) => Fits(s[i], c, Where)
  BY <1>1, AdaptedIs
<1>3. IsList(none) /\ DOMAIN none = {}
  <2>1. IsList(<<>>) /\ DOMAIN <<>> = {}
    BY OneList
  <2> QED
    BY <2>1, AdaptedIs
<1>4. /\ Adapted(nft, v, Only(selected, s)) = IF selected THEN t ELSE none
      /\ Adapted(nft, v, Only(left, s)) = IF left THEN t ELSE none
  BY DEF Only
<1> HIDE DEF t, none, s
<1>5. left => Same(t, one, t, two, k)
  <2> SUFFICES ASSUME left PROVE Same(t, one, t, two, k)
    OBVIOUS
  <2>1. \A r \in Members(t) : r.to = "jump" => one[r.chain] = two[r.chain]
    BY <1>1, <1>2 DEF Members
  <2> QED
    BY <1>2, <2>1, SameList
<1>6. \A says : Passed(none, k, says)
  BY <1>3 DEF Passed, Members
<1>7. ASSUME Yields(t, k, two) PROVE k.proto = "udp"
  <2>1. PICK i : Deciding(t, k, two, i)
    BY <1>2, <1>7, DecidingIs DEF Yields
  <2>2. VerdictOf(t[i], two) = "accept" /\ Matches(t[i], k) /\ i \in DOMAIN s
    BY <1>2, <1>7, <2>1, DecidingIs DEF Yields, Deciding, Decides
  <2>3. s[i] \in Members(s) /\ Opens({}, s[i]) /\ Fits(s[i], k, Where)
    BY <1>2, <2>2 DEF Members, Opens, VerdictOf
  <2> QED
    BY <1>1, <2>3 DEF ToGame
<1> QED
  BY <1>2, <1>3, <1>4, <1>5, <1>6, <1>7 DEF s, Yields

\* Seven lists one after the other.
LEMMA SevenYield ==
  ASSUME NEW a, NEW b, NEW c, NEW d, NEW e, NEW f, NEW g,
         IsList(a), IsList(b), IsList(c), IsList(d), IsList(e), IsList(f), IsList(g), NEW k, NEW says
  PROVE  LET s == (((a \o b) \o c) \o d) \o ((e \o f) \o g)
             P(t) == Passed(t, k, says)
             Y(t) == Yields(t, k, says)
         IN /\ IsList(s)
            /\ Y(s) <=> Y(a) \/ (P(a) /\ (Y(b) \/ (P(b) /\ (Y(c) \/ (P(c) /\ (Y(d) \/ (P(d) /\
                        (Y(e) \/ (P(e) /\ (Y(f) \/ (P(f) /\ Y(g))))))))))))
<1> DEFINE P(t) == Passed(t, k, says)
           Y(t) == Yields(t, k, says)
           ab == a \o b
           abc == ab \o c
           tcp == abc \o d
           ef == e \o f
           udp == ef \o g
           s == tcp \o udp
<1>1. IsList(ab) /\ (Y(ab) <=> Y(a) \/ (P(a) /\ Y(b))) /\ (P(ab) <=> P(a) /\ P(b))
  BY YieldsThen
<1>2. IsList(ef) /\ (Y(ef) <=> Y(e) \/ (P(e) /\ Y(f))) /\ (P(ef) <=> P(e) /\ P(f))
  BY YieldsThen
<1> HIDE DEF ab, ef
<1>3. IsList(abc) /\ (Y(abc) <=> Y(ab) \/ (P(ab) /\ Y(c))) /\ (P(abc) <=> P(ab) /\ P(c))
  BY <1>1, YieldsThen
<1>4. IsList(udp) /\ (Y(udp) <=> Y(ef) \/ (P(ef) /\ Y(g)))
  BY <1>2, YieldsThen
<1> HIDE DEF abc, udp
<1>5. IsList(tcp) /\ (Y(tcp) <=> Y(abc) \/ (P(abc) /\ Y(d))) /\ (P(tcp) <=> P(abc) /\ P(d))
  BY <1>3, YieldsThen
<1> HIDE DEF tcp
<1>6. IsList(s) /\ (Y(s) <=> Y(tcp) \/ (P(tcp) /\ Y(udp)))
  BY <1>4, <1>5, YieldsThen
<1> HIDE DEF s, P, Y
<1>7. Y(s) <=> Y(a) \/ (P(a) /\ (Y(b) \/ (P(b) /\ (Y(c) \/ (P(c) /\ (Y(d) \/ (P(d) /\
               (Y(e) \/ (P(e) /\ (Y(f) \/ (P(f) /\ Y(g))))))))))))
  BY <1>1, <1>2, <1>3, <1>4, <1>5, <1>6
<1>8. s = (((a \o b) \o c) \o d) \o ((e \o f) \o g)
  BY DEF s, tcp, abc, ab, udp, ef
<1> QED
  BY <1>6, <1>7, <1>8 DEF P, Y

LEMMA BlocksAre ==
  ASSUME NEW nft, NEW v, NEW names
  PROVE  /\ IsList(AllowRules(names, v)) /\ IsList(AdminRules(nft, names, v)) /\ IsList(RconOf(nft, names, v))
         /\ IsList(WebOf(names, v)) /\ IsList(GeoDeniesV6(v, names)) /\ IsList(GeoRules(v, names))
         /\ IsList(GameOf(nft, names, v)) /\ IsList(Plain(nft, v, names))
<1>1. /\ IsList(AllowlistRules(v)) /\ IsList(SshRules(v)) /\ IsList(AdminOnly(v, SshRules(v)))
      /\ IsList(RconRules(nft, v)) /\ IsList(WebRules(v))
  BY ServicesForTcp, AllowlistAccepts DEF ForTcp, Flat
<1>2. /\ IsList(AllowRules(names, v)) /\ IsList(AdminRules(nft, names, v)) /\ IsList(RconOf(nft, names, v))
      /\ IsList(WebOf(names, v))
  BY <1>1, OnlyList DEF AllowRules, AdminRules, RconOf, WebOf
<1>3. /\ IsList(GeoDeniesV6(v, names)) /\ IsList(GeoRules(v, names)) /\ IsList(GameOf(nft, names, v))
      /\ IsList(UdpPart(nft, v, names))
  BY UdpPartList
<1>4. IsList(TcpPart(nft, v, names))
  BY <1>2, Joined DEF TcpPart
<1> QED
  BY <1>2, <1>3, <1>4, Joined DEF Plain

LEMMA AdaptedPlain ==
  ASSUME NEW nft, NEW v, NEW names
  PROVE  LET A(s) == Adapted(nft, v, s) IN
         A(Plain(nft, v, names)) =
           (((A(AllowRules(names, v)) \o A(AdminRules(nft, names, v))) \o A(RconOf(nft, names, v))) \o A(WebOf(names, v)))
           \o ((A(GeoDeniesV6(v, names)) \o A(GeoRules(v, names))) \o A(GameOf(nft, names, v)))
<1> DEFINE A(s) == Adapted(nft, v, s)
           a == AllowRules(names, v)
           b == AdminRules(nft, names, v)
           c == RconOf(nft, names, v)
           d == WebOf(names, v)
           e == GeoDeniesV6(v, names)
           f == GeoRules(v, names)
           g == GameOf(nft, names, v)
           ab == a \o b
           abc == ab \o c
           tcp == abc \o d
           ef == e \o f
           udp == ef \o g
<1>1. IsList(a) /\ IsList(b) /\ IsList(c) /\ IsList(d) /\ IsList(e) /\ IsList(f) /\ IsList(g)
  BY BlocksAre
<1>2. Plain(nft, v, names) = tcp \o udp
  BY DEF Plain, TcpPart, UdpPart
<1> HIDE DEF a, b, c, d, e, f, g
<1>3. \A s, t : IsList(s) /\ IsList(t) => IsList(s \o t) /\ A(s \o t) = A(s) \o A(t)
  <2>1. ASSUME NEW s, NEW t, IsList(s), IsList(t) PROVE IsList(s \o t)
    BY <2>1, Joined
  <2>2. ASSUME NEW s, NEW t, IsList(s), IsList(t) PROVE A(s \o t) = A(s) \o A(t)
    BY <2>2, AdaptedJoined
  <2> QED
    BY <2>1, <2>2
<1> HIDE DEF A
<1>4. IsList(ab) /\ A(ab) = A(a) \o A(b)
  BY <1>1, <1>3
<1>5. IsList(ef) /\ A(ef) = A(e) \o A(f)
  BY <1>1, <1>3
<1> HIDE DEF ab, ef
<1>6. IsList(abc) /\ A(abc) = A(ab) \o A(c)
  BY <1>1, <1>3, <1>4, Zenon
<1>7. IsList(udp) /\ A(udp) = A(ef) \o A(g)
  BY <1>1, <1>3, <1>5, Zenon
<1> HIDE DEF abc, udp
<1>8. IsList(tcp) /\ A(tcp) = A(abc) \o A(d)
  BY <1>1, <1>3, <1>6, Zenon
<1> HIDE DEF tcp
<1>9. A(tcp \o udp) = A(tcp) \o A(udp)
  BY <1>3, <1>7, <1>8, Zenon
<1>10. A(tcp \o udp) = (((A(a) \o A(b)) \o A(c)) \o A(d)) \o ((A(e) \o A(f)) \o A(g))
  BY <1>4, <1>5, <1>6, <1>7, <1>8, <1>9, Zenon
<1> QED
  BY <1>2, <1>10 DEF A, a, b, c, d, e, f, g

\* iptables with games has its services for a packet of IPv4 as they are.
LEMMA ServicesAdapted ==
  ASSUME NEW nft, NEW v, NEW names, ~nft => ~GeoOn(v, names), NEW k, nft \/ names \cap Game = {} \/ k.fam = 4, NEW says
  PROVE  Same(HostServices(nft, v, names), says, Adapted(nft, v, Plain(nft, v, names)), says, k)
<1> DEFINE s == Plain(nft, v, names)
           t == Adapted(nft, v, s)
<1>1. HostServices(nft, v, names) = ForFamilies(nft, names, t)
  BY PlainServices DEF Adapted
<1>2. IsList(s)
  BY BlocksAre
<1>3. /\ IsList(t) /\ DOMAIN t = DOMAIN s
      /\ \A i \in DOMAIN s : "fam" \notin DOMAIN s[i].on => "fam" \notin DOMAIN t[i].on
  BY <1>2, AdaptedIs
<1>4. ASSUME ~nft, NEW r \in Members(s) PROVE "fam" \notin DOMAIN r.on
  <2> DEFINE some == LimitsOf(Host)
  <2>1. /\ Asks(AllowlistRules(v), some) /\ Asks(SshRules(v), some) /\ Asks(RconRules(nft, v), some)
        /\ Asks(WebRules(v), some) /\ Asks(GameRules(nft, v, Host), some)
    BY ServicesAsk DEF Asks
  <2> HIDE DEF some
  <2>2. /\ Asks(AllowRules(names, v), some) /\ Asks(AdminRules(nft, names, v), some) /\ Asks(RconOf(nft, names, v), some)
        /\ Asks(WebOf(names, v), some) /\ Asks(GameOf(nft, names, v), some)
    BY <1>4, <2>1, AsksOnly DEF AllowRules, AdminRules, RconOf, WebOf, GameOf
  <2>3. GeoDeniesV6(v, names) = <<>> /\ GeoRules(v, names) = <<>>
    BY <1>4 DEF GeoDeniesV6, GeoRules, Only
  <2>4. Asks(<<>>, some)
    BY OneList DEF Asks
  <2>5. Asks(GeoDeniesV6(v, names), some) /\ Asks(GeoRules(v, names), some)
    BY <2>3, <2>4
  <2>6. Asks(TcpPart(nft, v, names), some) /\ Asks(UdpPart(nft, v, names), some)
    BY <2>2, <2>5, AsksThen DEF TcpPart, UdpPart
  <2>7. Asks(s, some)
    BY <2>6, AsksThen DEF Plain
  <2> QED
    BY <2>7 DEF Asks, Asked
<1> HIDE DEF s, t
<1>5. ~nft => \A r \in Members(t) : "fam" \notin DOMAIN r.on
  BY <1>3, <1>4 DEF Members
<1>6. nft \/ names \cap Game = {} \/ (k.fam = 4 /\ \A r \in Members(t) : "fam" \notin DOMAIN r.on)
  BY <1>5
<1>7. Same(ForFamilies(nft, names, t), says, t, says, k)
  BY <1>3, <1>6, FamiliesSame
<1> QED
  BY <1>1, <1>7 DEF t, s

\* TCP ports have one module.
LEMMA PortsDistinct ==
  ASSUME NEW v, NEW names, TcpValid(v, names)
  PROVE  /\ {"tcp_ssh", "l4d2_tcp_protect"} \subseteq names => v.SSH_PORT \cap v.L4D2_GAMESERVER_TCP_PORTS = {}
         /\ {"tcp_ssh", "http_https_protect"} \subseteq names => v.SSH_PORT \cap v.HTTP_HTTPS_PORTS = {}
         /\ {"l4d2_tcp_protect", "http_https_protect"} \subseteq names =>
              v.L4D2_GAMESERVER_TCP_PORTS \cap v.HTTP_HTTPS_PORTS = {}
<1> DEFINE control == ControlledPorts(v, names)
<1>1. DOMAIN control = names \cap {"tcp_ssh", "http_https_protect", "l4d2_tcp_protect"}
  BY DEF ControlledPorts
<1>2. /\ "tcp_ssh" \in names => control["tcp_ssh"] = v.SSH_PORT
      /\ "http_https_protect" \in names => control["http_https_protect"] = v.HTTP_HTTPS_PORTS
      /\ "l4d2_tcp_protect" \in names => control["l4d2_tcp_protect"] = v.L4D2_GAMESERVER_TCP_PORTS
  BY DEF ControlledPorts
<1>3. \A m, n \in DOMAIN control : m # n => control[m] \cap control[n] = {}
  BY DEF TcpValid
<1> HIDE DEF control
<1>4. "tcp_ssh" # "http_https_protect" /\ "tcp_ssh" # "l4d2_tcp_protect" /\ "http_https_protect" # "l4d2_tcp_protect"
  OBVIOUS
<1> QED
  BY <1>1, <1>2, <1>3, <1>4

\* What fewer modules accept, the modules before accepted.
LEMMA ServicesFewer ==
  ASSUME NEW nft, NEW v, NEW names, NEW fewer, fewer \subseteq names, GeoOn(v, fewer) = GeoOn(v, names),
         ~nft => ~GeoOn(v, names), TcpValid(v, names), NEW k, NEW one, NEW two,
         nft \/ (names \cap Game = {} /\ fewer \cap Game = {}) \/ k.fam = 4,
         GeoOn(v, names) => one[Gate] = two[Gate] /\ two[Gate] # "accept",
         Game \subseteq fewer => \A chain \in LimitsOf(Host) : one[chain] = two[chain],
         Yields(HostServices(nft, v, fewer), k, two)
  PROVE  Yields(HostServices(nft, v, names), k, one)
<1> DEFINE A(s) == Adapted(nft, v, s)
           a == A(AllowRules(names, v))
           b == A(AdminRules(nft, names, v))
           c == A(RconOf(nft, names, v))
           d == A(WebOf(names, v))
           e == A(GeoDeniesV6(v, names))
           f == A(GeoRules(v, names))
           g == A(GameOf(nft, names, v))
           a2 == A(AllowRules(fewer, v))
           b2 == A(AdminRules(nft, fewer, v))
           c2 == A(RconOf(nft, fewer, v))
           d2 == A(WebOf(fewer, v))
           e2 == A(GeoDeniesV6(v, fewer))
           f2 == A(GeoRules(v, fewer))
           g2 == A(GameOf(nft, fewer, v))
           P(s) == Passed(s, k, one)
           Y(s) == Yields(s, k, one)
           P2(s) == Passed(s, k, two)
           Y2(s) == Yields(s, k, two)
           rcon == "l4d2_tcp_protect" \in names /\ v.L4D2_GAMESERVER_TCP_PORTS # {}
           rcon2 == "l4d2_tcp_protect" \in fewer /\ v.L4D2_GAMESERVER_TCP_PORTS # {}
           ToSsh == "tcp_ssh" \in names /\ k.proto = "tcp" /\ k.dport \in v.SSH_PORT
           ToRcon == rcon /\ k.proto = "tcp" /\ k.dport \in v.L4D2_GAMESERVER_TCP_PORTS
           ToWeb == "http_https_protect" \in names /\ k.proto = "tcp" /\ k.dport \in v.HTTP_HTTPS_PORTS
<1>1. /\ IsList(a) /\ IsList(a2) /\ (~P(a) => Y(a))
      /\ Y2(a2) => Y(a)
  <2> DEFINE selected == "allowlist_ports" \in names
             left == "allowlist_ports" \in fewer
  <2>1. selected \in BOOLEAN /\ left \in BOOLEAN /\ (left => selected)
    OBVIOUS
  <2>2. a = A(Only(selected, AllowlistRules(v))) /\ a2 = A(Only(left, AllowlistRules(v)))
    BY DEF AllowRules
  <2> HIDE DEF selected, left, a, a2
  <2>3. /\ IsList(a) /\ IsList(a2) /\ (~P(a) => Y(a))
        /\ left => Same(a, one, a2, two, k)
        /\ ~left => P2(a2)
    BY <2>1, <2>2, AllowFewer
  <2> QED
    BY <2>3 DEF Same, Yields
<1>2. /\ IsList(b) /\ IsList(b2) /\ (~P(b) => ToSsh)
      /\ (P2(b2) \/ (P2(b2) <=> P(b))) /\ (Y2(b2) => Y(b))
  <2> DEFINE selected == "tcp_ssh" \in names
             left == "tcp_ssh" \in fewer
             s == IF nft THEN AdminOnly(v, SshRules(v)) ELSE SshRules(v)
  <2>1. selected \in BOOLEAN /\ left \in BOOLEAN /\ (left => selected) /\ ForTcp(s, v.SSH_PORT)
    BY ServicesForTcp
  <2>2. b = A(Only(selected, s)) /\ b2 = A(Only(left, s))
    BY DEF AdminRules
  <2>3. ToSsh <=> selected /\ k.proto = "tcp" /\ k.dport \in v.SSH_PORT
    OBVIOUS
  <2> HIDE DEF selected, left, b, b2, s, ToSsh
  <2>4. /\ IsList(b) /\ IsList(b2) /\ (~P(b) => selected /\ k.proto = "tcp" /\ k.dport \in v.SSH_PORT)
        /\ left => Same(b, one, b2, two, k)
        /\ ~left => P2(b2)
    BY <2>1, <2>2, TcpFewer
  <2> QED
    BY <2>3, <2>4 DEF Same, Yields
<1>3. /\ IsList(c) /\ IsList(c2) /\ (~P(c) => ToRcon)
      /\ (P2(c2) \/ (P2(c2) <=> P(c))) /\ (Y2(c2) => Y(c))
  <2> DEFINE s == RconRules(nft, v)
  <2>1. rcon \in BOOLEAN /\ rcon2 \in BOOLEAN /\ (rcon2 => rcon) /\ ForTcp(s, v.L4D2_GAMESERVER_TCP_PORTS)
    BY ServicesForTcp
  <2>2. c = A(Only(rcon, s)) /\ c2 = A(Only(rcon2, s))
    BY DEF RconOf
  <2>3. ToRcon <=> rcon /\ k.proto = "tcp" /\ k.dport \in v.L4D2_GAMESERVER_TCP_PORTS
    OBVIOUS
  <2> HIDE DEF rcon, rcon2, c, c2, s, ToRcon
  <2>4. /\ IsList(c) /\ IsList(c2) /\ (~P(c) => rcon /\ k.proto = "tcp" /\ k.dport \in v.L4D2_GAMESERVER_TCP_PORTS)
        /\ rcon2 => Same(c, one, c2, two, k)
        /\ ~rcon2 => P2(c2)
    BY <2>1, <2>2, TcpFewer
  <2> QED
    BY <2>3, <2>4 DEF Same, Yields
<1>4. /\ IsList(d) /\ IsList(d2) /\ (~P(d) => ToWeb)
      /\ (P2(d2) \/ (P2(d2) <=> P(d))) /\ (Y2(d2) => Y(d))
  <2> DEFINE selected == "http_https_protect" \in names
             left == "http_https_protect" \in fewer
             s == WebRules(v)
  <2>1. selected \in BOOLEAN /\ left \in BOOLEAN /\ (left => selected) /\ ForTcp(s, v.HTTP_HTTPS_PORTS)
    BY ServicesForTcp
  <2>2. d = A(Only(selected, s)) /\ d2 = A(Only(left, s))
    BY DEF WebOf
  <2>3. ToWeb <=> selected /\ k.proto = "tcp" /\ k.dport \in v.HTTP_HTTPS_PORTS
    OBVIOUS
  <2> HIDE DEF selected, left, d, d2, s, ToWeb
  <2>4. /\ IsList(d) /\ IsList(d2) /\ (~P(d) => selected /\ k.proto = "tcp" /\ k.dport \in v.HTTP_HTTPS_PORTS)
        /\ left => Same(d, one, d2, two, k)
        /\ ~left => P2(d2)
    BY <2>1, <2>2, TcpFewer
  <2> QED
    BY <2>3, <2>4 DEF Same, Yields
<1>5. /\ IsList(e) /\ IsList(e2) /\ IsList(f) /\ IsList(f2)
      /\ (P2(e2) <=> P(e)) /\ (P2(f2) <=> P(f)) /\ ~Y2(e2) /\ ~Y2(f2)
  <2>1. e2 = e /\ f2 = f
    BY GeoFewer
  <2>2. IsList(e) /\ IsList(f) /\ Same(e, one, e, two, k) /\ Same(f, one, f, two, k) /\ ~Y2(e) /\ ~Y2(f)
    BY GeoFewer
  <2> HIDE DEF e, e2, f, f2
  <2> QED
    BY <2>1, <2>2 DEF Same
<1>6. IsList(g) /\ IsList(g2) /\ (Y2(g2) => Y(g) /\ k.proto = "udp")
  <2> DEFINE selected == Game \subseteq names
             left == Game \subseteq fewer
             s == GameRules(nft, v, Host)
  <2>1. selected \in BOOLEAN /\ left \in BOOLEAN /\ (left => selected)
    OBVIOUS
  <2>2. g = A(Only(selected, s)) /\ g2 = A(Only(left, s))
    BY DEF GameOf
  <2>3. left => \A chain \in LimitsOf(Host) : one[chain] = two[chain]
    OBVIOUS
  <2> HIDE DEF selected, left, g, g2
  <2>4. /\ IsList(g) /\ IsList(g2) /\ (left => Same(g, one, g2, two, k)) /\ (~left => P2(g2))
        /\ Y2(g2) => k.proto = "udp"
    BY <2>1, <2>2, <2>3, GameFewer
  <2> QED
    BY <2>4 DEF Same, Yields
<1>7. ~(ToSsh /\ ToRcon) /\ ~(ToSsh /\ ToWeb) /\ ~(ToRcon /\ ToWeb)
  BY PortsDistinct
<1>8. k.proto = "udp" => ~ToSsh /\ ~ToRcon /\ ~ToWeb
  OBVIOUS
<1>9. /\ Adapted(nft, v, Plain(nft, v, names)) = (((a \o b) \o c) \o d) \o ((e \o f) \o g)
      /\ Adapted(nft, v, Plain(nft, v, fewer)) = (((a2 \o b2) \o c2) \o d2) \o ((e2 \o f2) \o g2)
  BY AdaptedPlain
<1> HIDE DEF a, b, c, d, e, f, g, a2, b2, c2, d2, e2, f2, g2, ToSsh, ToRcon, ToWeb
<1>10. Yields(Adapted(nft, v, Plain(nft, v, fewer)), k, two)
  <2> DEFINE s == HostServices(nft, v, fewer)
             t == Adapted(nft, v, Plain(nft, v, fewer))
  <2>1. Same(s, two, t, two, k)
    BY ServicesAdapted
  <2> HIDE DEF s, t
  <2>2. Yields(s, k, two)
    BY DEF s
  <2>3. Yields(t, k, two)
    BY <2>1, <2>2 DEF Same, Yields
  <2> QED
    BY <2>3 DEF t
<1>11. Y2(a2) \/ (P2(a2) /\ (Y2(b2) \/ (P2(b2) /\ (Y2(c2) \/ (P2(c2) /\ (Y2(d2) \/ (P2(d2) /\
         (Y2(e2) \/ (P2(e2) /\ (Y2(f2) \/ (P2(f2) /\ Y2(g2))))))))))))
  BY <1>1, <1>2, <1>3, <1>4, <1>5, <1>6, <1>9, <1>10, SevenYield
<1>12. Y(a) \/ (P(a) /\ (Y(b) \/ (P(b) /\ (Y(c) \/ (P(c) /\ (Y(d) \/ (P(d) /\
         (Y(e) \/ (P(e) /\ (Y(f) \/ (P(f) /\ Y(g))))))))))))
  <2>1. \A s : Y(s) => ~P(s)
    BY DEF Yields
  <2> HIDE DEF P, Y, P2, Y2
  <2> QED
    BY <1>1, <1>2, <1>3, <1>4, <1>5, <1>6, <1>7, <1>8, <1>11, <2>1
<1>13. Yields(Adapted(nft, v, Plain(nft, v, names)), k, one)
  BY <1>1, <1>2, <1>3, <1>4, <1>5, <1>6, <1>9, <1>12, SevenYield
<1> DEFINE s == HostServices(nft, v, names)
           t == Adapted(nft, v, Plain(nft, v, names))
<1>14. Same(s, one, t, one, k)
  BY ServicesAdapted
<1> HIDE DEF s, t
<1>15. Yields(t, k, one)
  BY <1>13 DEF t
<1> QED
  BY <1>14, <1>15 DEF Same, Yields, s

\* The gate of the country filter and the limits of the games say what they said.
LEMMA ChainsFewer ==
  ASSUME NEW p, NEW f, NEW q, NEW h, Fewer(p, f, q, h), NEW k
  PROVE  LET one == Outer(p.chains, k)
             two == Outer(q.chains, k)
         IN /\ GeoOn(p.config, p.selected) => one[Gate] = two[Gate] /\ two[Gate] # "accept"
            /\ Game \subseteq q.selected => \A chain \in LimitsOf(Host) : one[chain] = two[chain]
<1> DEFINE nft == p.backend = "nftables"
           v == p.config
           a == p.chains
           b == q.chains
<1>1. /\ a = ChainsOf(nft, v, p.selected, p.access, f) /\ b = ChainsOf(nft, v, q.selected, p.access, h)
      /\ q.selected \subseteq p.selected /\ GeoOn(v, q.selected) = GeoOn(v, p.selected)
      /\ GeoOn(v, p.selected) => GeoSets(v, h) = GeoSets(v, f)
  BY FewerFacts DEF Fewer
<1>2. \A name : name \in DOMAIN a /\ name \in DOMAIN b /\ a[name] = b[name] /\ Flat(a[name])
                  => /\ Outer(a, k)[name] = Outer(b, k)[name]
                     /\ Outer(b, k)[name] = FirstOf(b[name], k, Inner(b, k))
  <2> SUFFICES ASSUME NEW name, name \in DOMAIN a, name \in DOMAIN b, a[name] = b[name], Flat(a[name])
               PROVE  /\ Outer(a, k)[name] = Outer(b, k)[name]
                      /\ Outer(b, k)[name] = FirstOf(b[name], k, Inner(b, k))
    OBVIOUS
  <2> DEFINE s == a[name]
             one == Inner(a, k)
             two == Inner(b, k)
  <2> HIDE DEF a, b
  <2>1. Outer(a, k)[name] = FirstOf(a[name], k, one) /\ Outer(b, k)[name] = FirstOf(b[name], k, two)
    BY WalkIs
  <2> HIDE DEF one, two
  <2>2. Same(s, one, s, two, k)
    BY FlatSame
  <2> QED
    BY <2>1, <2>2 DEF Same, two
<1>3. ASSUME GeoOn(v, p.selected)
      PROVE  Outer(a, k)[Gate] = Outer(b, k)[Gate] /\ Outer(b, k)[Gate] # "accept"
  <2> DEFINE gate == GeoGate(v, GeoSets(v, f))
  <2> HIDE DEF nft, a, b, v
  <2> DEFINE ca == ChainsOf(nft, v, p.selected, p.access, f)
             cb == ChainsOf(nft, v, q.selected, p.access, h)
  <2>5. Gate \in DOMAIN ca /\ ca[Gate] = gate
    BY <1>3, Furnished
  <2>6. GeoOn(v, q.selected)
    BY <1>1, <1>3
  <2>7. Gate \in DOMAIN cb /\ cb[Gate] = GeoGate(v, GeoSets(v, h))
    BY <2>6, Furnished
  <2>8. a = ca /\ b = cb
    BY <1>1
  <2> HIDE DEF ca, cb, gate
  <2>1. /\ Gate \in DOMAIN a /\ a[Gate] = gate /\ Gate \in DOMAIN b /\ b[Gate] = GeoGate(v, GeoSets(v, h))
    BY <2>5, <2>7, <2>8
  <2> USE DEF gate
  <2>2. b[Gate] = gate
    BY <1>1, <1>3, <2>1
  <2>3. /\ IsList(gate) /\ \A r \in Members(gate) : r.to \in {"return", "drop"}
        /\ FirstOf(gate, k, Inner(b, k)) \in {"return", "drop"}
    BY GateOpen
  <2> HIDE DEF gate
  <2>4. Flat(gate)
    BY <2>3 DEF Flat
  <2> QED
    BY <1>2, <2>1, <2>2, <2>3, <2>4
<1>4. ASSUME Game \subseteq q.selected, NEW chain \in LimitsOf(Host) PROVE Outer(a, k)[chain] = Outer(b, k)[chain]
  <2>1. PICK x \in GameLimits \cup QueryLimits : chain = <<Host, x>>
    BY DEF LimitsOf
  <2>2. Host \notin DOMAIN p.access.containers
    <3>1. p.access.containers \in Seq(Containers(p.access))
      BY DEF Fewer, Enumerated
    <3> QED
      BY <3>1, ListFacts DEF Host, IsList
  <2>3. Game \subseteq p.selected
    BY <1>1, <1>4
  <2>4. Flat(GameChains(nft, v, Host)[<<Host, x>>])
    BY GameChainsAre
  <2> HIDE DEF nft, a, b, v
  <2>5. /\ <<Host, x>> \in DOMAIN a /\ a[<<Host, x>>] = GameChains(nft, v, Host)[<<Host, x>>]
        /\ <<Host, x>> \in DOMAIN b /\ b[<<Host, x>>] = GameChains(nft, v, Host)[<<Host, x>>]
    BY <1>1, <1>4, <2>2, <2>3, GamesFurnished
  <2> QED
    BY <1>2, <2>1, <2>4, <2>5
<1> QED
  BY <1>3, <1>4

LEMMA CoreInputBlocks ==
  ASSUME NEW v, Blocked(v), NEW k, k.fam = 6, NEW says
  PROVE  ~Passed(CoreInput(v), k, says)
<1>1. Rule([fam |-> {6}], "drop") \in Members(CoreInput(v))
  BY CoreOpen DEF Blocked
<1> QED
  BY <1>1, FamilyDrops DEF Passed

\* What comes before the services is the same, but for the port of a VPN server.
Front(v, access) == (CoreInput(v) \o HostGrants(access)) \o Bypass(v)
LEMMA FrontFlat ==
  ASSUME NEW v, NEW access, IsFiniteSet(access.host), IsFiniteSet(v.BYPASS_SOURCE_IPS)
  PROVE  /\ Flat(Front(v, access))
         /\ \A k, says : Blocked(v) /\ k.fam = 6 => ~Passed(Front(v, access), k, says)
<1>1. Flat(CoreInput(v)) /\ Flat(HostGrants(access)) /\ Flat(Bypass(v))
  BY CoreOpen, HostGrantsOpen, BypassOpen DEF Flat
<1>2. \A s, t : Flat(s) /\ Flat(t) => Flat(s \o t)
  BY Joined DEF Flat
<1>3. ASSUME NEW k, NEW says, Blocked(v), k.fam = 6 PROVE ~Passed(Front(v, access), k, says)
  <2>1. ~Passed(CoreInput(v), k, says)
    BY <1>3, CoreInputBlocks
  <2>2. Passed(Front(v, access), k, says) => Passed(CoreInput(v) \o HostGrants(access), k, says)
    BY <1>1, <1>2, PassedIn DEF Flat, Front
  <2> QED
    BY <1>1, <2>1, <2>2, PassedIn DEF Flat
<1> QED
  BY <1>1, <1>2, <1>3 DEF Front

LEMMA VpnFewer ==
  ASSUME NEW v, NEW names, NEW fewer, fewer \subseteq names, NEW k, NEW one, NEW two
  PROVE  /\ IsList(VpnPort(v, names)) /\ IsList(VpnPort(v, fewer))
         /\ ~Passed(VpnPort(v, fewer), k, two) => Yields(VpnPort(v, names), k, one)
         /\ ~Passed(VpnPort(v, names), k, one) => Yields(VpnPort(v, names), k, one)
<1> DEFINE s == VpnPort(v, names)
           t == VpnPort(v, fewer)
<1>1. /\ IsList(s) /\ IsList(t)
      /\ \A r \in Members(s) : r.to = "accept"
  BY VpnPortOpen
<1>2. t = s \/ t = <<>>
  BY DEF VpnPort, Only
<1> HIDE DEF s, t
<1>3. Same(s, one, s, two, k) /\ (Passed(s, k, one) \/ Yields(s, k, one))
  BY <1>1, SameList, AcceptsYield
<1>4. Passed(<<>>, k, two)
  BY OneList DEF Passed
<1> QED
  BY <1>1, <1>2, <1>3, <1>4 DEF Same, s, t

\* The services of the host are a list of rules.
LEMMA ServicesList ==
  ASSUME NEW nft, NEW v, NEW names
  PROVE  IsList(HostServices(nft, v, names))
<1> DEFINE t == Adapted(nft, v, Plain(nft, v, names))
<1>1. HostServices(nft, v, names) = ForFamilies(nft, names, t)
  BY PlainServices DEF Adapted
<1>2. IsList(t)
  BY BlocksAre, AdaptedIs
<1> HIDE DEF t
<1>3. IsList(ForFamilies(nft, names, t))
  BY <1>2, BothList DEF ForFamilies
<1> QED
  BY <1>1, <1>3

\* A new packet that a policy with fewer modules accepts, the policy before accepted.
LEMMA AcceptsFewer ==
  ASSUME NEW p, NEW f, NEW q, NEW h, Fewer(p, f, q, h), NEW k, k.fam \in {4, 6}, k.state = "new", Accepts(q, k)
  PROVE  Accepts(p, k)
<1> DEFINE nft == p.backend = "nftables"
           v == p.config
           names == p.selected
           fewer == q.selected
           one == Outer(p.chains, k)
           two == Outer(q.chains, k)
           front == Front(v, p.access)
           vpn == VpnPort(v, names)
           vpn2 == VpnPort(v, fewer)
           serve == Only(v.HOST_SERVICES, HostServices(nft, v, names))
           serve2 == Only(v.HOST_SERVICES, HostServices(nft, v, fewer))
           rest == EstablishedOnly
           chain == ((front \o vpn) \o serve) \o rest
           chain2 == ((front \o vpn2) \o serve2) \o rest
<1>1. /\ Accepts(p, k) <=> FirstOf(chain, k, one) = "accept"
      /\ Accepts(q, k) <=> FirstOf(chain2, k, two) = "accept"
  <2> DEFINE in == <<Host, "input">>
  <2>1. /\ p.chains = ChainsOf(nft, v, names, p.access, f) /\ q.chains = ChainsOf(nft, v, fewer, p.access, h)
    BY FewerFacts
  <2>2. ChainsOf(nft, v, names, p.access, f)[in] = InputChain(nft, v, names, p.access)
    BY Furnished
  <2>3. ChainsOf(nft, v, fewer, p.access, h)[in] = InputChain(nft, v, fewer, p.access)
    BY Furnished
  <2>4. InputChain(nft, v, names, p.access) = chain /\ InputChain(nft, v, fewer, p.access) = chain2
    BY DEF InputChain, Front
  <2>5. /\ Walk(p.chains, in, k) = FirstOf(p.chains[in], k, one)
        /\ Walk(q.chains, in, k) = FirstOf(q.chains[in], k, two)
    <3> HIDE DEF in
    <3>1. Walk(p.chains, in, k) = FirstOf(p.chains[in], k, Outer(p.chains, k))
      <4> DEFINE all == p.chains
      <4> HIDE DEF all
      <4>1. \A name : Walk(all, name, k) = FirstOf(all[name], k, Outer(all, k))
        BY WalkIs
      <4>2. Walk(all, in, k) = FirstOf(all[in], k, Outer(all, k))
        BY <4>1
      <4> QED
        BY <4>2 DEF all
    <3>2. Walk(q.chains, in, k) = FirstOf(q.chains[in], k, Outer(q.chains, k))
      <4> DEFINE all == q.chains
      <4> HIDE DEF all
      <4>1. \A name : Walk(all, name, k) = FirstOf(all[name], k, Outer(all, k))
        BY WalkIs
      <4>2. Walk(all, in, k) = FirstOf(all[in], k, Outer(all, k))
        BY <4>1
      <4> QED
        BY <4>2 DEF all
    <3> QED
      BY <3>1, <3>2
  <2> HIDE DEF one, two, chain, chain2, nft, v, names, fewer
  <2>6. p.chains[in] = chain /\ q.chains[in] = chain2
    BY <2>1, <2>2, <2>3, <2>4
  <2> QED
    BY <2>5, <2>6 DEF Accepts
<1>2. /\ fewer \subseteq names /\ GeoOn(v, fewer) = GeoOn(v, names) /\ TcpValid(v, names) /\ (~nft => ~GeoOn(v, names))
      /\ IsFiniteSet(p.access.host) /\ IsFiniteSet(v.BYPASS_SOURCE_IPS)
      /\ nft \/ (names \cap Game = {} /\ fewer \cap Game = {}) \/ Blocked(v)
  <2>1. Filled(v, names) /\ Valid(p.backend, v, names, p.access, f)
    BY FewerFacts
  <2>2. TcpValid(v, names) /\ names \subseteq Catalog(p.backend) /\ p.backend \in {"nftables", "iptables"}
    BY <2>1 DEF Valid
  <2>3. "geo_country_filter" \notin Catalog("iptables")
    BY DEF Catalog, Game
  <2>4. ~nft => ~GeoOn(v, names)
    BY <2>2, <2>3 DEF GeoOn
  <2>5. "BYPASS_SOURCE_IPS" \in DOMAIN v
    BY <2>1, Core DEF Filled, Lists
  <2>6. IsFiniteSet(v.BYPASS_SOURCE_IPS) /\ IsFiniteSet(p.access.host)
    BY <2>5 DEF Fewer, FiniteOptions, FiniteLists, Enumerated
  <2>7. nft \/ (names \cap Game = {} /\ fewer \cap Game = {}) \/ Blocked(v)
    BY FewerFacts
  <2>8. fewer \subseteq names /\ GeoOn(v, fewer) = GeoOn(v, names)
    BY DEF Fewer
  <2> QED
    BY <2>2, <2>4, <2>6, <2>7, <2>8
<1>3. /\ GeoOn(v, names) => one[Gate] = two[Gate] /\ two[Gate] # "accept"
      /\ Game \subseteq fewer => \A c \in LimitsOf(Host) : one[c] = two[c]
  BY ChainsFewer, SMTT(60)
<1>4. Flat(front) /\ (Blocked(v) /\ k.fam = 6 => ~Passed(front, k, one)) /\ Same(front, one, front, two, k)
  <2>1. Flat(front) /\ (Blocked(v) /\ k.fam = 6 => ~Passed(front, k, one))
    BY <1>2, FrontFlat
  <2> QED
    BY <2>1, FlatSame
<1>5. /\ IsList(vpn) /\ IsList(vpn2) /\ (~Passed(vpn2, k, two) => Yields(vpn, k, one))
      /\ (~Passed(vpn, k, one) => Yields(vpn, k, one))
  BY <1>2, VpnFewer
<1>6. IsList(rest) /\ ~Yields(rest, k, two)
  <2>1. IsList(rest) /\ \A r \in Members(rest) : Matches(r, k) /\ Opens({}, r) => k.state \in {"established", "related"}
    BY EstablishedOpen
  <2>2. ASSUME Yields(rest, k, two) PROVE FALSE
    <3>1. PICK i : Deciding(rest, k, two, i)
      BY <2>1, <2>2, DecidingIs DEF Yields
    <3>2. i \in DOMAIN rest /\ Matches(rest[i], k) /\ VerdictOf(rest[i], two) = "accept"
      BY <2>1, <2>2, <3>1, DecidingIs DEF Deciding, Decides, Yields
    <3>3. rest[i] \in Members(rest)
      BY <3>2 DEF Members
    <3>4. rest[i].to \in {"accept", "drop"}
      BY <3>3, EstablishedOpen
    <3>5. rest[i].to = "accept"
      BY <3>2, <3>4 DEF VerdictOf
    <3>6. Opens({}, rest[i])
      BY <3>5 DEF Opens
    <3> QED
      BY <2>1, <3>2, <3>3, <3>6
  <2> QED
    BY <2>1, <2>2
<1>7. IsList(serve) /\ IsList(serve2)
      /\ (Passed(front, k, one) /\ Yields(serve2, k, two) => Yields(serve, k, one))
  <2> DEFINE s == HostServices(nft, v, names)
             s2 == HostServices(nft, v, fewer)
  <2>1. IsList(s) /\ IsList(s2)
    BY <1>2, ServicesList
  <2>2. ASSUME Passed(front, k, one), Yields(s2, k, two) PROVE Yields(s, k, one)
    <3>1. k.fam = 6 => ~Blocked(v)
      BY <1>4, <2>2
    <3>2. nft \/ (names \cap Game = {} /\ fewer \cap Game = {}) \/ k.fam = 4
      BY <1>2, <3>1
    <3> HIDE DEF nft, v, names, fewer, one, two
    <3>3. Yields(HostServices(nft, v, fewer), k, two)
      BY <2>2
    <3> QED
      BY <1>2, <1>3, <3>2, <3>3, ServicesFewer
  <2> HIDE DEF s, s2
  <2>3. IsList(<<>>) /\ Passed(<<>>, k, two)
    BY OneList DEF Passed
  <2>4. CASE v.HOST_SERVICES
    <3>1. serve = s /\ serve2 = s2
      BY <2>4 DEF Only, s, s2
    <3> QED
      BY <2>1, <2>2, <3>1
  <2>5. CASE ~v.HOST_SERVICES
    <3>1. serve = <<>> /\ serve2 = <<>>
      BY <2>5 DEF Only
    <3> QED
      BY <2>3, <3>1 DEF Yields
  <2> QED
    BY <2>4, <2>5
<1>8. Yields(chain2, k, two)
  <2>1. IsList(front) /\ IsList(vpn2) /\ IsList(serve2) /\ IsList(rest)
    BY <1>4, <1>5, <1>6, <1>7 DEF Flat
  <2>2. IsList(chain2)
    BY <2>1, Joined
  <2>3. FirstOf(chain2, k, two) = "accept"
    BY <1>1
  <2> QED
    BY <2>2, <2>3, YieldsIs
<1> HIDE DEF nft, v, names, fewer, one, two, front, vpn, vpn2, serve, serve2, rest, chain, chain2
<1>9. /\ \/ Yields(front, k, two)
         \/ Passed(front, k, two) /\ (Yields(vpn2, k, two) \/ (Passed(vpn2, k, two) /\ Yields(serve2, k, two)))
      /\ IsList(front)
  <2>1. IsList(front)
    BY <1>4 DEF Flat
  <2>2. Yields(((front \o vpn2) \o serve2) \o rest, k, two)
    BY <1>8 DEF chain2
  <2>3. IsList(front \o vpn2) /\ IsList((front \o vpn2) \o serve2)
    BY <1>5, <1>7, <2>1, Joined
  <2>4. Yields((front \o vpn2) \o serve2, k, two)
    BY <1>6, <2>2, <2>3, YieldsThen
  <2>5. Yields(front \o vpn2, k, two) \/ (Passed(front \o vpn2, k, two) /\ Yields(serve2, k, two))
    BY <1>7, <2>3, <2>4, YieldsThen
  <2> QED
    BY <1>5, <2>1, <2>5, YieldsThen
<1>10. \/ Yields(front, k, one)
       \/ Passed(front, k, one) /\ (Yields(vpn, k, one) \/ (Passed(vpn, k, one) /\ Yields(serve, k, one)))
  <2>1. (Passed(front, k, one) <=> Passed(front, k, two)) /\ (Yields(front, k, one) <=> Yields(front, k, two))
    BY <1>4 DEF Same, Yields
  <2>2. Yields(vpn2, k, two) => ~Passed(vpn2, k, two)
    BY DEF Yields
  <2> QED
    BY <1>5, <1>7, <1>9, <2>1, <2>2
<1>11. Yields(chain, k, one)
  <2>1. /\ IsList(front \o vpn)
        /\ Yields(front \o vpn, k, one) <=> Yields(front, k, one) \/ (Passed(front, k, one) /\ Yields(vpn, k, one))
    BY <1>5, <1>9, YieldsThen
  <2>2. Passed(front \o vpn, k, one) <=> Passed(front, k, one) /\ Passed(vpn, k, one)
    BY <1>5, <1>9, YieldsThen
  <2>3. IsList((front \o vpn) \o serve) /\ Yields((front \o vpn) \o serve, k, one)
    BY <1>7, <1>10, <2>1, <2>2, YieldsThen
  <2> QED
    BY <1>6, <2>3, YieldsThen DEF chain
<1> QED
  BY <1>1, <1>11 DEF Yields

(***************************************************************************)
(* A removal                                                               *)
(***************************************************************************)
\* There is one policy at most, and no operation touches the manual lists of the filter.
RemovalInv ==
  /\ \A i, j \in DOMAIN record : i = j
  /\ {"access", "country", "manual", "dns"} \subseteq DOMAIN files
  /\ files.manual = Disk.manual /\ read.manual = Disk.manual

LEMMA MigratedOnce ==
  ASSUME NEW b, NEW p \in Migrated(b), NEW q \in Migrated(b)
  PROVE  p = q
<1>1. \A v, x, y : x \in LegacyDimensions(v) /\ y \in LegacyDimensions(v) => x = y
  BY Zenon DEF LegacyDimensions
<1> DEFINE Of(x) == [b EXCEPT !.config = [ACCESS_POLICY |-> ""] @@ x, !.schema = 2]
           some == {x \in LegacyDimensions(b.config) : x.BYPASS_SOURCE_DOMAINS = {}}
<1>2. CASE b.schema = 1
  <2>1. p \in {Of(x) : x \in some} /\ q \in {Of(x) : x \in some}
    BY <1>2, Zenon DEF Migrated
  <2> HIDE DEF Of
  <2>2. PICK x \in some : p = Of(x)
    BY <2>1
  <2>3. PICK y \in some : q = Of(y)
    BY <2>1
  <2>4. x = y
    BY <1>1
  <2> QED
    BY <2>2, <2>3, <2>4
<1>3. CASE b.schema # 1
  <2>1. p = b /\ q = b
    BY <1>3, Zenon DEF Migrated
  <2> QED
    BY <2>1
<1> QED
  BY <1>2, <1>3

LEMMA CurrentOnce ==
  ASSUME RemovalInv, NEW p \in Current, NEW q \in Current
  PROVE  p = q
<1>1. PICK i \in DOMAIN record : p \in Migrated(record[i])
  BY DEF Current
<1>2. PICK j \in DOMAIN record : q \in Migrated(record[j])
  BY DEF Current
<1>3. i = j
  BY DEF RemovalInv
<1> QED
  BY <1>1, <1>2, <1>3, MigratedOnce

LEMMA RemovalKept == PolicySpec => []RemovalInv
<1>1. \A a : DOMAIN <<a>> = {1}
  OBVIOUS
<1>2. PolicyInit => RemovalInv
  <2> SUFFICES ASSUME PolicyInit PROVE RemovalInv
    OBVIOUS
  <2>1. record = <<>> \/ \E p : record = <<p>>
    BY DEF PolicyInit
  <2>2. \A i, j \in DOMAIN record : i = j
    BY <1>1, <2>1
  <2> QED
    BY <2>2, PolicyAssumption DEF RemovalInv, PolicyInit
<1>3. RemovalInv /\ [PolicyNext]_policyVars => RemovalInv'
  <2> SUFFICES ASSUME RemovalInv, [PolicyNext]_policyVars PROVE RemovalInv'
    OBVIOUS
  <2>1. ASSUME NEW p, record' = <<p>>, files' = files, read' = files PROVE RemovalInv'
    BY <1>1, <2>1 DEF RemovalInv
  <2>2. ASSUME NEW c, NEW operation, Confirm(c, operation) PROVE RemovalInv'
    BY <2>1, <2>2 DEF Confirm
  <2>3. CASE EditAccess
    BY <2>3 DEF EditAccess, RemovalInv
  <2>4. CASE UpdateStarts
    BY <2>4 DEF UpdateStarts, RemovalInv
  <2>5. CASE CountryReplaced
    <3>1. files' = [files EXCEPT !.country[Head(updating)] = Refreshed[Head(updating)]] /\ UNCHANGED <<record, read>>
      BY <2>5 DEF CountryReplaced
    <3>2. DOMAIN files' = DOMAIN files /\ files'.manual = files.manual
      BY <3>1 DEF RemovalInv
    <3> QED
      BY <3>1, <3>2 DEF RemovalInv
  <2>6. CASE \E r \in Requests : Apply(r)
    BY <2>2, <2>6 DEF Apply
  <2>7. CASE \E u \in Updates : Partial(u)
    BY <2>2, <2>7 DEF Partial
  <2>8. CASE \E d \in Removals : Remove(d)
    BY <2>2, <2>8 DEF Remove
  <2>9. CASE UNCHANGED policyVars
    BY <2>9 DEF RemovalInv, policyVars
  <2> QED
    BY <2>3, <2>4, <2>5, <2>6, <2>7, <2>8, <2>9 DEF PolicyNext
<1> QED
  BY <1>2, <1>3, PTL DEF PolicySpec

\* What a removal that sets nothing composes: the options and the grants of the policy, and
\* some of its modules.
LEMMA RemovedIs ==
  ASSUME NEW f, NEW p, Whole(p, f), NEW d, d.set = << >>, NEW next \in RemoveConfiguration(p, d)
  PROVE  /\ next.backend = p.backend /\ next.config = p.config /\ next.access = p.access
         /\ next.selected \subseteq p.selected
         /\ \E r : next \in Configured(r, files)
<1>1. Filled(p.config, p.selected)
  BY DEF Whole
<1>2. << >> @@ p.config = p.config
  <2>1. p.config = [x \in DOMAIN p.config |-> p.config[x]] /\ DOMAIN << >> = {}
    BY <1>1 DEF Filled
  <2> QED
    BY <2>1, Below
<1>3. PICK c \in Merged(p, d.set) : \E n \in Named(p, c, d.names, d.set) :
        next \in Reread(p, c.config, p.selected \ n.selected, c.access, d.set)
  BY RemovedBy
<1>4. PICK n \in Named(p, c, d.names, d.set) :
        next \in Reread(p, c.config, p.selected \ n.selected, c.access, d.set)
  BY <1>3
<1>5. c \in Configured(Normalized(p.backend, p.config, p.selected, p.access, {}), files)
  <2>1. DOMAIN << >> = {}
    OBVIOUS
  <2>2. "ACCESS_POLICY" \notin DOMAIN << >>
    BY <2>1
  <2>3. c \in Reread(p, << >> @@ p.config, p.selected, p.access, << >>)
    BY <2>2 DEF Merged
  <2> QED
    BY <1>2, <2>1, <2>3 DEF Reread
<1>6. c.config = p.config /\ c.access = p.access
  BY <1>1, <1>5, ReadBack
<1> DEFINE listed == p.selected \ n.selected
           request == Normalized(p.backend, p.config, listed, p.access, DOMAIN << >>)
<1>7. next \in Configured(request, files)
  BY <1>4, <1>6 DEF Reread
<1>8. next = [backend |-> p.backend, config |-> p.config, selected |-> listed \ p.config.MODULES_EXCLUDE,
              access |-> p.access]
  BY <1>1, <1>7, ReadBack, SMTT(60)
<1> HIDE DEF request
<1> QED
  BY <1>7, <1>8

LEMMA RemovalStep ==
  ASSUME RecordInv, CurrentInv, RemovalInv, NEW d, d.set = << >>, NEW o \in Current, NEW next \in RemoveConfiguration(o, d),
         NEW operation, Confirm(next, operation), NEW p \in Current, NEW q \in Current',
         "geo_country_filter" \notin p.selected \ q.selected, PrefixesKept(p)
  PROVE  Fewer(p, read, q, files)
<1>1. o = p
  BY CurrentOnce
<1>2. Whole(p, read)
  BY DEF CurrentInv
<1>3. /\ next.backend = p.backend /\ next.config = p.config /\ next.access = p.access
      /\ next.selected \subseteq p.selected
      /\ \E r : next \in Configured(r, files)
  BY <1>1, <1>2, RemovedIs
<1>4. PICK g \in Generated(next, files) : record' = <<g>>
  BY DEF Confirm
<1>5. Whole(g, files) /\ Parts(g) = next
  BY <1>3, GeneratedWhole
<1>6. Current' \subseteq {g}
  BY <1>4, <1>5, CurrentOf DEF Current
<1>7. q = g
  BY <1>6
<1>8. q.backend = p.backend /\ q.config = p.config /\ q.access = p.access /\ q.selected \subseteq p.selected
  BY <1>3, <1>5, <1>7 DEF Parts
<1>9. GeoOn(p.config, q.selected) = GeoOn(p.config, p.selected)
  BY <1>8 DEF GeoOn
<1>10. GeoOn(p.config, p.selected) => GeoSets(p.config, files) = GeoSets(p.config, read)
  BY DEF PrefixesKept, RemovalInv, GeoSets
<1>11. FiniteOptions(p.config) /\ Enumerated(p.access)
  BY CurrentFinite
<1> QED
  BY <1>2, <1>5, <1>7, <1>8, <1>9, <1>10, <1>11 DEF Fewer

\* RemovalOpensNothing.  A removal keeps the options and the grants of the policy and some of
\* its modules.  What comes ahead of the services, and the forwarding, is the same; the
\* services that are left are the same, and each of those that are gone accepted more or
\* had ports of its own.
THEOREM RemovalSafe == PolicySpec => RemovalOpensNothing
<1> DEFINE Closed == last'.op = "remove" /\ last' # last /\ last'.set = << >> =>
                       \A p \in Current, q \in Current' :
                         "geo_country_filter" \notin p.selected \ q.selected /\ PrefixesKept(p) =>
                           /\ \A k \in Arrivals : k.state = "new" /\ Accepts(q, k) => Accepts(p, k)
                           /\ \A k \in Transits : k.state = "new" /\ Forwards(q, k) = "accept" => Forwards(p, k) = "accept"
<1>1. RecordInv /\ CurrentInv /\ RemovalInv /\ [PolicyNext]_policyVars => [Closed]_policyVars
  <2> SUFFICES ASSUME RecordInv, CurrentInv, RemovalInv, PolicyNext,
                      last'.op = "remove", last' # last, last'.set = << >>, NEW p \in Current, NEW q \in Current',
                      "geo_country_filter" \notin p.selected \ q.selected, PrefixesKept(p)
               PROVE  /\ \A k \in Arrivals : k.state = "new" /\ Accepts(q, k) => Accepts(p, k)
                      /\ \A k \in Transits : k.state = "new" /\ Forwards(q, k) = "accept" => Forwards(p, k) = "accept"
    OBVIOUS
  <2>1. PICK d \in Removals : Remove(d)
    <3>1. \A r : ~Apply(r)
      BY DEF Apply, Confirm, Operation
    <3>2. \A u : ~Partial(u)
      BY DEF Partial, Confirm, Operation
    <3>3. ~EditAccess /\ ~UpdateStarts /\ ~CountryReplaced
      BY DEF EditAccess, UpdateStarts, CountryReplaced
    <3> QED
      BY <3>1, <3>2, <3>3 DEF PolicyNext
  <2>5. PICK o \in Current : \E next \in RemoveConfiguration(o, d) : Confirm(next, Operation("remove", d.names, d.set))
    BY <2>1 DEF Remove
  <2>2. PICK next \in RemoveConfiguration(o, d) : Confirm(next, Operation("remove", d.names, d.set))
    BY <2>5
  <2>3. d.set = << >>
    BY <2>2 DEF Confirm, Operation
  <2>4. Fewer(p, read, q, files)
    BY <2>2, <2>3, RemovalStep
  <2> QED
    BY <2>4, ArrivalsAssumption, AcceptsFewer, ForwardsFewer
<1>2. PolicySpec => [][Closed]_policyVars
  BY <1>1, RecordKept, CurrentKept, RemovalKept, PTL DEF PolicySpec
<1> QED
  BY <1>2 DEF RemovalOpensNothing

(***************************************************************************)
(* The tool that explains the country filter                               *)
(***************************************************************************)
\* The greatest of some ports is one of them.
LEMMA HighestIn ==
  ASSUME NEW n \in Nat, NEW S, S # {}, \A x \in S : x \in Nat /\ x <= n
  PROVE  Highest(S) \in S
<1> DEFINE T == {n - x : x \in S}
<1>1. T \subseteq Nat /\ T # {}
  <2>1. \A x \in S : n - x \in Nat
    OBVIOUS
  <2> QED
    BY <2>1
<1>2. PICK m \in T : \A t \in T : m <= t
  <2> HIDE DEF T
  <2> QED
    BY <1>1, Least
<1>3. PICK x \in S : m = n - x
  BY <1>2
<1>4. ASSUME NEW y \in S PROVE y <= x
  <2>1. n - x <= n - y
    BY <1>2, <1>3
  <2> QED
    BY <2>1
<1> QED
  BY <1>3, <1>4 DEF Highest

\* A list accepts the packet, or leaves it to what comes next.
Lets(s, k, says) == IsList(s) /\ (Passed(s, k, says) \/ Yields(s, k, says))

LEMMA LetsThen ==
  ASSUME NEW s, NEW t, NEW k, NEW says, Lets(s, k, says), Lets(t, k, says)
  PROVE  Lets(s \o t, k, says)
BY YieldsThen DEF Lets

LEMMA LetsYield ==
  ASSUME NEW s, NEW t, NEW k, NEW says, Lets(s, k, says), IsList(t)
  PROVE  /\ IsList(s \o t)
         /\ Yields(t, k, says) => Yields(s \o t, k, says)
         /\ Yields(s, k, says) => Yields(s \o t, k, says)
BY YieldsThen DEF Lets

\* A list does when it only accepts, or holds no rule for the packet.
LEMMA AcceptsLet ==
  ASSUME NEW s, IsList(s), \A r \in Members(s) : r.to = "accept", NEW k, NEW says
  PROVE  Lets(s, k, says)
BY AcceptsYield DEF Lets

LEMMA NoneLets ==
  ASSUME NEW s, IsList(s), NEW k, \A r \in Members(s) : ~Matches(r, k), NEW says
  PROVE  Lets(s, k, says)
BY DEF Lets, Passed, Decides

LEMMA FirstAccepts ==
  ASSUME NEW s, IsList(s), 1 \in DOMAIN s, NEW k, NEW says, Decides(s[1], k, says), VerdictOf(s[1], says) = "accept"
  PROVE  Yields(s, k, says)
<1>1. Deciding(s, k, says, 1)
  BY DEF Deciding
<1> QED
  BY <1>1, DecidingIs DEF Yields

\* A query from outside, by what the rules ask of it.
Querying(v, k) ==
  /\ k.fam = 4 /\ k.iif # "lo" /\ k.proto = "udp" /\ k.state = "new" /\ k.meter = "under" /\ k.size = "short"
  /\ k.sig = "54" /\ k.dport \in AllGamePorts(v)

LEMMA QueryQueries ==
  ASSUME NEW v, NEW names, Game \subseteq names, GameValid(v, names), NEW a
  PROVE  Querying(v, Query(v, a)) /\ Query(v, a).src = a /\ ToGame(v, Query(v, a)) /\ Query(v, a).iif = "eth0"
<1> DEFINE ports == v.L4D2_GAMESERVER_UDP_PORTS
<1>1. PortList(ports)
  <2>1. names \cap Game # {}
    BY DEF Game
  <2> QED
    BY <2>1 DEF GameValid
<1> HIDE DEF ports
<1>2. Highest(ports) \in ports
  <2>1. ports # {} /\ \A x \in ports : x \in Nat /\ x <= 65535
    BY <1>1, SMT DEF PortList
  <2> QED
    BY <2>1, HighestIn, SMT
<1>3. Highest(v.L4D2_GAMESERVER_UDP_PORTS) \in AllGamePorts(v)
  BY <1>2 DEF AllGamePorts, ports
<1> QED
  BY <1>3 DEF Query, Querying, ToGame

\* The core holds no rule for a query.
LEMMA CoreLets ==
  ASSUME NEW v, NEW k, Querying(v, k), NEW says
  PROVE  Lets(CoreInput(v), k, says)
<1> DEFINE a == Rule([iif |-> {"lo"}], "accept")
           b == Rule([state |-> {"invalid"}], "drop")
           c == Rule(Icmp(4, {"error"}), "accept")
           d == Rule(Icmp(6, {"error"}), "accept")
           e == Rule(Discovery, "accept")
           f == Rule([meter |-> {"under"}] @@ Icmp(4, {"echo"}), "accept")
           g == Rule([meter |-> {"under"}] @@ Icmp(6, {"echo"}), "accept")
           h == Rule(Icmp(4, {"echo"}), "drop")
           i == Rule(Icmp(6, {"echo"}), "drop")
           list == <<a, b, c, d, e, f, g, h, i>>
           block == Rule([fam |-> {6}], "drop")
           blocked == Only(v.FAMILY_POLICY = "ipv4-block-ipv6", <<block>>)
<1>1. CoreInput(v) = list \o blocked
  BY DEF CoreInput
<1>2. ~Matches(a, k) /\ ~Matches(b, k) /\ ~Matches(block, k)
  BY RuleIs DEF Matches, Querying
<1>3. ~Matches(c, k) /\ ~Matches(d, k) /\ ~Matches(h, k) /\ ~Matches(i, k)
  BY PlainIcmpOpen DEF Querying
<1>4. ASSUME NEW on, DOMAIN on \in {{"hops"}, {"meter"}}, NEW n, NEW types, Matches(Rule(on @@ Icmp(n, types), "accept"), k) PROVE FALSE
  <2>1. k.proto = "icmp"
    BY <1>4, IcmpOpen
  <2> QED
    BY <2>1 DEF Querying
<1>5. ~Matches(e, k)
  <2> DEFINE on == [hops |-> {255}]
  <2>1. DOMAIN on = {"hops"}
    OBVIOUS
  <2>2. Discovery = on @@ Icmp(6, {"discovery"})
    BY DEF Discovery
  <2> HIDE DEF on
  <2> QED
    BY <1>4, <2>1, <2>2
<1>6. ~Matches(f, k) /\ ~Matches(g, k)
  <2> DEFINE on == [meter |-> {"under"}]
  <2>1. DOMAIN on = {"meter"}
    OBVIOUS
  <2> HIDE DEF on
  <2>2. \A n : ~Matches(Rule(on @@ Icmp(n, {"echo"}), "accept"), k)
    BY <1>4, <2>1
  <2> QED
    BY <2>2 DEF on
<1> HIDE DEF a, b, c, d, e, f, g, h, i, block
<1>7. IsList(list) /\ Members(list) \subseteq {a, b, c, d, e, f, g, h, i}
  <2>1. list \in Seq({a, b, c, d, e, f, g, h, i})
    OBVIOUS
  <2> HIDE DEF list
  <2> QED
    BY <2>1, ListFacts
<1>8. IsList(blocked) /\ Members(blocked) \subseteq {block}
  BY OneList DEF Only
<1> HIDE DEF list, blocked
<1>9. IsList(list \o blocked) /\ Members(list \o blocked) \subseteq {a, b, c, d, e, f, g, h, i, block}
  BY <1>7, <1>8, Joined
<1> QED
  BY <1>1, <1>2, <1>3, <1>5, <1>6, <1>9, NoneLets

\* Nor do the grants, the exemptions and the VPN ahead of the services refuse anything.
LEMMA AheadLets ==
  ASSUME NEW v, NEW names, NEW access, IsFiniteSet(access.host), IsFiniteSet(v.BYPASS_SOURCE_IPS), NEW k, NEW says
  PROVE  Lets(HostGrants(access), k, says) /\ Lets(Bypass(v), k, says) /\ Lets(VpnPort(v, names), k, says)
BY HostGrantsOpen, BypassOpen, VpnPortOpen, AcceptsLet

\* A source that may bypass the controls does.
LEMMA BypassYields ==
  ASSUME NEW v, v.PRIVILEGED_BYPASS, IsFiniteSet(v.BYPASS_SOURCE_IPS), NEW net \in v.BYPASS_SOURCE_IPS, net \subseteq V4,
         NEW k, k.fam = 4, k.src \in net, NEW says
  PROVE  Yields(Bypass(v), k, says)
<1> DEFINE Accept(n) == Rule([src |-> n] @@ InFamily(n), "accept")
           s == SX!SetToSeq(v.BYPASS_SOURCE_IPS)
           list == [i \in DOMAIN s |-> Accept(s[i])]
<1>1. Bypass(v) = list
  BY DEF Bypass, Only, EachOf
<1>2. IsList(s) /\ Members(s) = v.BYPASS_SOURCE_IPS
  BY InOrder
<1>3. PICK i \in DOMAIN s : s[i] = net
  BY <1>2 DEF Members
<1>4. Matches(Accept(net), k)
  <2> DEFINE on == [src |-> net]
             fam == [fam |-> {4}]
  <2>1. InFamily(net) = fam
    BY DEF InFamily, Family
  <2>2. DOMAIN on = {"src"} /\ on["src"] = net /\ DOMAIN fam = {"fam"} /\ fam["fam"] = {4}
    OBVIOUS
  <2>3. Accept(net).on = on @@ fam
    BY <2>1, RuleIs
  <2> HIDE DEF on, fam
  <2>4. DOMAIN (on @@ fam) = {"src", "fam"} /\ (on @@ fam)["src"] = net /\ (on @@ fam)["fam"] = {4}
    <3>1. DOMAIN (on @@ fam) = DOMAIN on \cup DOMAIN fam
      BY Together
    <3>2. (on @@ fam)["src"] = on["src"]
      BY <2>2, Left
    <3>3. (on @@ fam)["fam"] = fam["fam"]
      BY <2>2, Right
    <3> QED
      BY <2>2, <3>1, <3>2, <3>3
  <2> DEFINE both == on @@ fam
             rule == Accept(net)
  <2>5. rule.on = both /\ DOMAIN both = {"src", "fam"} /\ both["src"] = net /\ both["fam"] = {4}
    BY <2>3, <2>4
  <2> HIDE DEF Accept, both, rule
  <2>6. \A field \in DOMAIN both : k[field] \in both[field]
    BY <2>5
  <2>7. Matches(rule, k)
    BY <2>5, <2>6 DEF Matches
  <2> QED
    BY <2>7 DEF rule
<1>5. i \in DOMAIN list /\ list[i] = Accept(net)
  BY <1>3
<1>6. Accept(net) \in Members(Bypass(v))
  BY <1>1, <1>5 DEF Members
<1>7. IsList(Bypass(v)) /\ \A r \in Members(Bypass(v)) : r.to = "accept"
  BY BypassOpen
<1> HIDE DEF Accept
<1>8. ~Passed(Bypass(v), k, says)
  BY <1>4, <1>6, <1>7 DEF Passed, Decides
<1> QED
  BY <1>7, <1>8, AcceptsYield

\* The gate hands back what the lists and the mode let in.
LEMMA GateLets ==
  ASSUME NEW v, NEW geo, NEW k, NEW says, Passes(v, geo, k.src)
  PROVE  FirstOf(GeoGate(v, geo), k, says) = "return"
<1> DEFINE From(S, to) == Only(S # {}, <<Rule([src |-> S], to)>>)
<1>1. ASSUME NEW S, NEW to \in {"return", "drop"}
      PROVE  /\ IsList(From(S, to)) /\ (Passed(From(S, to), k, says) => k.src \notin S)
             /\ Ends(From(S, to), k, says, {}, "drop") => to = "drop" /\ k.src \in S
  <2> DEFINE r == Rule([src |-> S], to)
  <2>1. r.to = to /\ (Matches(r, k) <=> k.src \in S)
    BY RuleIs DEF Matches
  <2> HIDE DEF r
  <2>2. CASE S = {}
    <3>1. From(S, to) = <<>>
      BY <2>2 DEF Only
    <3> HIDE DEF From
    <3> QED
      BY <3>1, <2>2, OneList, EndsBy
  <2>3. CASE S # {}
    <3>1. From(S, to) = <<r>>
      BY <2>3 DEF Only, r
    <3> HIDE DEF From
    <3>2. IsList(From(S, to)) /\ Members(From(S, to)) = {r}
      BY <3>1, OneList
    <3>3. Passed(From(S, to), k, says) => k.src \notin S
      BY <3>2, <2>1 DEF Passed, Decides
    <3>4. ASSUME Ends(From(S, to), k, says, {}, "drop") PROVE to = "drop" /\ k.src \in S
      <4>1. Fits(r, k, {}) /\ VerdictOf(r, says) = "drop"
        BY <3>2, <3>4, EndsBy
      <4> QED
        BY <4>1, <2>1 DEF Fits, Matches, VerdictOf
    <3> QED
      BY <3>2, <3>3, <3>4
  <2> QED
    BY <2>2, <2>3
<1>2. ASSUME NEW to \in {"return", "drop"}
      PROVE  /\ IsList(<<Rule(<<>>, to)>>)
             /\ Ends(<<Rule(<<>>, to)>>, k, says, {}, "drop") => to = "drop"
  <2> DEFINE r == Rule(<<>>, to)
  <2>1. r.to = to
    BY RuleIs
  <2> HIDE DEF r
  <2>2. IsList(<<r>>) /\ Members(<<r>>) = {r}
    BY OneList
  <2>3. Ends(<<r>>, k, says, {}, "drop") => to = "drop"
    BY <2>1, <2>2, EndsBy DEF VerdictOf
  <2> QED
    BY <2>2, <2>3 DEF r
<1> DEFINE deny == From(geo.deny, "drop")
           allow == From(geo.allow, "return")
           listed == IF v.GEO_POLICY_MODE = "denylist" THEN From(geo.denied, "drop") ELSE From(geo.allowed, "return")
           rest == IF v.GEO_POLICY_MODE = "denylist" THEN <<Rule(<<>>, "return")>> ELSE <<Rule(<<>>, "drop")>>
<1>3. GeoGate(v, geo) = (deny \o allow) \o (listed \o rest)
  BY DEF GeoGate
<1>4. /\ IsList(deny) /\ (Ends(deny, k, says, {}, "drop") => k.src \in geo.deny)
      /\ IsList(allow) /\ (Passed(allow, k, says) => k.src \notin geo.allow) /\ ~Ends(allow, k, says, {}, "drop")
  <2> HIDE DEF From
  <2> QED
    BY <1>1
<1>5. /\ IsList(listed) /\ IsList(rest)
      /\ v.GEO_POLICY_MODE = "denylist" =>
           ~Ends(rest, k, says, {}, "drop") /\ (Ends(listed, k, says, {}, "drop") => k.src \in geo.denied)
      /\ v.GEO_POLICY_MODE # "denylist" =>
           ~Ends(listed, k, says, {}, "drop") /\ (Passed(listed, k, says) => k.src \notin geo.allowed)
  <2> HIDE DEF From
  <2>1. CASE v.GEO_POLICY_MODE = "denylist"
    BY <2>1, <1>1, <1>2
  <2>2. CASE v.GEO_POLICY_MODE # "denylist"
    BY <2>2, <1>1, <1>2
  <2> QED
    BY <2>1, <2>2
<1> HIDE DEF deny, allow, listed, rest
<1> DEFINE first == deny \o allow
           country == listed \o rest
<1>6. Ends(first, k, says, {}, "drop") => k.src \in geo.deny
  BY <1>4, EndsIn
<1>7. Passed(first, k, says) => k.src \notin geo.allow
  BY <1>4, PassedIn
<1>8. Ends(country, k, says, {}, "drop") =>
        IF v.GEO_POLICY_MODE = "denylist" THEN k.src \in geo.denied ELSE k.src \notin geo.allowed
  <2> SUFFICES ASSUME Ends(country, k, says, {}, "drop")
               PROVE  IF v.GEO_POLICY_MODE = "denylist" THEN k.src \in geo.denied ELSE k.src \notin geo.allowed
    OBVIOUS
  <2>1. Ends(listed, k, says, {}, "drop") \/ (Passed(listed, k, says) /\ Ends(rest, k, says, {}, "drop"))
    BY <1>5, EndsIn
  <2> QED
    BY <2>1, <1>5
<1>9. IsList(first) /\ IsList(country) /\ IsList(first \o country) /\ GeoGate(v, geo) = first \o country
  <2>1. IsList(first) /\ IsList(country)
    BY <1>4, <1>5, Joined
  <2>2. GeoGate(v, geo) = first \o country
    BY <1>3
  <2> HIDE DEF first, country
  <2> QED
    BY <2>1, <2>2, Joined
<1> HIDE DEF first, country
<1> SUFFICES ASSUME FirstOf(first \o country, k, says) # "return" PROVE FALSE
  BY <1>9
<1>10. FirstOf(first \o country, k, says) = "drop"
  BY <1>9, GateOpen
<1>11. Ends(first \o country, k, says, {}, "drop")
  BY <1>9, <1>10, FirstEnds
<1>12. Ends(first, k, says, {}, "drop") \/ (Passed(first, k, says) /\ Ends(country, k, says, {}, "drop"))
  BY <1>9, <1>11, EndsIn
<1> QED
  BY <1>6, <1>7, <1>8, <1>12 DEF Passes

\* The services of the host: what comes ahead of the games leaves a query to them, once
\* the gate lets it through; and the games accept it under its limit.
LEMMA GeoLets ==
  ASSUME NEW v, NEW names, NEW k, Querying(v, k), NEW says, GeoOn(v, names) => says[Gate] = "return"
  PROVE  Lets(GeoDeniesV6(v, names), k, says) /\ Lets(GeoRules(v, names), k, says)
<1> DEFINE six == Rule([fam |-> {6}] @@ Udp(AllGamePorts(v)), "drop")
           gate == Jump([fam |-> {4}] @@ Udp(AllGamePorts(v)), Gate)
<1>1. ~Matches(six, k)
  <2> DEFINE on == [fam |-> {6}]
             all == on @@ Udp(AllGamePorts(v))
  <2>1. "fam" \in DOMAIN on /\ on["fam"] = {6}
    OBVIOUS
  <2> HIDE DEF on
  <2>2. "fam" \in DOMAIN all /\ all["fam"] = {6}
    BY <2>1, Left
  <2>3. six.on = all
    BY RuleIs DEF on
  <2> HIDE DEF all, six
  <2> QED
    BY <2>2, <2>3 DEF Matches, Querying
<1>2. gate.to = "jump" /\ gate.chain = Gate
  BY JumpIs
<1>3. Lets(GeoDeniesV6(v, names), k, says)
  <2>1. IsList(<<six>>) /\ Members(<<six>>) = {six} /\ IsList(<<>>) /\ Members(<<>>) = {}
    <3> HIDE DEF six
    <3> QED
      BY OneList
  <2>2. GeoDeniesV6(v, names) = <<six>> \/ GeoDeniesV6(v, names) = <<>>
    BY DEF GeoDeniesV6, Only
  <2> HIDE DEF six
  <2> QED
    BY <1>1, <2>1, <2>2, NoneLets
<1>4. CASE GeoOn(v, names)
  <2>1. GeoRules(v, names) = <<gate>>
    BY <1>4 DEF GeoRules, Only, Gate
  <2> HIDE DEF gate
  <2>2. IsList(<<gate>>) /\ Members(<<gate>>) = {gate}
    BY OneList
  <2>3. ~Decides(gate, k, says)
    BY <1>2, <1>4 DEF Decides
  <2> QED
    BY <1>3, <2>1, <2>2, <2>3 DEF Lets, Passed
<1>5. CASE ~GeoOn(v, names)
  <2>1. GeoRules(v, names) = <<>>
    BY <1>5 DEF GeoRules, Only
  <2> QED
    BY <1>3, <2>1, OneList, NoneLets
<1> QED
  BY <1>4, <1>5

LEMMA ValidationLets ==
  ASSUME NEW v, NEW k, Querying(v, k), NEW says
  PROVE  Lets(ValidationRules(v), k, says)
<1>1. IsList(Sizes(v)) /\ \A r \in Members(Sizes(v)) : DOMAIN r.on = {"size"} /\ "short" \notin r.on["size"]
  <2> DEFINE a == Rule([size |-> {"empty"}], "drop")
             b == Rule([size |-> {"huge"}], "drop")
             c == Rule([size |-> {"malformed"}], "drop")
             filter == Only(v.ENABLE_MALFORMED_FILTER, <<c>>)
  <2>1. \A r \in {a, b, c} : DOMAIN r.on = {"size"} /\ "short" \notin r.on["size"]
    BY RuleIs
  <2>2. Sizes(v) = <<a, b>> \o filter
    BY DEF Sizes
  <2> HIDE DEF a, b, c
  <2>3. IsList(<<a, b>>) /\ Members(<<a, b>>) = {a, b} /\ IsList(filter) /\ Members(filter) \subseteq {c}
    BY OneList DEF Only
  <2> HIDE DEF filter
  <2>4. IsList(<<a, b>> \o filter) /\ Members(<<a, b>> \o filter) \subseteq {a, b, c}
    BY <2>3, Joined
  <2> QED
    BY <2>1, <2>2, <2>4
<1>2. ASSUME NEW ports PROVE Lets(Both(Udp(ports), Sizes(v)), k, says)
  <2> DEFINE list == Both(Udp(ports), Sizes(v))
  <2>1. IsList(list)
    BY <1>1, BothList
  <2>2. ASSUME NEW r \in Members(list), Matches(r, k) PROVE FALSE
    <3>1. Fits(r, k, {})
      BY <2>2 DEF Fits, Matches
    <3>2. PICK q \in Members(Sizes(v)) : Fits(q, k, {} \cup DOMAIN Udp(ports))
      BY <1>1, <2>2, <3>1, Narrowed
    <3>3. "size" \in DOMAIN q.on \ ({} \cup DOMAIN Udp(ports))
      BY <1>1, UdpFields
    <3>4. k["size"] \in q.on["size"]
      BY <3>2, <3>3 DEF Fits
    <3> QED
      BY <1>1, <3>4 DEF Querying
  <2> QED
    BY <2>1, <2>2, NoneLets
<1>3. ValidationRules(v) = Both(Udp(v.L4D2_GAMESERVER_UDP_PORTS), Sizes(v)) \o Both(Udp(v.L4D2_SOURCETV_UDP_PORTS), Sizes(v))
  BY DEF ValidationRules, Sizes
<1> QED
  BY <1>2, <1>3, LetsThen

\* The first rule of the queries hands this one to its limit.
LEMMA QueryYields ==
  ASSUME NEW nft, NEW v, NEW ctx, NEW k, Querying(v, k), NEW says, says[<<ctx, "a2s_limit">>] = "accept"
  PROVE  Yields(QueryRules(nft, v, ctx), k, says)
<1> DEFINE jump == Jump(Signature({"54"}), <<ctx, "a2s_limit">>)
           steam == Only(v.ENABLE_STEAM_GROUP_FILTER,
                         <<Jump(Signature(SteamSignatures(nft, v)), <<ctx, "steam_group_limit">>)>>)
           list == <<jump>> \o steam
           front == Both(Udp(AllGamePorts(v)), list)
           login == Udp(v.L4D2_GAMESERVER_UDP_PORTS) @@ Short @@ Signature({"71"})
           logins == IF nft THEN <<Jump([verb |-> {"connect", "reserve"}] @@ login, <<ctx, "login_limit">>), Rule(login, "drop")>>
                     ELSE <<Jump(login, <<ctx, "login_limit">>)>>
<1>1. QueryRules(nft, v, ctx) = front \o logins
  BY DEF QueryRules
<1>2. jump.to = "jump" /\ jump.chain = <<ctx, "a2s_limit">> /\ jump.on = Signature({"54"})
  BY JumpIs
<1>3. IsList(steam)
  BY OneList DEF Only
<1>4. IsList(logins)
  BY OneList
<1> HIDE DEF jump, steam, logins
<1>5. IsList(list) /\ Len(list) = 1 + Len(steam) /\ list[1] = jump
  <2>1. IsList(<<jump>>) /\ Len(<<jump>>) = 1 /\ <<jump>>[1] = jump
    BY OneList
  <2>2. 1 \in 1..Len(<<jump>>)
    BY <2>1
  <2> QED
    BY <1>3, <2>1, <2>2, Joined
<1> HIDE DEF list
<1>6. 1 \in DOMAIN list
  <2>1. Len(steam) \in Nat /\ DOMAIN list = 1..Len(list)
    BY <1>3, <1>5, ListFacts DEF IsList
  <2> QED
    BY <1>5, <2>1
<1>7. /\ IsList(front) /\ 1 \in DOMAIN front
      /\ front[1] = [on |-> Udp(AllGamePorts(v)) @@ jump.on, to |-> jump.to, chain |-> jump.chain]
  BY <1>5, <1>6, BothList DEF Both
<1>8. Matches(front[1], k)
  <2> DEFINE a == Udp(AllGamePorts(v))
             b == Signature({"54"})
             on == a @@ b
  <2>1. DOMAIN a = {"proto", "dport"} /\ a["proto"] = {"udp"} /\ a["dport"] = AllGamePorts(v)
    BY UdpFields
  <2>2. DOMAIN b = {"sig"} /\ b["sig"] = {"54"}
    BY DEF Signature
  <2> HIDE DEF a, b
  <2>3. DOMAIN on = DOMAIN a \cup DOMAIN b
    BY Together
  <2>4. on["proto"] = a["proto"] /\ on["dport"] = a["dport"]
    BY <2>1, Left
  <2>5. on["sig"] = b["sig"]
    BY <2>1, <2>2, Right
  <2> HIDE DEF on
  <2>6. \A field \in DOMAIN on : k[field] \in on[field]
    BY <2>1, <2>2, <2>3, <2>4, <2>5 DEF Querying
  <2>7. front[1].on = on
    BY <1>2, <1>7 DEF on, a, b
  <2> HIDE DEF front
  <2> QED
    BY <2>6, <2>7 DEF Matches
<1>9. front[1].to = "jump" /\ front[1].chain = <<ctx, "a2s_limit">>
  BY <1>2, <1>7
<1> HIDE DEF front
<1>10. Decides(front[1], k, says) /\ VerdictOf(front[1], says) = "accept"
  BY <1>8, <1>9 DEF Decides, VerdictOf
<1>11. Yields(front, k, says)
  BY <1>7, <1>10, FirstAccepts
<1> QED
  BY <1>1, <1>4, <1>7, <1>11, YieldsThen

\* The chain of a limit accepts a packet under it.
LEMMA LimiterAccepts ==
  ASSUME NEW nft, NEW rate, NEW burst, NEW k, k.meter = "under", NEW says
  PROVE  FirstOf(Limiter(nft, rate, burst, << >>), k, says) = "accept"
<1> DEFINE all == Rule(<<>>, "accept")
           first == Rule(<< >> @@ Under, "accept")
           over == Only(nft, <<Rule(<< >> @@ Over, "drop")>>)
           rest == <<Rule(<<>>, "drop")>>
<1>1. ASSUME NEW s, IsList(s), 1 \in DOMAIN s, s[1].to = "accept", Matches(s[1], k)
      PROVE  FirstOf(s, k, says) = "accept"
  <2>1. Yields(s, k, says)
    BY <1>1, FirstAccepts DEF Decides, VerdictOf
  <2> QED
    BY <2>1 DEF Yields
<1>2. all.to = "accept" /\ Matches(all, k)
  BY RuleIs, Always
<1>3. first.to = "accept" /\ Matches(first, k)
  <2>1. DOMAIN Under = {"meter"} /\ Under["meter"] = {"under"}
    BY DEF Under
  <2>2. DOMAIN (<< >> @@ Under) = {"meter"} /\ (<< >> @@ Under)["meter"] = {"under"}
    BY <2>1 DEF @@
  <2>3. first.on = << >> @@ Under /\ first.to = "accept"
    BY RuleIs
  <2> HIDE DEF first
  <2> QED
    BY <2>2, <2>3 DEF Matches
<1> HIDE DEF all, first
<1>4. IsList(<<all>>) /\ IsList(<<first>>) /\ IsList(over) /\ IsList(rest)
  BY OneList DEF Only
<1>5. CASE rate = 0 \/ burst = 0
  <2>1. Limiter(nft, rate, burst, << >>) = <<all>>
    BY <1>5 DEF Limiter, all
  <2>2. 1 \in DOMAIN <<all>> /\ <<all>>[1] = all
    OBVIOUS
  <2> QED
    BY <1>1, <1>2, <1>4, <2>1, <2>2
<1>6. CASE ~(rate = 0 \/ burst = 0)
  <2>1. Limiter(nft, rate, burst, << >>) = (<<first>> \o over) \o rest
    BY <1>6 DEF Limiter, LimitChain, first
  <2>2. 1 \in 1..Len(<<first>>) /\ <<first>>[1] = first /\ Len(<<first>>) = 1
    OBVIOUS
  <2> HIDE DEF over, rest
  <2> DEFINE two == <<first>> \o over
  <2>3. IsList(two) /\ Len(two) = 1 + Len(over) /\ two[1] = first
    BY <1>4, <2>2, Joined
  <2>4. 1 \in 1..Len(two)
    BY <1>4, <2>3 DEF IsList
  <2> HIDE DEF two
  <2>5. IsList(two \o rest) /\ (two \o rest)[1] = first /\ Len(two \o rest) = Len(two) + Len(rest)
    BY <1>4, <2>3, <2>4, Joined
  <2>6. 1 \in DOMAIN (two \o rest)
    <3>1. DOMAIN (two \o rest) = 1..Len(two \o rest) /\ Len(rest) \in Nat /\ Len(two) \in Nat
      BY <1>4, <2>3, <2>5, ListFacts DEF IsList
    <3> QED
      BY <2>4, <2>5, <3>1
  <2>7. FirstOf(two \o rest, k, says) = "accept"
    BY <1>1, <1>3, <2>5, <2>6
  <2> QED
    BY <2>1, <2>7 DEF two
<1> QED
  BY <1>5, <1>6

\* So a game accepts the query, when it comes to it.
LEMMA GameYields ==
  ASSUME NEW nft, NEW v, NEW ctx, NEW k, Querying(v, k), NEW says, says[<<ctx, "a2s_limit">>] = "accept"
  PROVE  Yields(GameRules(nft, v, ctx), k, says)
<1>1. Lets(ValidationRules(v), k, says)
  BY ValidationLets
<1>2. Yields(QueryRules(nft, v, ctx), k, says)
  BY QueryYields
<1>3. IsList(QueryRules(nft, v, ctx)) /\ IsList(BaseRules(v, ctx))
  BY QueryOpen, BaseOpen
<1>4. IsList(ValidationRules(v) \o QueryRules(nft, v, ctx)) /\ Yields(ValidationRules(v) \o QueryRules(nft, v, ctx), k, says)
  BY <1>1, <1>2, <1>3, LetsYield
<1>5. Yields((ValidationRules(v) \o QueryRules(nft, v, ctx)) \o BaseRules(v, ctx), k, says)
  BY <1>3, <1>4, YieldsThen
<1> QED
  BY <1>5 DEF GameRules

\* What the gate hands back, the services accept.
LEMMA ServicesYield ==
  ASSUME NEW nft, nft, NEW v, NEW names, Game \subseteq names, GameValid(v, names),
         "allowlist_ports" \in names => "BYPASS_UDP_PORTS" \in DOMAIN v,
         NEW k, Querying(v, k), NEW says, says[<<Host, "a2s_limit">>] = "accept", GeoOn(v, names) => says[Gate] = "return"
  PROVE  Yields(HostServices(nft, v, names), k, says)
<1> DEFINE tcp == TcpPart(nft, v, names)
           geo == GeoDeniesV6(v, names) \o GeoRules(v, names)
           game == GameOf(nft, names, v)
<1>1. HostServices(nft, v, names) = tcp \o (geo \o game)
  BY PlainServices DEF ForFamilies, Plain, UdpPart
<1>2. Lets(tcp, k, says)
  <2>1. k.proto = "udp"
    BY DEF Querying
  <2>2. IsList(tcp) /\ \A r \in Members(tcp) : ~Fits(r, k, Where)
    BY <2>1, TcpPartPasses
  <2>3. \A r : Matches(r, k) => Fits(r, k, Where)
    BY DEF Matches, Fits
  <2> HIDE DEF tcp
  <2> QED
    BY <2>2, <2>3, NoneLets
<1>3. Lets(geo, k, says)
  <2>1. Lets(GeoDeniesV6(v, names), k, says) /\ Lets(GeoRules(v, names), k, says)
    BY GeoLets
  <2> QED
    BY <2>1, LetsThen
<1>4. IsList(game) /\ Yields(game, k, says)
  <2>1. game = GameRules(nft, v, Host)
    BY DEF GameOf, Only
  <2>2. Yields(GameRules(nft, v, Host), k, says)
    BY GameYields
  <2>3. IsList(game)
    BY UdpPartList
  <2> QED
    BY <2>1, <2>2, <2>3
<1> HIDE DEF tcp, geo, game
<1>5. IsList(geo \o game) /\ Yields(geo \o game, k, says)
  BY <1>3, <1>4, LetsYield
<1>6. Yields(tcp \o (geo \o game), k, says)
  BY <1>2, <1>5, LetsYield
<1> QED
  BY <1>1, <1>6

\* A query that passes the country filter, or whose source may bypass it, is accepted.
LEMMA QueryHeard ==
  ASSUME NEW p, NEW f, Admissible(p.backend, p.config, p.selected), Enumerated(p.access), AsCompiled(p, f),
         p.backend = "nftables", Game \subseteq p.selected, p.config.HOST_SERVICES, NEW k, Querying(p.config, k),
         \/ GeoOn(p.config, p.selected) => Passes(p.config, GeoSets(p.config, f), k.src)
         \/ p.config.PRIVILEGED_BYPASS /\ \E net \in p.config.BYPASS_SOURCE_IPS : net \subseteq V4 /\ k.src \in net
  PROVE  Accepts(p, k)
<1> DEFINE nft == p.backend = "nftables"
           v == p.config
           names == p.selected
           access == p.access
           core == CoreInput(v)
           grants == HostGrants(access)
           bypass == Bypass(v)
           vpn == VpnPort(v, names)
           serve == Only(v.HOST_SERVICES, HostServices(nft, v, names))
           services == HostServices(nft, v, names)
           rest == EstablishedOnly
           all == p.chains
           says == Outer(all, k)
           in == <<Host, "input">>
           chain == ((((core \o grants) \o bypass) \o vpn) \o serve) \o rest
<1>1. all = ChainsOf(nft, v, names, access, f)
  BY DEF AsCompiled
<1>18. nft
  OBVIOUS
<1> HIDE DEF nft
<1>2. ChainsOf(nft, v, names, access, f)[in] = InputChain(nft, v, names, access)
  BY Furnished
<1>3. InputChain(nft, v, names, access) = chain
  BY DEF InputChain
<1>4. Walk(all, in, k) = FirstOf(all[in], k, says)
  <2> HIDE DEF all, in
  <2>1. \A name : Walk(all, name, k) = FirstOf(all[name], k, Outer(all, k))
    BY WalkIs
  <2> QED
    BY <2>1
<1>5. says[<<Host, "a2s_limit">>] = "accept"
  <2> DEFINE name == <<Host, "a2s_limit">>
             limiter == Limiter(nft, v.A2S_RATE, v.A2S_BURST, << >>)
  <2>1. Host \notin DOMAIN access.containers
    BY DEF Enumerated, Host
  <2>2. "a2s_limit" \in GameLimits \cup QueryLimits
    BY DEF QueryLimits
  <2>3. name \in DOMAIN ChainsOf(nft, v, names, access, f)
        /\ ChainsOf(nft, v, names, access, f)[name] = GameChains(nft, v, Host)[name]
    BY <2>1, <2>2, GamesFurnished
  <2>4. GameChains(nft, v, Host)[name] = limiter
    BY GameChainsAre, ZenonT(60)
  <2>5. k.meter = "under"
    BY DEF Querying
  <2>6. FirstOf(limiter, k, Inner(all, k)) = "accept"
    BY <2>5, LimiterAccepts
  <2> HIDE DEF all, name, limiter, v, names, access
  <2>7. name \in DOMAIN all /\ all[name] = limiter
    BY <1>1, <2>3, <2>4
  <2>8. Outer(all, k)[name] = FirstOf(all[name], k, Inner(all, k))
    BY <2>7, WalkIs
  <2>9. Outer(all, k)[name] = "accept"
    BY <2>6, <2>7, <2>8
  <2> QED
    BY <2>9 DEF name
<1>6. IsFiniteSet(access.host) /\ IsFiniteSet(v.BYPASS_SOURCE_IPS)
  BY DEF Admissible, FiniteOptions, FiniteLists, Enumerated
<1>7. Lets(core, k, says) /\ Lets(grants, k, says) /\ Lets(bypass, k, says) /\ Lets(vpn, k, says)
  <2> HIDE DEF says
  <2>1. Lets(core, k, says)
    BY CoreLets
  <2> QED
    BY <2>1, <1>6, AheadLets
<1>8. serve = services /\ IsList(services) /\ IsList(rest)
  <2>1. IsList(rest)
    BY EstablishedOpen
  <2> QED
    BY <2>1, ServicesList DEF Only
<1>9. GameValid(v, names) /\ ("allowlist_ports" \in names => "BYPASS_UDP_PORTS" \in DOMAIN v)
  <2>1. "BYPASS_UDP_PORTS" \in DOMAIN DefaultsOf("allowlist_ports")
    BY DEF DefaultsOf
  <2> QED
    BY <2>1 DEF Admissible
<1>10. Yields(bypass, k, says) \/ Yields(services, k, says)
  <2>1. CASE v.PRIVILEGED_BYPASS /\ \E net \in v.BYPASS_SOURCE_IPS : net \subseteq V4 /\ k.src \in net
    <3>1. PICK net \in v.BYPASS_SOURCE_IPS : net \subseteq V4 /\ k.src \in net
      BY <2>1
    <3>2. k.fam = 4
      BY DEF Querying
    <3> HIDE DEF says
    <3>3. Yields(Bypass(v), k, says)
      BY <2>1, <3>1, <3>2, <1>6, BypassYields
    <3> QED
      BY <3>3
  <2>2. CASE GeoOn(v, names) => Passes(v, GeoSets(v, f), k.src)
    <3>1. GeoOn(v, names) => says[Gate] = "return"
      <4> SUFFICES ASSUME GeoOn(v, names) PROVE says[Gate] = "return"
        OBVIOUS
      <4> DEFINE gate == GeoGate(v, GeoSets(v, f))
      <4>1. Gate \in DOMAIN ChainsOf(nft, v, names, access, f) /\ ChainsOf(nft, v, names, access, f)[Gate] = gate
        BY Furnished
      <4>2. FirstOf(gate, k, Inner(all, k)) = "return"
        BY <2>2, GateLets
      <4> HIDE DEF all, gate, v, names, access
      <4>3. Gate \in DOMAIN all /\ all[Gate] = gate
        BY <1>1, <4>1
      <4>4. Outer(all, k)[Gate] = FirstOf(all[Gate], k, Inner(all, k))
        BY <4>3, WalkIs
      <4> QED
        BY <4>2, <4>3, <4>4
    <3> HIDE DEF says, v, names
    <3>2. Yields(HostServices(nft, v, names), k, says)
      BY <3>1, <1>5, <1>9, <1>18, ServicesYield DEF v, names
    <3> QED
      BY <3>2
  <2> QED
    BY <2>1, <2>2
<1> HIDE DEF core, grants, bypass, vpn, serve, services, rest, says
<1> DEFINE one == core \o grants
           two == one \o bypass
           three == two \o vpn
           four == three \o serve
<1>11. Lets(one, k, says)
  BY <1>7, LetsThen
<1> HIDE DEF one
<1>12. Lets(two, k, says) /\ (Yields(bypass, k, says) => Yields(two, k, says))
  <2>1. IsList(bypass)
    BY <1>7 DEF Lets
  <2> QED
    BY <2>1, <1>7, <1>11, LetsThen, LetsYield
<1> HIDE DEF two
<1>13. Lets(three, k, says) /\ (Yields(bypass, k, says) => Yields(three, k, says))
  <2>1. IsList(vpn)
    BY <1>7 DEF Lets
  <2> QED
    BY <2>1, <1>7, <1>12, LetsThen, LetsYield
<1> HIDE DEF three
<1>14. IsList(four) /\ Yields(four, k, says)
  BY <1>8, <1>10, <1>13, LetsYield
<1> HIDE DEF four
<1>15. Yields(four \o rest, k, says)
  BY <1>8, <1>14, YieldsThen
<1>16. FirstOf(chain, k, says) = "accept"
  BY <1>15 DEF Yields, one, two, three, four
<1> HIDE DEF all, in, chain
<1>17. Walk(all, in, k) = "accept"
  BY <1>1, <1>2, <1>3, <1>4, <1>16
<1> QED
  BY <1>17 DEF Accepts, all, in

\* A policy that was applied, and that no operation has changed since, is what its request
\* was configured to.
Applied ==
  last.op = "apply" =>
    \E r \in Requests : r.supplied = last.set /\
      \E c \in Configured(r, read) : \E p \in Generated(c, read) : record = <<p>>

LEMMA AppliedKept == PolicySpec => []Applied
<1>1. PolicyInit => Applied
  BY DEF PolicyInit, Applied, Operation
<1>2. ASSUME Applied, [PolicyNext]_policyVars PROVE Applied'
  <2>1. CASE record' = record /\ read' = read /\ last' = last
    BY <2>1, <1>2 DEF Applied
  <2>2. ASSUME NEW r \in Requests, Apply(r) PROVE Applied'
    <3> DEFINE o == [Operation("apply", {}, << >>) EXCEPT !.set = r.supplied]
    <3>1. PICK c \in Configured(r, files) : Confirm(c, o)
      BY <2>2 DEF Apply
    <3>2. o.set = r.supplied /\ [o EXCEPT !.n = last.n + 1].set = o.set
      BY DEF Operation
    <3> HIDE DEF o
    <3>3. last'.set = r.supplied
      BY <3>1, <3>2 DEF Confirm
    <3>4. read' = files /\ \E p \in Generated(c, files) : record' = <<p>>
      BY <3>1 DEF Confirm
    <3> QED
      BY <3>1, <3>3, <3>4 DEF Applied
  <2>3. ASSUME NEW c, NEW op, NEW names, NEW set, op # "apply", Confirm(c, Operation(op, names, set)) PROVE Applied'
    <3>1. last'.op = op
      BY <2>3 DEF Confirm, Operation
    <3> QED
      BY <3>1, <2>3 DEF Applied
  <2>4. ASSUME NEW u \in Updates, Partial(u) PROVE Applied'
    <3>1. PICK c : Confirm(c, Operation("partial", u.only, u.set))
      BY <2>4 DEF Partial
    <3> QED
      BY <3>1, <2>3
  <2>5. ASSUME NEW d \in Removals, Remove(d) PROVE Applied'
    <3>1. PICK c : Confirm(c, Operation("remove", d.names, d.set))
      BY <2>5 DEF Remove
    <3> QED
      BY <3>1, <2>3
  <2>6. EditAccess \/ UpdateStarts \/ CountryReplaced \/ UNCHANGED policyVars
          => record' = record /\ read' = read /\ last' = last
    BY DEF EditAccess, UpdateStarts, CountryReplaced, policyVars
  <2> QED
    BY <2>1, <2>2, <2>4, <2>5, <2>6, <1>2 DEF PolicyNext
<1> QED
  BY <1>1, <1>2, PTL DEF PolicySpec

\* What a file of options says stays what it said in the configuration it gives, but for
\* what may be resolved and what may grow.
LEMMA OptionsStay ==
  ASSUME NEW r, ~r.normalized, NEW f, NEW c \in Configured(r, f)
  PROVE  /\ \A k \in DOMAIN r.supplied \ (Timeouts \cup Lists \cup {"ACCESS_POLICY", "TYPECHAIN"}) :
              k \in DOMAIN c.config /\ c.config[k] = r.supplied[k]
         /\ c.config.BYPASS_SOURCE_IPS =
              Get(r.supplied, "BYPASS_SOURCE_IPS", {})
              \cup {{a} : a \in UNION {f.dns[d] : d \in Get(r.supplied, "BYPASS_SOURCE_DOMAINS", {})}}
         /\ \A d \in Get(r.supplied, "BYPASS_SOURCE_DOMAINS", {}) : d \in DOMAIN f.dns
<1> DEFINE t == Translated(r.supplied)
           v0 == t @@ CoreDefaults
           names == Selection(r, v0)
           v1 == WithDefaults(v0, names)
           v == Fitted(v1, names, r.explicit)
           w == Resolved(v, f)
           access == IF r.normalized THEN r.access ELSE f.access[v0.ACCESS_POLICY]
<1>1. /\ c = [backend |-> r.backend, config |-> w, selected |-> names, access |-> access] /\ DnsValid(v, f)
  BY DEF Configured
<1>2. /\ \A k \in DOMAIN r.supplied \ {"TYPECHAIN"} : k \in DOMAIN v0 /\ v0[k] = r.supplied[k]
      /\ \A k \in DOMAIN CoreDefaults : k \in DOMAIN v0
      /\ \A k \in DOMAIN CoreDefaults \ Dimensions : k \notin DOMAIN r.supplied => v0[k] = CoreDefaults[k]
  <2>1. /\ \A k \in DOMAIN r.supplied \ {"TYPECHAIN"} : k \in DOMAIN t /\ t[k] = r.supplied[k]
        /\ DOMAIN t \subseteq DOMAIN r.supplied \cup Dimensions
    <3>1. CASE "TYPECHAIN" \notin DOMAIN r.supplied
      BY <3>1 DEF Translated
    <3>2. CASE "TYPECHAIN" \in DOMAIN r.supplied
      <4> DEFINE old == [k \in DOMAIN r.supplied \ {"TYPECHAIN"} |-> r.supplied[k]]
                 new == Translation(r.supplied.TYPECHAIN)
      <4>1. t = old @@ new
        BY <3>2 DEF Translated
      <4>2. DOMAIN old = DOMAIN r.supplied \ {"TYPECHAIN"} /\ \A k \in DOMAIN old : old[k] = r.supplied[k]
        OBVIOUS
      <4>3. DOMAIN new = Dimensions
        BY DEF Translation, Dimensions
      <4> HIDE DEF old, new, t
      <4>4. DOMAIN t = DOMAIN old \cup DOMAIN new /\ \A k \in DOMAIN old : t[k] = old[k]
        BY <4>1, Together, Left
      <4> QED
        BY <4>2, <4>3, <4>4
    <3> QED
      BY <3>1, <3>2
  <2> HIDE DEF t
  <2>2. \A k \in DOMAIN t : k \in DOMAIN v0 /\ v0[k] = t[k]
    BY Left
  <2>3. \A k \in DOMAIN CoreDefaults : k \in DOMAIN v0 /\ (k \notin DOMAIN t => v0[k] = CoreDefaults[k])
    <3>1. DOMAIN v0 = DOMAIN t \cup DOMAIN CoreDefaults
      BY Together
    <3>2. \A k \in DOMAIN CoreDefaults : k \notin DOMAIN t => v0[k] = CoreDefaults[k]
      BY Right
    <3> QED
      BY <3>1, <3>2
  <2> QED
    BY <2>1, <2>2, <2>3
<1> HIDE DEF t, v0, names, v1, v, w, access
<1>3. \A k \in DOMAIN v0 : k \in DOMAIN v1 /\ v1[k] = v0[k]
  BY DefaultsKeep DEF v1
<1>4. \A k \in DOMAIN v1 : k \in DOMAIN v /\ (k \notin Timeouts => v[k] = v1[k])
  BY FittedKeeps DEF v
<1>5. \A k \in DOMAIN v : k \in DOMAIN w /\ (k \notin Lists \cup {"ACCESS_POLICY"} => w[k] = v[k])
  BY ResolvedKeeps DEF w
<1>6. \A k \in DOMAIN r.supplied \ (Timeouts \cup Lists \cup {"ACCESS_POLICY", "TYPECHAIN"}) : k \in DOMAIN w /\ w[k] = r.supplied[k]
  BY <1>2, <1>3, <1>4, <1>5
<1>7. \A k \in Lists : v[k] = Get(r.supplied, k, {})
  <2>1. \A k \in Lists : k \notin Timeouts \cup Dimensions \cup {"TYPECHAIN"}
    BY DEF Lists, Timeouts, Dimensions
  <2>2. CoreDefaults["BYPASS_SOURCE_IPS"] = {} /\ CoreDefaults["BYPASS_SOURCE_DOMAINS"] = {}
    BY DEF CoreDefaults
  <2>3. \A k \in Lists : k \in DOMAIN CoreDefaults /\ CoreDefaults[k] = {}
    BY <2>2, Core DEF Lists
  <2> QED
    BY <2>1, <2>3, <1>2, <1>3, <1>4 DEF Get
<1>8. w.BYPASS_SOURCE_IPS = v.BYPASS_SOURCE_IPS \cup {{a} : a \in Answers(v, f)}
  <2> DEFINE known == [ACCESS_POLICY |-> "", BYPASS_SOURCE_DOMAINS |-> {},
                       BYPASS_SOURCE_IPS |-> v.BYPASS_SOURCE_IPS \cup {{a} : a \in Answers(v, f)}]
  <2>1. w = known @@ v
    BY Zenon DEF w, Resolved
  <2>2. "BYPASS_SOURCE_IPS" \in DOMAIN known
        /\ known["BYPASS_SOURCE_IPS"] = v.BYPASS_SOURCE_IPS \cup {{a} : a \in Answers(v, f)}
    OBVIOUS
  <2> HIDE DEF known
  <2> QED
    BY <2>1, <2>2, Left
<1>9. /\ v.BYPASS_SOURCE_IPS = Get(r.supplied, "BYPASS_SOURCE_IPS", {})
      /\ v.BYPASS_SOURCE_DOMAINS = Get(r.supplied, "BYPASS_SOURCE_DOMAINS", {})
  BY <1>7 DEF Lists
<1> QED
  BY <1>1, <1>6, <1>8, <1>9 DEF Answers, DnsValid

\* What the coverage of a target says of its addresses.
LEMMA CoverageIs ==
  ASSUME NEW target, NEW nets
  PROVE  /\ Coverage(target, nets) \in {"none", "full", "partial"}
         /\ Coverage(target, nets) = "none" => \A n \in nets : \A a \in target : a \notin n
         /\ Coverage(target, nets) = "full" => \A a \in target : \E n \in nets : a \in n
<1> DEFINE matches == {n \in nets : n \cap target # {}}
<1>1. CASE matches = {}
  <2>1. Coverage(target, nets) = "none"
    BY <1>1 DEF Coverage
  <2> QED
    BY <1>1, <2>1
<1>2. CASE matches # {} /\ target \ UNION matches = {}
  <2>1. Coverage(target, nets) = "full"
    BY <1>2 DEF Coverage
  <2>2. \A a \in target : \E n \in matches : a \in n
    BY <1>2
  <2> QED
    BY <2>1, <2>2
<1>3. CASE matches # {} /\ target \ UNION matches # {}
  <2>1. Coverage(target, nets) = "partial"
    BY <1>3 DEF Coverage
  <2> QED
    BY <2>1
<1> QED
  BY <1>1, <1>2, <1>3

LEMMA ListingIs ==
  ASSUME NEW target, NEW S
  PROVE  /\ Coverage(target, Listing(S)) = "none" => \A a \in target : a \notin S
         /\ Coverage(target, Listing(S)) = "full" => \A a \in target : a \in S
<1>1. \A a \in S : {a} \in Listing(S)
  BY DEF Listing
<1>2. \A n \in Listing(S) : \E a \in S : n = {a}
  BY DEF Listing
<1>3. ASSUME Coverage(target, Listing(S)) = "none", NEW a \in target, a \in S PROVE FALSE
  <2> DEFINE nets == Listing(S)
  <2>1. \A n \in nets : a \notin n
    <3> HIDE DEF nets
    <3> QED
      BY <1>3, CoverageIs DEF nets
  <2> QED
    BY <1>1, <1>3, <2>1
<1>4. ASSUME Coverage(target, Listing(S)) = "full", NEW a \in target PROVE a \in S
  <2>1. PICK n \in Listing(S) : a \in n
    BY <1>4, CoverageIs
  <2> QED
    BY <1>2, <2>1
<1> QED
  BY <1>3, <1>4

LEMMA CountriesAre ==
  ASSUME NEW target, NEW disk, NEW S, S \subseteq DOMAIN disk.country
  PROVE  LET c == Coverage(target, CountryNetworks(disk, S))
             all == UNION {disk.country[x] : x \in S}
         IN /\ c = "none" => \A a \in target : a \notin all
            /\ c = "full" => \A a \in target : a \in all
<1> DEFINE nets == CountryNetworks(disk, S)
<1>1. nets = UNION {Listing(disk.country[x]) : x \in S}
  <2>1. S \cap DOMAIN disk.country = S
    OBVIOUS
  <2> QED
    BY <2>1 DEF CountryNetworks
<1>2. \A x \in S : \A a \in disk.country[x] : {a} \in nets
  BY <1>1 DEF Listing
<1>3. \A n \in nets : \E x \in S : \E a \in disk.country[x] : n = {a}
  BY <1>1 DEF Listing
<1> HIDE DEF nets
<1>4. ASSUME Coverage(target, nets) = "none", NEW a \in target, NEW x \in S, a \in disk.country[x] PROVE FALSE
  <2>1. \A n \in nets : a \notin n
    BY <1>4, CoverageIs
  <2> QED
    BY <1>2, <1>4, <2>1
<1>5. ASSUME Coverage(target, nets) = "full", NEW a \in target PROVE \E x \in S : a \in disk.country[x]
  <2>1. PICK n \in nets : a \in n
    BY <1>5, CoverageIs
  <2> QED
    BY <1>3, <2>1
<1> QED
  BY <1>4, <1>5 DEF nets

LEMMA AnswerIs ==
  ASSUME NEW coverage \in {"none", "full", "partial"}, NEW full, NEW none
  PROVE  /\ coverage = "full" => Answer(coverage, full, none) = full
         /\ coverage = "partial" => Answer(coverage, full, none) = "PARTIAL"
         /\ coverage = "none" => Answer(coverage, full, none) = none
BY DEF Answer

\* The tool with its names resolved.
Exempted(env, disk) == Whitelist(env, disk, TRUE)
Told(env, disk, target) == Decide(env, disk, target, TRUE)

\* What the answer of the tool says of the gate, when the options are those of the policy
\* and the file of every country is there.
LEMMA DecideIs ==
  ASSUME NEW env, NEW disk, NEW target, NEW v, GeoOptions \subseteq DOMAIN env, \A o \in GeoOptions : v[o] = env[o],
         v.GEO_POLICY_MODE # "off" =>
           v.GEO_POLICY_ALLOWED_COUNTRIES \cup v.GEO_POLICY_DENIED_COUNTRIES \subseteq DOMAIN disk.country
  PROVE  LET answer == Told(env, disk, target)
             white == Exempted(env, disk)
             In(a) == Passes(v, GeoSets(v, disk), a)
         IN /\ answer = "ALLOW" => \/ \A a \in target : \E n \in white : a \in n
                                   \/ v.GEO_POLICY_MODE = "off" \/ \A a \in target : In(a)
            /\ answer = "DENY" => /\ \A n \in white : \A a \in target : a \notin n
                                  /\ v.GEO_POLICY_MODE # "off" /\ \A a \in target : ~In(a)
<1> DEFINE mode == v.GEO_POLICY_MODE
           yes == v.GEO_POLICY_ALLOWED_COUNTRIES
           no == v.GEO_POLICY_DENIED_COUNTRIES
           white == Exempted(env, disk)
           geo == GeoSets(v, disk)
           cw == Coverage(target, white)
           cd == Coverage(target, Listing(disk.manual.deny))
           ca == Coverage(target, Listing(disk.manual.allow))
           cy == Coverage(target, CountryNetworks(disk, yes))
           cn == Coverage(target, CountryNetworks(disk, no))
           byCountry == IF mode = "denylist" THEN Answer(cn, "DENY", "ALLOW") ELSE Answer(cy, "ALLOW", "DENY")
           byAllow == Answer(ca, "ALLOW", byCountry)
           byManual == Answer(cd, "DENY", byAllow)
           byMode == CASE mode = "off" -> "ALLOW"
                       [] mode \in {"allowlist", "denylist"} -> byManual [] OTHER -> "UNKNOWN"
           answer == Answer(cw, "ALLOW", byMode)
<1>1. Get(env, "GEO_POLICY_MODE", "off") = mode /\ Get(env, "GEO_POLICY_ALLOWED_COUNTRIES", {}) = yes
      /\ Get(env, "GEO_POLICY_DENIED_COUNTRIES", {}) = no
  BY DEF Get, GeoOptions
<1>2. Told(env, disk, target) = answer
  BY <1>1 DEF Told, Decide, ByManual, Exempted
<1>3. {cw, cd, ca, cy, cn} \subseteq {"none", "full", "partial"}
  <2>1. \A nets : Coverage(target, nets) \in {"none", "full", "partial"}
    BY CoverageIs
  <2> QED
    BY <2>1
<1>4. /\ cw = "none" => \A n \in white : \A a \in target : a \notin n
      /\ cw = "full" => \A a \in target : \E n \in white : a \in n
  <2> HIDE DEF white
  <2> QED
    BY CoverageIs
<1>5. /\ geo.deny = disk.manual.deny /\ geo.allow = disk.manual.allow
      /\ geo.denied = UNION {disk.country[x] : x \in no} /\ geo.allowed = UNION {disk.country[x] : x \in yes}
  BY DEF GeoSets
<1>6. /\ cd = "none" => \A a \in target : a \notin geo.deny
      /\ cd = "full" => \A a \in target : a \in geo.deny
      /\ ca = "none" => \A a \in target : a \notin geo.allow
      /\ ca = "full" => \A a \in target : a \in geo.allow
  BY <1>5, ListingIs
<1>7. mode # "off" => /\ cy = "none" => \A a \in target : a \notin geo.allowed
                      /\ cy = "full" => \A a \in target : a \in geo.allowed
  BY <1>5, CountriesAre
<1>8. mode # "off" => /\ cn = "none" => \A a \in target : a \notin geo.denied
                      /\ cn = "full" => \A a \in target : a \in geo.denied
  BY <1>5, CountriesAre
<1> HIDE DEF white, geo, cw, cd, ca, cy, cn, mode
<1>9. /\ byCountry = "ALLOW" => IF mode = "denylist" THEN cn = "none" ELSE cy = "full"
      /\ byCountry = "DENY" => IF mode = "denylist" THEN cn = "full" ELSE cy = "none"
  BY <1>3, AnswerIs
<1> HIDE DEF byCountry
<1>10. /\ byAllow = "ALLOW" => ca = "full" \/ (ca = "none" /\ byCountry = "ALLOW")
       /\ byAllow = "DENY" => ca = "none" /\ byCountry = "DENY"
  BY <1>3, AnswerIs
<1> HIDE DEF byAllow
<1>11. /\ byManual = "ALLOW" => cd = "none" /\ byAllow = "ALLOW"
       /\ byManual = "DENY" => cd = "full" \/ (cd = "none" /\ byAllow = "DENY")
  BY <1>3, AnswerIs
<1> HIDE DEF byManual
<1>12. /\ byMode = "ALLOW" => mode = "off" \/ byManual = "ALLOW"
       /\ byMode = "DENY" => mode # "off" /\ byManual = "DENY"
  OBVIOUS
<1> HIDE DEF byMode
<1>13. /\ answer = "ALLOW" => cw = "full" \/ (cw = "none" /\ byMode = "ALLOW")
       /\ answer = "DENY" => cw = "none" /\ byMode = "DENY"
  BY <1>3, AnswerIs
<1> HIDE DEF answer
<1>14. mode # "off" /\ byManual = "ALLOW" => \A a \in target : Passes(v, geo, a)
  BY <1>6, <1>7, <1>8, <1>9, <1>10, <1>11 DEF Passes, mode
<1>15. mode # "off" /\ byManual = "DENY" => \A a \in target : ~Passes(v, geo, a)
  BY <1>6, <1>7, <1>8, <1>9, <1>10, <1>11 DEF Passes, mode
<1> QED
  BY <1>2, <1>4, <1>12, <1>13, <1>14, <1>15 DEF white, geo, mode

\* What the policy of a request shares with the options the tool reads.
LEMMA AppliedIs ==
  ASSUME NEW r \in Requests, GeoOptions \subseteq DOMAIN r.supplied, NEW f, NEW c \in Configured(r, f), NEW p \in Generated(c, f)
  PROVE  /\ \A o \in GeoOptions : p.config[o] = r.supplied[o]
         /\ BypassValid(p.config, p.selected) /\ GeoFilesPresent(p.config, p.selected, f)
         /\ \A n \in Exempted(r.supplied, f) :
              n \in p.config.BYPASS_SOURCE_IPS /\ n \subseteq V4 /\ p.config.PRIVILEGED_BYPASS
         /\ \A n \in p.config.BYPASS_SOURCE_IPS : n \in Exempted(r.supplied, f) \/ n \cap V4 = {}
<1> DEFINE env == r.supplied
           v == p.config
           ips == Get(env, "BYPASS_SOURCE_IPS", {})
           answers == UNION {f.dns[d] : d \in Get(env, "BYPASS_SOURCE_DOMAINS", {})}
           white == Exempted(env, f)
<1>1. c.config = v
  BY GeneratedWhole DEF Parts
<1>2. Valid(p.backend, v, p.selected, p.access, f)
  BY GeneratedWhole DEF Whole
<1>3. ~r.normalized
  BY PolicyAssumption
<1>4. /\ \A o \in GeoOptions : v[o] = env[o]
      /\ v.BYPASS_SOURCE_IPS = ips \cup {{a} : a \in answers}
  <2>1. GeoOptions \cap (Timeouts \cup Lists \cup {"ACCESS_POLICY", "TYPECHAIN"}) = {}
    BY DEF GeoOptions, Timeouts, Lists
  <2>2. /\ \A k \in DOMAIN env \ (Timeouts \cup Lists \cup {"ACCESS_POLICY", "TYPECHAIN"}) :
             k \in DOMAIN c.config /\ c.config[k] = env[k]
        /\ c.config.BYPASS_SOURCE_IPS = ips \cup {{a} : a \in answers}
    BY <1>3, OptionsStay
  <2> HIDE DEF v, ips, answers
  <2>3. \A o \in GeoOptions : o \in DOMAIN env \ (Timeouts \cup Lists \cup {"ACCESS_POLICY", "TYPECHAIN"})
    BY <2>1
  <2> QED
    BY <2>2, <2>3, <1>1
<1>5. white = {n \in ips : Family(n) = 4} \cup Listing(V4 \cap answers)
  BY DEF Exempted, Whitelist
<1>6. \A n \in white : n \in v.BYPASS_SOURCE_IPS /\ n \subseteq V4
  <2> HIDE DEF white, ips, answers, v
  <2> QED
    BY <1>4, <1>5 DEF Listing, Family
<1>7. ASSUME NEW n \in v.BYPASS_SOURCE_IPS PROVE n \in white \/ n \cap V4 = {}
  <2>1. \A net \in ips : net \subseteq V4 \/ net \cap V4 = {}
    BY NetworksAssumption
  <2> HIDE DEF white, ips, answers, v
  <2>2. CASE n \in ips
    BY <2>1, <2>2, <1>5 DEF Family
  <2>3. ASSUME NEW a \in answers, n = {a} PROVE n \in white \/ n \cap V4 = {}
    BY <2>3, <1>5 DEF Listing
  <2> QED
    BY <2>2, <2>3, <1>4, <1>7
<1>8. BypassValid(v, p.selected) /\ GeoFilesPresent(v, p.selected, f)
  BY <1>2 DEF Valid
<1>9. white # {} => v.PRIVILEGED_BYPASS
  <2> HIDE DEF white
  <2> QED
    BY <1>6, <1>8 DEF BypassValid
<1> QED
  BY <1>4, <1>6, <1>7, <1>8, <1>9

\* The tool is right about a policy as it was applied.
LEMMA ToolRight ==
  ASSUME RecordInv, Applied, NEW p \in Compiled, Settled, last.op = "apply", GeoOptions \subseteq DOMAIN last.set,
         Game \cup {"geo_country_filter"} \subseteq p.selected, p.config.HOST_SERVICES,
         \A a \in V4 : ~ByVpn(p.config, p.selected, Query(p.config, a)), NEW target \in Targets
  PROVE  LET answer == Decide(last.set, files, target, TRUE)
             Heard(a) == Accepts(p, Query(p.config, a))
         IN /\ answer = "ALLOW" => \A a \in target : Heard(a)
            /\ answer = "DENY" => \A a \in target : Heard(a) => \E g \in p.access.host : ByGrant(g, Query(p.config, a))
<1> DEFINE v == p.config
           names == p.selected
           white == Exempted(last.set, read)
           answer == Told(last.set, read, target)
           In(a) == Passes(v, GeoSets(v, read), a)
<1>1. PICK r \in Requests : r.supplied = last.set /\ \E c \in Configured(r, read) : \E q \in Generated(c, read) : record = <<q>>
  BY DEF Applied
<1>2. PICK c \in Configured(r, read) : p \in Generated(c, read)
  <2>1. PICK c \in Configured(r, read) : \E q \in Generated(c, read) : record = <<q>>
    BY <1>1
  <2>2. PICK q \in Generated(c, read) : record = <<q>>
    BY <2>1
  <2>3. p = q
    BY <2>2 DEF Compiled
  <2> QED
    BY <2>3
<1>3. Admissible(p.backend, v, names) /\ Enumerated(p.access) /\ AsCompiled(p, read)
  BY DEF RecordInv, Compiled, Kept
<1>4. /\ Game \subseteq names /\ "geo_country_filter" \in names /\ p.backend = "nftables" /\ GameValid(v, names)
      /\ GeoOn(v, names) <=> v.GEO_POLICY_MODE # "off"
  BY <1>3 DEF Admissible, GeoOn
<1>5. /\ \A o \in GeoOptions : v[o] = last.set[o]
      /\ GeoFilesPresent(v, names, read)
      /\ \A n \in white : n \in v.BYPASS_SOURCE_IPS /\ n \subseteq V4 /\ v.PRIVILEGED_BYPASS
      /\ \A n \in v.BYPASS_SOURCE_IPS : n \in white \/ n \cap V4 = {}
  BY <1>1, <1>2, AppliedIs
<1>6. /\ answer = "ALLOW" => \/ \A a \in target : \E n \in white : a \in n
                             \/ v.GEO_POLICY_MODE = "off" \/ \A a \in target : In(a)
      /\ answer = "DENY" => /\ \A n \in white : \A a \in target : a \notin n
                            /\ v.GEO_POLICY_MODE # "off" /\ \A a \in target : ~In(a)
  <2>1. v.GEO_POLICY_MODE # "off" =>
          v.GEO_POLICY_ALLOWED_COUNTRIES \cup v.GEO_POLICY_DENIED_COUNTRIES \subseteq DOMAIN read.country
    BY <1>4, <1>5 DEF GeoFilesPresent
  <2> DEFINE env == last.set
  <2>2. GeoOptions \subseteq DOMAIN env /\ \A o \in GeoOptions : v[o] = env[o]
    BY <1>5
  <2> HIDE DEF v, env
  <2>3. /\ Told(env, read, target) = "ALLOW" =>
             \/ \A a \in target : \E n \in Exempted(env, read) : a \in n
             \/ v.GEO_POLICY_MODE = "off" \/ \A a \in target : Passes(v, GeoSets(v, read), a)
        /\ Told(env, read, target) = "DENY" =>
             /\ \A n \in Exempted(env, read) : \A a \in target : a \notin n
             /\ v.GEO_POLICY_MODE # "off" /\ \A a \in target : ~Passes(v, GeoSets(v, read), a)
    BY <2>1, <2>2, DecideIs
  <2> QED
    BY <2>3 DEF env
<1>7. files = read
  BY DEF Settled
<1>8. ASSUME NEW a \in target
      PROVE  LET k == Query(v, a) IN
             /\ Querying(v, k) /\ k.src = a /\ ToGame(v, k) /\ k.iif = "eth0" /\ k.fam = 4
  <2> HIDE DEF v, names
  <2>1. Querying(v, Query(v, a)) /\ Query(v, a).src = a /\ ToGame(v, Query(v, a)) /\ Query(v, a).iif = "eth0"
    BY <1>4, QueryQueries
  <2> QED
    BY <2>1 DEF Querying
<1>9. target \subseteq V4
  BY TargetsAssumption
<1>10. ASSUME answer = "ALLOW", NEW a \in target PROVE Accepts(p, Query(v, a))
  <2> DEFINE k == Query(v, a)
  <2>1. Querying(v, k) /\ k.src = a
    BY <1>8
  <2> HIDE DEF k
  <2>2. \/ GeoOn(v, names) => Passes(v, GeoSets(v, read), k.src)
        \/ v.PRIVILEGED_BYPASS /\ \E net \in v.BYPASS_SOURCE_IPS : net \subseteq V4 /\ k.src \in net
    BY <2>1, <1>4, <1>5, <1>6, <1>10
  <2>3. Accepts(p, k)
    BY <2>1, <2>2, <1>3, <1>4, QueryHeard
  <2> QED
    BY <2>3 DEF k
<1>11. ASSUME answer = "DENY", NEW a \in target, Accepts(p, Query(v, a))
       PROVE  \E g \in p.access.host : ByGrant(g, Query(v, a))
  <2> DEFINE k == Query(v, a)
  <2>1. k.src = a /\ ToGame(v, k) /\ k.iif = "eth0" /\ k.fam = 4
    BY <1>8
  <2>2. ~ByVpn(v, names, k)
    BY <1>9
  <2>3. Accepts(p, k)
    BY <1>11
  <2> HIDE DEF k
  <2>4. GeoOn(v, names) /\ ~Passes(v, GeoSets(v, read), k.src)
    BY <2>1, <1>4, <1>6, <1>11
  <2>5. ~TakenForSsh(p)
    BY <1>4 DEF TakenForSsh
  <2>6. Exempt(p, k)
    <3> SUFFICES ASSUME ~Exempt(p, k) PROVE FALSE
      OBVIOUS
    <3>1. Checked(p, read, k)
      BY <2>1, <2>3, <2>5, <1>3, <1>4, HostChecked
    <3> QED
      BY <2>4, <3>1 DEF Checked
  <2>7. ~ByBypass(v, k)
    <3> SUFFICES ASSUME NEW net \in v.BYPASS_SOURCE_IPS, k.src \in net PROVE FALSE
      BY DEF ByBypass
    <3>1. a \in net /\ a \in V4
      BY <2>1, <1>9
    <3>2. net \in white
      BY <3>1, <1>5
    <3> QED
      BY <3>1, <3>2, <1>6, <1>11
  <2>8. \E g \in p.access.host : ByGrant(g, k)
    BY <2>1, <2>2, <2>6, <2>7 DEF Exempt
  <2> QED
    BY <2>8 DEF k
<1> QED
  BY <1>7, <1>10, <1>11 DEF Told

\* GeoToolAgrees.  What the tool allows passes the gate of the policy, or may bypass it, and
\* no rule ahead of the games refuses a query; what it denies the gate drops, and nothing
\* exempts it but a grant.
THEOREM GeoToolSafe == PolicySpec => []GeoToolAgrees
<1>1. RecordInv /\ Applied => GeoToolAgrees
  BY ToolRight DEF GeoToolAgrees
<1> QED
  BY <1>1, RecordKept, AppliedKept, PTL

(***************************************************************************)
(* Setting the options of some modules                                     *)
(***************************************************************************)
\* A list for packets to some ports.
Guarded(s, ports) == IsList(s) /\ \A r \in Members(s) : "dport" \in DOMAIN r.on /\ r.on["dport"] \subseteq ports

LEMMA GuardedRule ==
  ASSUME NEW ports, NEW on, "dport" \in DOMAIN on, on["dport"] \subseteq ports
  PROVE  /\ \A to : Guarded(<<Rule(on, to)>>, ports)
         /\ \A chain : Guarded(<<Jump(on, chain)>>, ports)
<1>1. ASSUME NEW to PROVE Guarded(<<Rule(on, to)>>, ports)
  <2> DEFINE a == Rule(on, to)
  <2>1. a.on = on
    BY RuleIs
  <2> HIDE DEF a
  <2> QED
    BY <2>1, OneList DEF Guarded, a
<1>2. ASSUME NEW chain PROVE Guarded(<<Jump(on, chain)>>, ports)
  <2> DEFINE a == Jump(on, chain)
  <2>1. a.on = on
    BY JumpIs
  <2> HIDE DEF a
  <2> QED
    BY <2>1, OneList DEF Guarded, a
<1> QED
  BY <1>1, <1>2

LEMMA GuardedThen ==
  ASSUME NEW ports, NEW s, NEW t, Guarded(s, ports), Guarded(t, ports)
  PROVE  Guarded(s \o t, ports)
BY Joined DEF Guarded

LEMMA GuardedOnly ==
  ASSUME NEW ports, NEW condition, NEW s, Guarded(s, ports)
  PROVE  Guarded(Only(condition, s), ports)
BY OnlyList DEF Guarded

LEMMA GuardedMore ==
  ASSUME NEW ports, NEW more, ports \subseteq more, NEW s, Guarded(s, ports)
  PROVE  Guarded(s, more)
BY DEF Guarded

LEMMA GuardedBoth ==
  ASSUME NEW ports, NEW on, NEW s, IsList(s),
         \/ "dport" \in DOMAIN on /\ on["dport"] \subseteq ports
         \/ "dport" \notin DOMAIN on /\ Guarded(s, ports)
  PROVE  Guarded(Both(on, s), ports)
<1> DEFINE t == Both(on, s)
<1>1. IsList(t) /\ DOMAIN t = DOMAIN s
  BY BothList DEF Both
<1>2. \A i \in DOMAIN s : t[i].on = on @@ s[i].on
  BY DEF Both
<1> HIDE DEF t
<1>3. ASSUME NEW i \in DOMAIN s PROVE "dport" \in DOMAIN t[i].on /\ t[i].on["dport"] \subseteq ports
  <2> DEFINE own == s[i].on
  <2>1. t[i].on = on @@ own
    BY <1>2
  <2>2. CASE "dport" \in DOMAIN on /\ on["dport"] \subseteq ports
    <3> HIDE DEF own
    <3>1. "dport" \in DOMAIN (on @@ own) /\ (on @@ own)["dport"] = on["dport"]
      BY <2>2, Left
    <3> QED
      BY <2>1, <2>2, <3>1
  <2>3. CASE "dport" \notin DOMAIN on /\ Guarded(s, ports)
    <3>1. "dport" \in DOMAIN own /\ own["dport"] \subseteq ports
      BY <2>3 DEF Guarded, Members
    <3> HIDE DEF own
    <3>2. "dport" \in DOMAIN (on @@ own) /\ (on @@ own)["dport"] = own["dport"]
      BY <2>3, <3>1, Right
    <3> QED
      BY <2>1, <3>1, <3>2
  <2> QED
    BY <2>2, <2>3
<1> QED
  BY <1>1, <1>3 DEF Guarded, Members, t

LEMMA PortsOn ==
  ASSUME NEW ports
  PROVE  /\ "dport" \in DOMAIN Tcp(ports) /\ Tcp(ports)["dport"] = ports
         /\ "dport" \in DOMAIN Udp(ports) /\ Udp(ports)["dport"] = ports
         /\ \A more : "dport" \in DOMAIN (Udp(ports) @@ more) /\ (Udp(ports) @@ more)["dport"] = ports
<1>1. /\ "dport" \in DOMAIN Tcp(ports) /\ Tcp(ports)["dport"] = ports
      /\ "dport" \in DOMAIN Udp(ports) /\ Udp(ports)["dport"] = ports
  BY DEF Tcp, Udp
<1> DEFINE udp == Udp(ports)
<1> HIDE DEF udp
<1>2. "dport" \in DOMAIN udp /\ udp["dport"] = ports
  BY <1>1 DEF udp
<1>3. \A more : "dport" \in DOMAIN (udp @@ more) /\ (udp @@ more)["dport"] = ports
  BY <1>2, Left
<1> QED
  BY <1>1, <1>3 DEF udp

LEMMA TcpGuarded ==
  ASSUME NEW nft, NEW v
  PROVE  /\ Guarded(AllowlistRules(v), v.BYPASS_TCP_PORTS \cup v.BYPASS_UDP_PORTS)
         /\ Guarded(SshRules(v), v.SSH_PORT) /\ Guarded(AdminOnly(v, SshRules(v)), v.SSH_PORT)
         /\ Guarded(RconRules(nft, v), v.L4D2_GAMESERVER_TCP_PORTS)
         /\ Guarded(WebRules(v), v.HTTP_HTTPS_PORTS)
<1>1. Guarded(AllowlistRules(v), v.BYPASS_TCP_PORTS \cup v.BYPASS_UDP_PORTS)
  <2> DEFINE all == v.BYPASS_TCP_PORTS \cup v.BYPASS_UDP_PORTS
             udp == Udp(v.BYPASS_UDP_PORTS)
             tcp == Tcp(v.BYPASS_TCP_PORTS)
  <2>1. "dport" \in DOMAIN udp /\ udp["dport"] \subseteq all /\ "dport" \in DOMAIN tcp /\ tcp["dport"] \subseteq all
    BY PortsOn
  <2> HIDE DEF all, udp, tcp
  <2>2. Guarded(<<Rule(udp, "accept")>>, all) /\ Guarded(<<Rule(tcp, "accept")>>, all)
    BY <2>1, GuardedRule
  <2>3. /\ Guarded(Only(v.BYPASS_UDP_PORTS # {}, <<Rule(udp, "accept")>>), all)
        /\ Guarded(Only(v.BYPASS_TCP_PORTS # {}, <<Rule(tcp, "accept")>>), all)
    BY <2>2, GuardedOnly
  <2> QED
    BY <2>3, GuardedThen DEF AllowlistRules, all, udp, tcp
<1>2. Guarded(SshRules(v), v.SSH_PORT)
  BY PortsOn, OneList, GuardedBoth DEF SshRules
<1>3. Guarded(AdminOnly(v, SshRules(v)), v.SSH_PORT)
  <2> DEFINE s == SshRules(v)
             on == [src |-> UNION v.ADMIN_SOURCES]
  <2>1. "dport" \notin DOMAIN on
    OBVIOUS
  <2> HIDE DEF s, on
  <2>2. Guarded(s, v.SSH_PORT)
    BY <1>2 DEF s
  <2>3. Guarded(Both(on, s), v.SSH_PORT)
    BY <2>1, <2>2, GuardedBoth DEF Guarded
  <2> QED
    BY <2>2, <2>3 DEF AdminOnly, s, on
<1>4. Guarded(RconRules(nft, v), v.L4D2_GAMESERVER_TCP_PORTS)
  BY PortsOn, OneList, GuardedBoth DEF RconRules
<1>5. Guarded(WebRules(v), v.HTTP_HTTPS_PORTS)
  BY PortsOn, OneList, GuardedBoth DEF WebRules
<1> QED
  BY <1>1, <1>2, <1>3, <1>4, <1>5

LEMMA UdpGuarded ==
  ASSUME NEW nft, NEW v, NEW names
  PROVE  /\ Guarded(GameRules(nft, v, Host), AllGamePorts(v))
         /\ Guarded(GeoRules(v, names), AllGamePorts(v)) /\ Guarded(GeoDeniesV6(v, names), AllGamePorts(v))
<1> DEFINE all == AllGamePorts(v)
           game == v.L4D2_GAMESERVER_UDP_PORTS
           tv == v.L4D2_SOURCETV_UDP_PORTS
<1>1. game \subseteq all /\ tv \subseteq all
  BY DEF AllGamePorts
<1>2. Guarded(ValidationRules(v), all)
  <2> DEFINE sizes == <<Rule([size |-> {"empty"}], "drop"), Rule([size |-> {"huge"}], "drop")>>
                      \o Only(v.ENABLE_MALFORMED_FILTER, <<Rule([size |-> {"malformed"}], "drop")>>)
  <2>1. ValidationRules(v) = Both(Udp(game), sizes) \o Both(Udp(tv), sizes)
    BY DEF ValidationRules
  <2>2. IsList(sizes)
    BY OneList, OnlyList, Joined
  <2> HIDE DEF sizes, all, game, tv
  <2>3. Guarded(Both(Udp(game), sizes), all) /\ Guarded(Both(Udp(tv), sizes), all)
    BY <1>1, <2>2, PortsOn, GuardedBoth
  <2> QED
    BY <2>1, <2>3, GuardedThen
<1>3. Guarded(QueryRules(nft, v, Host), all)
  <2> DEFINE login == (Udp(game) @@ Short) @@ Signature({"71"})
             asks == <<Jump(Signature({"54"}), <<Host, "a2s_limit">>)>>
                     \o Only(v.ENABLE_STEAM_GROUP_FILTER,
                             <<Jump(Signature(SteamSignatures(nft, v)), <<Host, "steam_group_limit">>)>>)
             verb == [verb |-> {"connect", "reserve"}]
             named == <<Jump(verb @@ login, <<Host, "login_limit">>), Rule(login, "drop")>>
             any == <<Jump(login, <<Host, "login_limit">>)>>
  <2>1. QueryRules(nft, v, Host) = Both(Udp(all), asks) \o (IF nft THEN named ELSE any)
    BY DEF QueryRules
  <2>2. IsList(asks)
    BY OneList, OnlyList, Joined
  <2>3. "dport" \in DOMAIN login /\ login["dport"] = game
    <3> DEFINE first == Udp(game) @@ Short
               sig == Signature({"71"})
    <3>1. "dport" \in DOMAIN first /\ first["dport"] = game
      BY PortsOn
    <3>2. login = first @@ sig
      OBVIOUS
    <3> HIDE DEF first, sig, login
    <3> QED
      BY <3>1, <3>2, Left
  <2>4. "dport" \notin DOMAIN verb
    OBVIOUS
  <2> HIDE DEF login, asks, verb, all, game, tv
  <2>5. "dport" \in DOMAIN (verb @@ login) /\ (verb @@ login)["dport"] = game
    BY <2>3, <2>4, Right
  <2> DEFINE ja == Jump(verb @@ login, <<Host, "login_limit">>)
             rb == Rule(login, "drop")
  <2>6. ja.on = verb @@ login /\ rb.on = login
    BY JumpIs, RuleIs
  <2>7. Guarded(any, all)
    BY <1>1, <2>3, GuardedRule
  <2> HIDE DEF ja, rb, any
  <2>10. IsList(<<ja, rb>>) /\ Members(<<ja, rb>>) = {ja, rb}
    BY OneList
  <2>11. named = <<ja, rb>>
    BY DEF ja, rb
  <2> HIDE DEF named
  <2>8. Guarded(named, all)
    BY <1>1, <2>3, <2>5, <2>6, <2>10, <2>11 DEF Guarded
  <2>9. Guarded(Both(Udp(all), asks), all)
    BY <2>2, PortsOn, GuardedBoth
  <2> QED
    BY <2>1, <2>7, <2>8, <2>9, GuardedThen
<1>4. Guarded(BaseRules(v, Host), all)
  <2> DEFINE est == [state |-> {"established"}]
             a == Udp(game) @@ New
             b == Udp(tv) @@ New
             c == Udp(game) @@ est
             d == Udp(tv) @@ est
             ja == Jump(a, <<Host, "udp_new_limit">>)
             jb == Jump(b, <<Host, "udp_new_limit_sourcetv">>)
             jc == Jump(c, <<Host, "udp_established_limit">>)
             jd == Jump(d, <<Host, "udp_established_limit">>)
  <2>1. BaseRules(v, Host) = <<ja, jb, jc, jd>>
    BY DEF BaseRules
  <2>2. /\ "dport" \in DOMAIN a /\ a["dport"] = game /\ "dport" \in DOMAIN b /\ b["dport"] = tv
        /\ "dport" \in DOMAIN c /\ c["dport"] = game /\ "dport" \in DOMAIN d /\ d["dport"] = tv
    BY PortsOn
  <2>3. ja.on = a /\ jb.on = b /\ jc.on = c /\ jd.on = d
    BY JumpIs
  <2> HIDE DEF a, b, c, d, ja, jb, jc, jd, all, game, tv
  <2>4. IsList(<<ja, jb, jc, jd>>) /\ Members(<<ja, jb, jc, jd>>) = {ja, jb, jc, jd}
    BY OneList
  <2> QED
    BY <1>1, <2>1, <2>2, <2>3, <2>4 DEF Guarded
<1>5. Guarded(GameRules(nft, v, Host), all)
  <2> HIDE DEF all
  <2> QED
    BY <1>2, <1>3, <1>4, GuardedThen DEF GameRules
<1>6. Guarded(GeoRules(v, names), all) /\ Guarded(GeoDeniesV6(v, names), all)
  <2> DEFINE four == [fam |-> {4}]
             six == [fam |-> {6}]
             udp == Udp(all)
             on4 == four @@ udp
             on6 == six @@ udp
  <2>1. "dport" \in DOMAIN udp /\ udp["dport"] = all
    BY PortsOn
  <2>2. "dport" \notin DOMAIN four /\ "dport" \notin DOMAIN six
    OBVIOUS
  <2> HIDE DEF four, six, udp
  <2>3. "dport" \in DOMAIN on4 /\ on4["dport"] = all /\ "dport" \in DOMAIN on6 /\ on6["dport"] = all
    BY <2>1, <2>2, Right
  <2> HIDE DEF on4, on6
  <2>4. Guarded(<<Jump(on4, Gate)>>, all) /\ Guarded(<<Rule(on6, "drop")>>, all)
    BY <2>3, GuardedRule
  <2>5. /\ Guarded(Only(GeoOn(v, names), <<Jump(on4, Gate)>>), all)
        /\ Guarded(Only(GeoOn(v, names) /\ v.GEO_IPV6_POLICY = "deny", <<Rule(on6, "drop")>>), all)
    BY <2>4, GuardedOnly
  <2> QED
    BY <2>5 DEF GeoRules, GeoDeniesV6, Gate, on4, on6, four, six, udp
<1> QED
  BY <1>5, <1>6

\* Nothing in a list for other ports decides the packet, with administrative sources or without.
LEMMA GuardedAside ==
  ASSUME NEW ports, NEW s, Guarded(s, ports), NEW k, k.dport \notin ports, NEW nft, NEW v, NEW says
  PROVE  IsList(Adapted(nft, v, s)) /\ Passed(Adapted(nft, v, s), k, says)
<1> DEFINE t == Adapted(nft, v, s)
<1>1. IsList(s)
  BY DEF Guarded
<1>2. /\ IsList(t) /\ DOMAIN t = DOMAIN s
      /\ \A i \in DOMAIN s : Matches(t[i], k) => Fits(s[i], k, Where)
  BY <1>1, AdaptedIs
<1> HIDE DEF t
<1>3. ASSUME NEW i \in DOMAIN s, Fits(s[i], k, Where) PROVE FALSE
  <2>1. "dport" \in DOMAIN s[i].on /\ s[i].on["dport"] \subseteq ports
    BY DEF Guarded, Members
  <2>2. "dport" \in DOMAIN s[i].on \ Where
    BY <2>1 DEF Where
  <2>3. k["dport"] \in s[i].on["dport"]
    BY <1>3, <2>2 DEF Fits
  <2> QED
    BY <2>1, <2>3
<1> QED
  BY <1>2, <1>3 DEF Passed, Members, Decides, t

\* Rules for other ports than SSH's are left as they are.
LEMMA AdaptedLeft ==
  ASSUME NEW ports, NEW s, Guarded(s, ports), NEW k, NEW nft, NEW v,
         nft \/ ("SSH_PORT" \in DOMAIN v => k.dport \notin v.SSH_PORT), NEW i \in DOMAIN s
  PROVE  Matches(Adapted(nft, v, s)[i], k) <=> Matches(s[i], k)
<1> DEFINE t == Adapted(nft, v, s)
           r == s[i]
           only == AdminOnly(v, <<r>>)
           src == [src |-> UNION v.ADMIN_SOURCES]
<1>1. CASE nft
  BY <1>1 DEF Adapted
<1>2. CASE ~nft
  <2>1. "dport" \in DOMAIN r.on
    BY DEF Guarded, Members
  <2>2. t[i] = IF "SSH_PORT" \in DOMAIN v /\ Get(r.on, "dport", {}) = v.SSH_PORT THEN only[1] ELSE r
    BY <1>2 DEF Adapted, AdminByPort
  <2>3. CASE ~("SSH_PORT" \in DOMAIN v /\ Get(r.on, "dport", {}) = v.SSH_PORT)
    BY <2>2, <2>3
  <2>4. CASE "SSH_PORT" \in DOMAIN v /\ Get(r.on, "dport", {}) = v.SSH_PORT
    <3>1. k.dport \notin r.on["dport"]
      BY <1>2, <2>1, <2>4 DEF Get
    <3>2. only[1] = r \/ only[1].on = src @@ r.on
      BY DEF AdminOnly, Both
    <3>3. "dport" \notin DOMAIN src
      OBVIOUS
    <3> HIDE DEF only, src, t
    <3>4. t[i] = r \/ ("dport" \in DOMAIN t[i].on /\ t[i].on["dport"] = r.on["dport"])
      <4>1. t[i] = only[1]
        BY <2>2, <2>4
      <4> DEFINE own == r.on
      <4> HIDE DEF own, r
      <4>2. "dport" \in DOMAIN own
        BY <2>1 DEF own
      <4>3. "dport" \in DOMAIN (src @@ own) /\ (src @@ own)["dport"] = own["dport"]
        BY <3>3, <4>2, Right
      <4> QED
        BY <3>2, <4>1, <4>3 DEF own
    <3>5. ~Matches(r, k)
      BY <2>1, <3>1 DEF Matches
    <3>6. ~Matches(t[i], k)
      BY <2>1, <3>1, <3>4 DEF Matches
    <3> QED
      BY <3>5, <3>6 DEF t, r
  <2> QED
    BY <2>3, <2>4
<1> QED
  BY <1>1, <1>2

\* Two versions of a list make the same of a packet when nothing in them changed, or when they
\* are for other ports.
Unaware(v, k) == "SSH_PORT" \in DOMAIN v => k.dport \notin v.SSH_PORT
SameAdmin(v, w) == v.ADMIN_SOURCES = w.ADMIN_SOURCES /\ ("SSH_PORT" \in DOMAIN v <=> "SSH_PORT" \in DOMAIN w)
                   /\ ("SSH_PORT" \in DOMAIN v => v.SSH_PORT = w.SSH_PORT)

LEMMA AdaptedTwice ==
  ASSUME NEW nft, NEW v, NEW w, NEW ports, NEW s, Guarded(s, ports), NEW k, NEW one, NEW two,
         nft \/ SameAdmin(v, w) \/ (Unaware(v, k) /\ Unaware(w, k)),
         \A r \in Members(s) : r.to = "jump" => one[r.chain] = two[r.chain]
  PROVE  Same(Adapted(nft, v, s), one, Adapted(nft, w, s), two, k)
<1> DEFINE a == Adapted(nft, v, s)
           b == Adapted(nft, w, s)
<1>1. IsList(s)
  BY DEF Guarded
<1>2. /\ IsList(a) /\ DOMAIN a = DOMAIN s /\ IsList(b) /\ DOMAIN b = DOMAIN s
      /\ \A i \in DOMAIN s : /\ a[i].to = s[i].to /\ a[i].chain = s[i].chain
                             /\ b[i].to = s[i].to /\ b[i].chain = s[i].chain
  BY <1>1, AdaptedIs
<1>3. \A i \in DOMAIN s : Matches(a[i], k) <=> Matches(b[i], k)
  <2>1. CASE nft \/ (Unaware(v, k) /\ Unaware(w, k))
    <3>1. \A i \in DOMAIN s : Matches(a[i], k) <=> Matches(s[i], k)
      BY <2>1, AdaptedLeft DEF Unaware
    <3>2. \A i \in DOMAIN s : Matches(b[i], k) <=> Matches(s[i], k)
      BY <2>1, AdaptedLeft DEF Unaware
    <3> QED
      BY <3>1, <3>2
  <2>2. CASE SameAdmin(v, w)
    <3>1. \A r : AdminOnly(v, <<r>>) = AdminOnly(w, <<r>>)
      BY <2>2 DEF AdminOnly, SameAdmin
    <3>2. AdminByPort(v, s) = AdminByPort(w, s)
      BY <2>2, <3>1 DEF AdminByPort, SameAdmin
    <3> QED
      BY <3>2 DEF Adapted
  <2> QED
    BY <2>1, <2>2
<1>4. \A i \in DOMAIN s : a[i].to = "jump" => one[a[i].chain] = two[a[i].chain]
  BY <1>2 DEF Members
<1> HIDE DEF a, b
<1>5. Same(a, one, b, two, k)
  BY <1>2, <1>3, <1>4, SameRules
<1> QED
  BY <1>5 DEF a, b

LEMMA BlockSame ==
  ASSUME NEW nft, NEW v, NEW w, NEW p, NEW q, NEW s, NEW t, Guarded(s, p), Guarded(t, q), NEW k, NEW one, NEW two,
         nft \/ SameAdmin(v, w) \/ (Unaware(v, k) /\ Unaware(w, k)),
         \/ s = t /\ \A r \in Members(s) : r.to = "jump" => one[r.chain] = two[r.chain]
         \/ k.dport \notin p /\ k.dport \notin q
  PROVE  Same(Adapted(nft, v, s), one, Adapted(nft, w, t), two, k)
<1>1. CASE s = t /\ \A r \in Members(s) : r.to = "jump" => one[r.chain] = two[r.chain]
  BY <1>1, AdaptedTwice
<1>2. CASE k.dport \notin p /\ k.dport \notin q
  <2> DEFINE a == Adapted(nft, v, s)
             b == Adapted(nft, w, t)
  <2>1. IsList(a) /\ Passed(a, k, one)
    BY <1>2, GuardedAside
  <2>2. IsList(b) /\ Passed(b, k, two)
    BY <1>2, GuardedAside
  <2> HIDE DEF a, b
  <2>3. Same(a, one, b, two, k)
    BY <2>1, <2>2, DecidingIs DEF Same
  <2> QED
    BY <2>3 DEF a, b
<1> QED
  BY <1>1, <1>2

(***************************************************************************)
(* Whose an option is                                                      *)
(***************************************************************************)
UdpKeys ==
  {"L4D2_GAMESERVER_UDP_PORTS", "L4D2_SOURCETV_UDP_PORTS", "ENABLE_MALFORMED_FILTER", "A2S_RATE", "A2S_BURST",
   "L4D2_LOGIN_RATE", "L4D2_LOGIN_BURST", "ENABLE_STEAM_GROUP_FILTER", "STEAM_GROUP_SIGNATURES",
   "ENABLE_UDP_NEW_FFFFFFFF_BYPASS", "ENABLE_UDP_NEW_LARGE_FILTER", "GEO_POLICY_MODE", "GEO_POLICY_ALLOWED_COUNTRIES",
   "GEO_POLICY_DENIED_COUNTRIES"}
TcpOf(m) ==
  CASE m = "tcp_ssh" -> {"SSH_PORT"} [] m = "http_https_protect" -> {"HTTP_HTTPS_PORTS"}
    [] m = "l4d2_tcp_protect" -> {"L4D2_GAMESERVER_TCP_PORTS"} [] m = "allowlist_ports" -> {"BYPASS_TCP_PORTS", "BYPASS_UDP_PORTS"}
    [] m = "openvpn_server" -> {"OVPNSRV_PROTO", "OVPNSRV_PORT"} [] m = "whitelist" -> Lists [] OTHER -> {}
TcpModules == {"tcp_ssh", "http_https_protect", "l4d2_tcp_protect", "allowlist_ports", "openvpn_server", "whitelist"}
UdpModules == Game \cup {"geo_country_filter"}

LEMMA DefaultDomains ==
  /\ DOMAIN DefaultsOf("tcp_ssh") = {"SSH_PORT", "SSH_RATE", "SSH_BURST"}
  /\ DOMAIN DefaultsOf("http_https_protect") =
       {"HTTP_HTTPS_PORTS", "HTTP_HTTPS_RATE", "HTTP_HTTPS_BURST", "NFT_HTTP_HTTPS_METER_TIMEOUT"}
  /\ DOMAIN DefaultsOf("allowlist_ports") = {"BYPASS_TCP_PORTS", "BYPASS_UDP_PORTS"}
  /\ DOMAIN DefaultsOf("l4d2_tcp_protect") = {"L4D2_GAMESERVER_TCP_PORTS"}
  /\ DOMAIN DefaultsOf("openvpn_server") =
       {"OVPNSRV_PROTO", "OVPNSRV_PORT", "OVPNSRV_SUBNET", "OVPNSRV_INTERFACE", "OVPNSRV_LAN_SUBNET",
        "OVPNSRV_LAN_INTERFACE", "OVPNSRV_ENABLE_NAT"}
  /\ DOMAIN DefaultsOf("openvpn_sitetosite") =
       {"OVPNS2S_ENABLE_NAT", "OVPNS2S_ALLOW_LAN", "OVPNS2S_LOCAL_INTERFACE", "OVPNS2S_ROUTER_ALIAS",
        "OVPNS2S_ROUTER_ALIAS_SNAT"}
  /\ DOMAIN DefaultsOf("whitelist") = {}
BY DEF DefaultsOf

LEMMA GameDomains ==
  LET ports == {"L4D2_GAMESERVER_UDP_PORTS", "L4D2_SOURCETV_UDP_PORTS"} IN
  /\ DOMAIN DefaultsOf("l4d2_packet_validation") = ports \cup {"ENABLE_MALFORMED_FILTER"}
  /\ DOMAIN DefaultsOf("l4d2_a2s_filters") = ports \cup
       {"A2S_RATE", "A2S_BURST", "L4D2_LOGIN_RATE", "L4D2_LOGIN_BURST", "ENABLE_STEAM_GROUP_FILTER",
        "STEAM_GROUP_SIGNATURES", "NFT_A2S_METER_TIMEOUT", "NFT_LOGIN_METER_TIMEOUT"}
  /\ DOMAIN DefaultsOf("l4d2_udp_base") = ports \cup
       {"L4D2_CMD_LIMIT", "UDP_NEW_RATE", "UDP_NEW_BURST", "ENABLE_STEAM_GROUP_FILTER", "STEAM_GROUP_SIGNATURES",
        "ENABLE_UDP_NEW_FFFFFFFF_BYPASS", "ENABLE_UDP_NEW_LARGE_FILTER", "NFT_UDP_NEW_METER_TIMEOUT",
        "NFT_UDP_EST_METER_TIMEOUT"}
  /\ DOMAIN DefaultsOf("geo_country_filter") = ports \cup
       {"GEO_POLICY_MODE", "GEO_POLICY_ALLOWED_COUNTRIES", "GEO_POLICY_DENIED_COUNTRIES"}
<1> DEFINE ports == {"L4D2_GAMESERVER_UDP_PORTS", "L4D2_SOURCETV_UDP_PORTS"}
<1>1. DOMAIN DefaultsOf("l4d2_packet_validation") = ports \cup {"ENABLE_MALFORMED_FILTER"}
  BY DEF DefaultsOf, GamePorts, @@
<1>2. DOMAIN DefaultsOf("l4d2_a2s_filters") = ports \cup
        {"A2S_RATE", "A2S_BURST", "L4D2_LOGIN_RATE", "L4D2_LOGIN_BURST", "ENABLE_STEAM_GROUP_FILTER",
         "STEAM_GROUP_SIGNATURES", "NFT_A2S_METER_TIMEOUT", "NFT_LOGIN_METER_TIMEOUT"}
  BY DEF DefaultsOf, GamePorts, @@
<1>3. DOMAIN DefaultsOf("l4d2_udp_base") = ports \cup
        {"L4D2_CMD_LIMIT", "UDP_NEW_RATE", "UDP_NEW_BURST", "ENABLE_STEAM_GROUP_FILTER", "STEAM_GROUP_SIGNATURES",
         "ENABLE_UDP_NEW_FFFFFFFF_BYPASS", "ENABLE_UDP_NEW_LARGE_FILTER", "NFT_UDP_NEW_METER_TIMEOUT",
         "NFT_UDP_EST_METER_TIMEOUT"}
  BY DEF DefaultsOf, GamePorts, @@
<1>4. DOMAIN DefaultsOf("geo_country_filter") = ports \cup
        {"GEO_POLICY_MODE", "GEO_POLICY_ALLOWED_COUNTRIES", "GEO_POLICY_DENIED_COUNTRIES"}
  BY DEF DefaultsOf, GamePorts, @@
<1> QED
  BY <1>1, <1>2, <1>3, <1>4

\* What may be set along with a module is an option of its own: of one module for the
\* services of TCP, of the game modules and the filter for the rest, of none for the core.
LEMMA OwnerIs ==
  ASSUME NEW b, NEW m \in Catalog(b), NEW k \in VarsOf(b, m)
  PROVE  /\ \A n \in TcpModules : k \in TcpOf(n) => m = n
         /\ k \in UdpKeys => m \in UdpModules
         /\ k \notin (DOMAIN CoreDefaults \ Lists) \cup {"TYPECHAIN"}
         /\ k \in DOMAIN DefaultsOf(m) \cup RequiredOf(m) \cup Lists
<1>1. k \in DOMAIN DefaultsOf(m) \cup RequiredOf(m) \cup (IF m = "whitelist" THEN Lists ELSE {})
  BY DEF VarsOf, RequiredOf, Lists
<1>2. m \in Game \cup {"whitelist", "allowlist_ports", "openvpn_server", "openvpn_sitetosite", "tcp_ssh", "l4d2_tcp_protect",
                       "http_https_protect", "geo_country_filter"}
  BY DEF Catalog
<1>3. DOMAIN CoreDefaults =
        {"PROFILE", "MODULES_ONLY", "MODULES_EXCLUDE", "FAMILY_POLICY", "HOST_SERVICES", "ROUTED_POLICY",
         "CONTAINER_POLICY", "ACCESS_POLICY", "PRIVILEGED_BYPASS", "SSH_METER_TIMEOUT", "ADMIN_SOURCES",
         "BYPASS_SOURCE_IPS", "BYPASS_SOURCE_DOMAINS", "DNS_ALLOWED_CIDRS", "GEO_IPV6_POLICY"}
  BY DEF CoreDefaults
<1>4. RequiredOf(m) = {} \/ (m = "openvpn_sitetosite" /\
        RequiredOf(m) = {"OVPNS2S_INTERFACE", "OVPNS2S_LOCAL_SUBNETS", "OVPNS2S_REMOTE_SUBNETS"})
  BY DEF RequiredOf
<1>5. k \in DOMAIN DefaultsOf(m) \cup RequiredOf(m) \cup Lists
  BY <1>1
<1>6. CASE m \in Game
  BY <1>1, <1>3, <1>4, <1>6, GameDomains DEF Game, UdpModules, UdpKeys, TcpModules, TcpOf, Lists
<1>7. CASE m \notin Game
  BY <1>1, <1>2, <1>3, <1>4, <1>7, GameDomains, DefaultDomains DEF Game, UdpModules, UdpKeys, TcpModules, TcpOf, Lists
<1> QED
  BY <1>5, <1>6, <1>7

(***************************************************************************)
(* What setting options makes of a policy                                  *)
(***************************************************************************)
Vars(b, S) == UNION {VarsOf(b, m) : m \in S}
\* Only options of some modules differ, and what follows from them.
Respelt(b, v, w, S) ==
  /\ \A k : k \notin Aside \cup Vars(b, S) => (k \in DOMAIN v <=> k \in DOMAIN w) /\ (k \in DOMAIN v => v[k] = w[k])
  /\ "whitelist" \notin S => w.BYPASS_SOURCE_IPS = v.BYPASS_SOURCE_IPS

\* Where no default is missing, none is added.
LEMMA DefaultsNone ==
  ASSUME NEW v, NEW names, \A m \in names : DOMAIN DefaultsOf(m) \subseteq DOMAIN v,
         "UDP_NEW_RATE" \in DOMAIN v => {"SOURCETV_UDP_NEW_RATE", "SOURCETV_UDP_NEW_BURST"} \subseteq DOMAIN v
  PROVE  DOMAIN WithDefaults(v, names) = DOMAIN v /\ \A k \in DOMAIN v : WithDefaults(v, names)[k] = v[k]
<1> DEFINE keys == UNION {DOMAIN DefaultsOf(m) : m \in names}
           own == [k \in keys |-> DefaultsOf(CHOOSE m \in names : k \in DOMAIN DefaultsOf(m))[k]]
           filled == v @@ own
           tv == IF "UDP_NEW_RATE" \in DOMAIN filled
                   THEN [SOURCETV_UDP_NEW_RATE |-> filled.UDP_NEW_RATE, SOURCETV_UDP_NEW_BURST |-> filled.UDP_NEW_BURST]
                   ELSE << >>
<1>1. WithDefaults(v, names) = filled @@ tv
  BY DEF WithDefaults
<1>2. DOMAIN own \subseteq DOMAIN v
  OBVIOUS
<1> HIDE DEF own
<1>3. DOMAIN filled = DOMAIN v
  BY <1>2, Together
<1> HIDE DEF filled
<1>4. DOMAIN tv \subseteq DOMAIN v
  BY <1>3
<1> HIDE DEF tv
<1>5. DOMAIN WithDefaults(v, names) = DOMAIN v
  <2>1. DOMAIN (filled @@ tv) = DOMAIN filled \cup DOMAIN tv
    BY Together, Zenon
  <2> QED
    BY <1>1, <1>3, <1>4, <2>1
<1>6. \A k \in DOMAIN v : WithDefaults(v, names)[k] = v[k]
  BY DefaultsKeep, Zenon
<1> QED
  BY <1>5, <1>6

\* Options of some modules set on complete options change those options, and timeouts at most.
LEMMA OptionsSet ==
  ASSUME NEW v, NEW names, Filled(v, names), NEW b, names \subseteq Catalog(b), names \cap v.MODULES_EXCLUDE = {},
         NEW S, S \subseteq names, NEW set, DOMAIN set \subseteq Vars(b, S), NEW access, NEW explicit, NEW f,
         NEW c \in Configured(Normalized(b, set @@ v, names, access, explicit), f)
  PROVE  c.backend = b /\ c.selected = names /\ c.access = access /\ Respelt(b, v, c.config, S)
<1> DEFINE r == Normalized(b, set @@ v, names, access, explicit)
           v0 == Translated(r.supplied) @@ CoreDefaults
           listed == Selection(r, v0)
           v1 == WithDefaults(v0, listed)
           x == Fitted(v1, listed, r.explicit)
           w == Resolved(x, f)
           given == IF r.normalized THEN r.access ELSE f.access[v0.ACCESS_POLICY]
<1>1. /\ r.backend = b /\ r.only = <<names>> /\ r.skip = <<>> /\ r.normalized /\ r.access = access
      /\ r.supplied = [ACCESS_POLICY |-> ""] @@ (set @@ v)
  BY Zenon DEF Normalized
<1>2. c = [backend |-> r.backend, config |-> w, selected |-> listed, access |-> given]
      /\ "TYPECHAIN" \notin DOMAIN r.supplied
  <2>1. c = [backend |-> r.backend, config |-> w, selected |-> listed, access |-> given]
    BY DEF Configured
  <2>2. r.normalized => "TYPECHAIN" \notin DOMAIN r.supplied
    BY Zenon DEF Configured
  <2> QED
    BY <1>1, <2>1, <2>2
<1>3. /\ \A k \in DOMAIN set : k \in DOMAIN v /\ k \notin (DOMAIN CoreDefaults \ Lists) \cup {"TYPECHAIN"}
      /\ "whitelist" \notin S => DOMAIN set \cap Lists = {}
  <2> SUFFICES ASSUME NEW k \in DOMAIN set
               PROVE  /\ k \in DOMAIN v /\ k \notin (DOMAIN CoreDefaults \ Lists) \cup {"TYPECHAIN"}
                      /\ "whitelist" \notin S => k \notin Lists
    OBVIOUS
  <2>1. PICK m \in S : k \in VarsOf(b, m)
    BY DEF Vars
  <2>2. m \in Catalog(b)
    OBVIOUS
  <2>3. k \notin (DOMAIN CoreDefaults \ Lists) \cup {"TYPECHAIN"} /\ k \in DOMAIN DefaultsOf(m) \cup RequiredOf(m) \cup Lists
    BY <2>1, <2>2, OwnerIs
  <2>4. Lists \subseteq DOMAIN v
    BY Core DEF Filled
  <2>5. k \in DOMAIN v
    BY <2>1, <2>3, <2>4 DEF Filled
  <2>6. k \in TcpOf("whitelist") => m = "whitelist"
    BY <2>1, <2>2, OwnerIs DEF TcpModules
  <2>7. TcpOf("whitelist") = Lists
    BY DEF TcpOf
  <2> QED
    BY <2>1, <2>3, <2>5, <2>6, <2>7
<1>4. /\ DOMAIN v0 = DOMAIN v
      /\ \A k \in DOMAIN v : k \notin DOMAIN set \cup {"ACCESS_POLICY"} => v0[k] = v[k]
  <2> DEFINE acl == [ACCESS_POLICY |-> ""]
             both == set @@ v
             all == acl @@ both
  <2>1. DOMAIN acl = {"ACCESS_POLICY"} /\ "ACCESS_POLICY" \in DOMAIN v
    BY DEF Filled, CoreDefaults
  <2>12. DOMAIN both = DOMAIN v
    BY <1>3, Together
  <2>13. \A k \in DOMAIN v : k \notin DOMAIN set => both[k] = v[k]
    BY Right
  <2>2. DOMAIN both = DOMAIN v /\ \A k \in DOMAIN v : k \notin DOMAIN set => both[k] = v[k]
    BY <2>12, <2>13
  <2> HIDE DEF acl, both
  <2>10. DOMAIN all = DOMAIN v
    BY <2>1, <2>2, Together
  <2>11. \A k \in DOMAIN both : k \notin DOMAIN acl => all[k] = both[k]
    BY Right
  <2>3. DOMAIN all = DOMAIN v /\ \A k \in DOMAIN v : k \notin DOMAIN acl => all[k] = both[k]
    BY <2>2, <2>10, <2>11
  <2>4. r.supplied = all
    BY <1>1 DEF acl, both
  <2> HIDE DEF all, r
  <2>5. Translated(r.supplied) = all
    BY <1>2, <2>4, Zenon DEF Translated
  <2>6. DOMAIN CoreDefaults \subseteq DOMAIN all
    BY <2>3 DEF Filled
  <2>7. v0 = all @@ CoreDefaults
    BY <2>5
  <2>8. DOMAIN v0 = DOMAIN all
    BY <2>6, <2>7, Together
  <2>9. \A k \in DOMAIN all : v0[k] = all[k]
    BY <2>7, Left
  <2> QED
    BY <2>1, <2>2, <2>3, <2>8, <2>9
<1> HIDE DEF v0, r
<1>5. listed = names
  <2>1. "MODULES_EXCLUDE" \in DOMAIN CoreDefaults \ Lists /\ "MODULES_EXCLUDE" # "ACCESS_POLICY"
    BY DEF CoreDefaults, Lists
  <2>2. v0.MODULES_EXCLUDE = v.MODULES_EXCLUDE
    BY <1>3, <1>4, <2>1 DEF Filled
  <2>6. r.only = <<names>> /\ r.skip = <<>>
    BY <1>1, Zenon
  <2>3. Listed(r, v0) = names /\ ~FallsBack(r, v0) /\ Excluded(r, v0) = v0.MODULES_EXCLUDE
    BY <2>6 DEF Listed, Excluded, FallsBack
  <2> DEFINE profiles == UNION {Profiles[p] : p \in ChosenProfiles(r, v0)}
  <2>5. listed = (Listed(r, v0) \cup (IF FallsBack(r, v0) THEN profiles ELSE {})) \ Excluded(r, v0)
    BY DEF Selection
  <2> HIDE DEF profiles, listed
  <2>4. listed = (names \cup {}) \ v.MODULES_EXCLUDE
    BY <2>2, <2>3, <2>5
  <2> QED
    BY <2>4
<1>6. /\ \A m \in listed : DOMAIN DefaultsOf(m) \subseteq DOMAIN v0
      /\ "UDP_NEW_RATE" \in DOMAIN v0 => {"SOURCETV_UDP_NEW_RATE", "SOURCETV_UDP_NEW_BURST"} \subseteq DOMAIN v0
  BY <1>4, <1>5 DEF Filled
<1> HIDE DEF listed, v1, x, w, given
<1>7. DOMAIN v1 = DOMAIN v /\ \A k \in DOMAIN v : v1[k] = v0[k]
  BY <1>4, <1>6, DefaultsNone DEF v1
<1>8. /\ \A k \in DOMAIN v1 : k \in DOMAIN x /\ (k \notin Timeouts => x[k] = v1[k])
      /\ DOMAIN x \subseteq DOMAIN v1 \cup Timeouts
  BY FittedKeeps, FittedAdds DEF x
<1> DEFINE known == [ACCESS_POLICY |-> "", BYPASS_SOURCE_DOMAINS |-> {},
                     BYPASS_SOURCE_IPS |-> x.BYPASS_SOURCE_IPS \cup {{a} : a \in Answers(x, f)}]
<1>9. w = known @@ x
  BY Zenon DEF w, Resolved
<1>10. DOMAIN known = Lists \cup {"ACCESS_POLICY"}
       /\ known["BYPASS_SOURCE_IPS"] = x.BYPASS_SOURCE_IPS \cup {{a} : a \in Answers(x, f)}
  BY DEF Lists
<1> HIDE DEF known
<1>11. /\ DOMAIN w = DOMAIN x \cup Lists \cup {"ACCESS_POLICY"}
       /\ \A k \in DOMAIN x : k \notin Lists \cup {"ACCESS_POLICY"} => w[k] = x[k]
       /\ w.BYPASS_SOURCE_IPS = x.BYPASS_SOURCE_IPS \cup {{a} : a \in Answers(x, f)}
  <2>1. "BYPASS_SOURCE_IPS" \in DOMAIN known
    BY <1>10 DEF Lists
  <2>5. DOMAIN w = DOMAIN known \cup DOMAIN x
    BY <1>9, Together, Zenon
  <2>2. DOMAIN w = DOMAIN x \cup Lists \cup {"ACCESS_POLICY"}
    BY <1>10, <2>5
  <2>3. w["BYPASS_SOURCE_IPS"] = known["BYPASS_SOURCE_IPS"]
    BY <1>9, <2>1, Left
  <2>4. \A k \in DOMAIN x : k \notin DOMAIN known => w[k] = x[k]
    BY <1>9, Right
  <2> QED
    BY <1>10, <2>2, <2>3, <2>4
<1>12. \A k : k \notin Aside \cup Vars(b, S) => (k \in DOMAIN v <=> k \in DOMAIN w) /\ (k \in DOMAIN v => v[k] = w[k])
  BY <1>4, <1>7, <1>8, <1>11 DEF Aside
<1>13. ASSUME "whitelist" \notin S PROVE w.BYPASS_SOURCE_IPS = v.BYPASS_SOURCE_IPS
  <2>1. Lists \subseteq DOMAIN v /\ Lists \cap Timeouts = {} /\ "ACCESS_POLICY" \notin Lists
    BY Core DEF Filled, Timeouts, Lists
  <2>2. \A k \in Lists : x[k] = v[k]
    BY <1>3, <1>4, <1>7, <1>8, <1>13, <2>1
  <2>3. x.BYPASS_SOURCE_DOMAINS = {} /\ x.BYPASS_SOURCE_IPS = v.BYPASS_SOURCE_IPS
    BY <2>2 DEF Filled, Lists
  <2> QED
    BY <1>11, <2>3 DEF Answers
<1> QED
  BY <1>1, <1>2, <1>5, <1>12, <1>13 DEF Respelt, given

\* An option is there in both, with the same value, or in neither.
Keeps(v, w, k) == (k \in DOMAIN v <=> k \in DOMAIN w) /\ (k \in DOMAIN v => v[k] = w[k])
CoreKeys == {"FAMILY_POLICY", "HOST_SERVICES", "PRIVILEGED_BYPASS", "ADMIN_SOURCES", "GEO_IPV6_POLICY"}

LEMMA KeptOptions ==
  ASSUME NEW b, NEW v, NEW w, NEW S, S \subseteq Catalog(b), Respelt(b, v, w, S)
  PROVE  /\ \A k \in CoreKeys : Keeps(v, w, k)
         /\ \A n \in TcpModules \ (S \cup {"whitelist"}) : \A k \in TcpOf(n) : Keeps(v, w, k)
         /\ S \cap UdpModules = {} => \A k \in UdpKeys : Keeps(v, w, k)
<1>1. \A k : k \notin Aside \cup Vars(b, S) => Keeps(v, w, k)
  BY DEF Respelt, Keeps
<1>2. ASSUME NEW k \in CoreKeys PROVE Keeps(v, w, k)
  <2>1. k \in DOMAIN CoreDefaults \ Lists /\ k \notin Aside
    BY DEF CoreKeys, CoreDefaults, Lists, Aside, Timeouts
  <2>2. k \notin Vars(b, S)
    BY <2>1, OwnerIs DEF Vars
  <2> QED
    BY <1>1, <2>1, <2>2
<1>3. ASSUME NEW n \in TcpModules \ (S \cup {"whitelist"}), NEW k \in TcpOf(n) PROVE Keeps(v, w, k)
  <2>1. k \notin Aside
    BY <1>3 DEF TcpModules, TcpOf, Aside, Timeouts, Lists
  <2>2. k \notin Vars(b, S)
    BY <1>3, OwnerIs DEF Vars
  <2> QED
    BY <1>1, <2>1, <2>2
<1>4. ASSUME S \cap UdpModules = {}, NEW k \in UdpKeys PROVE Keeps(v, w, k)
  <2>1. k \notin Aside
    BY DEF UdpKeys, Aside, Timeouts, Lists
  <2>2. k \notin Vars(b, S)
    BY <1>4, OwnerIs DEF Vars
  <2> QED
    BY <1>1, <2>1, <2>2
<1> QED
  BY <1>2, <1>3, <1>4

\* A packet to none of the ports of some modules.
Avoids(v, S, k) == \A m \in S : k.dport \notin PortsOf(v, m)

LEMMA PortsAre ==
  ASSUME NEW v
  PROVE  /\ PortsOf(v, "tcp_ssh") = v.SSH_PORT /\ PortsOf(v, "http_https_protect") = v.HTTP_HTTPS_PORTS
         /\ PortsOf(v, "l4d2_tcp_protect") = v.L4D2_GAMESERVER_TCP_PORTS
         /\ PortsOf(v, "openvpn_server") = {v.OVPNSRV_PORT}
         /\ PortsOf(v, "allowlist_ports") = v.BYPASS_TCP_PORTS \cup v.BYPASS_UDP_PORTS
         /\ \A m \in UdpModules : PortsOf(v, m) = AllGamePorts(v)
<1>1. \A m \in UdpModules : m \notin {"tcp_ssh", "http_https_protect", "l4d2_tcp_protect", "openvpn_server", "allowlist_ports"}
  BY DEF UdpModules, Game
<1>2. ASSUME NEW m \in UdpModules PROVE PortsOf(v, m) = AllGamePorts(v)
  BY <1>1 DEF PortsOf, UdpModules
<1>3. {"tcp_ssh", "http_https_protect", "l4d2_tcp_protect", "openvpn_server", "allowlist_ports"} \cap UdpModules = {}
  BY <1>1
<1> QED
  BY <1>2, <1>3 DEF PortsOf, UdpModules

\* The administrative sources narrow the same rules, but for those of the SSH ports.
LEMMA AdminSame ==
  ASSUME NEW b, NEW v, NEW w, NEW S, S \subseteq Catalog(b), Respelt(b, v, w, S), DOMAIN CoreDefaults \subseteq DOMAIN v,
         NEW k, Avoids(v, S, k), Avoids(w, S, k)
  PROVE  SameAdmin(v, w) \/ (Unaware(v, k) /\ Unaware(w, k))
<1>1. CASE "tcp_ssh" \in S
  BY <1>1, PortsAre DEF Avoids, Unaware
<1>2. CASE "tcp_ssh" \notin S
  <2>1. Keeps(v, w, "SSH_PORT") /\ Keeps(v, w, "ADMIN_SOURCES")
    BY <1>2, KeptOptions DEF TcpModules, TcpOf, CoreKeys
  <2>2. "ADMIN_SOURCES" \in DOMAIN v
    BY DEF CoreDefaults
  <2> QED
    BY <2>1, <2>2 DEF Keeps, SameAdmin
<1> QED
  BY <1>1, <1>2

\* Rules that enter no chain: the same, or for other ports, or left out of both.
LEMMA FlatBlock ==
  ASSUME NEW nft, NEW v, NEW w, NEW p, NEW q, NEW s, NEW t, Guarded(s, p), Guarded(t, q), Flat(s), NEW k, NEW one, NEW two,
         nft \/ SameAdmin(v, w) \/ (Unaware(v, k) /\ Unaware(w, k)), s = t \/ (k.dport \notin p /\ k.dport \notin q)
  PROVE  Same(Adapted(nft, v, s), one, Adapted(nft, w, t), two, k)
<1>1. \A r \in Members(s) : r.to # "jump"
  BY DEF Flat
<1> QED
  BY <1>1, BlockSame

LEMMA TcpSame ==
  ASSUME NEW b, NEW v, NEW w, NEW S, S \subseteq Catalog(b), Respelt(b, v, w, S), NEW names, Filled(v, names), S \subseteq names,
         NEW k, Avoids(v, S, k), Avoids(w, S, k), NEW nft, NEW one, NEW two
  PROVE  /\ Same(Adapted(nft, v, AllowRules(names, v)), one, Adapted(nft, w, AllowRules(names, w)), two, k)
         /\ Same(Adapted(nft, v, AdminRules(nft, names, v)), one, Adapted(nft, w, AdminRules(nft, names, w)), two, k)
         /\ Same(Adapted(nft, v, RconOf(nft, names, v)), one, Adapted(nft, w, RconOf(nft, names, w)), two, k)
         /\ Same(Adapted(nft, v, WebOf(names, v)), one, Adapted(nft, w, WebOf(names, w)), two, k)
<1>1. SameAdmin(v, w) \/ (Unaware(v, k) /\ Unaware(w, k))
  BY AdminSame DEF Filled
<1>2. \A n \in TcpModules \ (S \cup {"whitelist"}) : n \in names => \A o \in TcpOf(n) : o \in DOMAIN DefaultsOf(n) => v[o] = w[o]
  <2> SUFFICES ASSUME NEW n \in TcpModules \ (S \cup {"whitelist"}), n \in names, NEW o \in TcpOf(n), o \in DOMAIN DefaultsOf(n)
               PROVE  v[o] = w[o]
    OBVIOUS
  <2>1. o \in DOMAIN v
    BY DEF Filled
  <2> QED
    BY <2>1, KeptOptions DEF Keeps
<1>3. /\ "allowlist_ports" \in names \ S => v.BYPASS_TCP_PORTS = w.BYPASS_TCP_PORTS /\ v.BYPASS_UDP_PORTS = w.BYPASS_UDP_PORTS
      /\ "tcp_ssh" \in names \ S => v.SSH_PORT = w.SSH_PORT
      /\ "l4d2_tcp_protect" \in names \ S => v.L4D2_GAMESERVER_TCP_PORTS = w.L4D2_GAMESERVER_TCP_PORTS
      /\ "http_https_protect" \in names \ S => v.HTTP_HTTPS_PORTS = w.HTTP_HTTPS_PORTS
  BY <1>2, DefaultDomains DEF TcpModules, TcpOf
<1>4. v.ADMIN_SOURCES = w.ADMIN_SOURCES
  <2>1. "ADMIN_SOURCES" \in DOMAIN v
    BY DEF Filled, CoreDefaults
  <2> QED
    BY <2>1, KeptOptions DEF Keeps, CoreKeys
<1>5. \A x : /\ Flat(AllowlistRules(x)) /\ Flat(SshRules(x)) /\ Flat(AdminOnly(x, SshRules(x)))
             /\ Flat(RconRules(nft, x)) /\ Flat(WebRules(x))
  BY ServicesForTcp, AllowlistAccepts DEF ForTcp, Flat
<1>6. \A condition, s : Flat(s) => Flat(Only(condition, s))
  BY OneList DEF Only, Flat
<1>7. Same(Adapted(nft, v, AllowRules(names, v)), one, Adapted(nft, w, AllowRules(names, w)), two, k)
  <2> DEFINE p == v.BYPASS_TCP_PORTS \cup v.BYPASS_UDP_PORTS
             q == w.BYPASS_TCP_PORTS \cup w.BYPASS_UDP_PORTS
             s == AllowRules(names, v)
             t == AllowRules(names, w)
  <2>1. Guarded(s, p) /\ Guarded(t, q) /\ Flat(s)
    BY <1>5, <1>6, TcpGuarded, GuardedOnly DEF AllowRules
  <2>2. CASE "allowlist_ports" \in S
    <3>1. k.dport \notin p /\ k.dport \notin q
      BY <2>2, PortsAre DEF Avoids
    <3> HIDE DEF p, q, s, t
    <3>2. Same(Adapted(nft, v, s), one, Adapted(nft, w, t), two, k)
      BY <1>1, <2>1, <3>1, FlatBlock
    <3> QED
      BY <3>2 DEF s, t
  <2>3. CASE "allowlist_ports" \notin S
    <3>1. s = t
      BY <1>3, <2>3 DEF AllowRules, Only, AllowlistRules
    <3> HIDE DEF p, q, s, t
    <3>2. Same(Adapted(nft, v, s), one, Adapted(nft, w, t), two, k)
      BY <1>1, <2>1, <3>1, FlatBlock
    <3> QED
      BY <3>2 DEF s, t
  <2> QED
    BY <2>2, <2>3
<1>8. Same(Adapted(nft, v, AdminRules(nft, names, v)), one, Adapted(nft, w, AdminRules(nft, names, w)), two, k)
  <2> DEFINE p == v.SSH_PORT
             q == w.SSH_PORT
             s == AdminRules(nft, names, v)
             t == AdminRules(nft, names, w)
  <2>1. Guarded(s, p) /\ Guarded(t, q) /\ Flat(s)
    BY <1>5, <1>6, TcpGuarded, GuardedOnly DEF AdminRules
  <2>2. s = t \/ (k.dport \notin p /\ k.dport \notin q)
    <3>1. CASE "tcp_ssh" \in S
      BY <3>1, PortsAre DEF Avoids
    <3>2. CASE "tcp_ssh" \notin S
      <4>1. CASE "tcp_ssh" \in names
        <5>1. v.SSH_PORT = w.SSH_PORT
          BY <1>3, <3>2, <4>1
        <5>2. SshRules(v) = SshRules(w)
          BY <5>1 DEF SshRules
        <5> QED
          BY <1>4, <5>2 DEF AdminRules, AdminOnly
      <4>2. CASE "tcp_ssh" \notin names
        BY <4>2 DEF AdminRules, Only
      <4> QED
        BY <4>1, <4>2
    <3> QED
      BY <3>1, <3>2
  <2> HIDE DEF p, q, s, t
  <2>3. Same(Adapted(nft, v, s), one, Adapted(nft, w, t), two, k)
    BY <1>1, <2>1, <2>2, FlatBlock
  <2> QED
    BY <2>3 DEF s, t
<1>9. Same(Adapted(nft, v, RconOf(nft, names, v)), one, Adapted(nft, w, RconOf(nft, names, w)), two, k)
  <2> DEFINE p == v.L4D2_GAMESERVER_TCP_PORTS
             q == w.L4D2_GAMESERVER_TCP_PORTS
             s == RconOf(nft, names, v)
             t == RconOf(nft, names, w)
  <2>1. Guarded(s, p) /\ Guarded(t, q) /\ Flat(s)
    BY <1>5, <1>6, TcpGuarded, GuardedOnly DEF RconOf
  <2>2. s = t \/ (k.dport \notin p /\ k.dport \notin q)
    <3>1. CASE "l4d2_tcp_protect" \in S
      BY <3>1, PortsAre DEF Avoids
    <3>2. CASE "l4d2_tcp_protect" \notin S
      BY <1>3, <3>2 DEF RconOf, Only, RconRules
    <3> QED
      BY <3>1, <3>2
  <2> HIDE DEF p, q, s, t
  <2>3. Same(Adapted(nft, v, s), one, Adapted(nft, w, t), two, k)
    BY <1>1, <2>1, <2>2, FlatBlock
  <2> QED
    BY <2>3 DEF s, t
<1>10. Same(Adapted(nft, v, WebOf(names, v)), one, Adapted(nft, w, WebOf(names, w)), two, k)
  <2> DEFINE p == v.HTTP_HTTPS_PORTS
             q == w.HTTP_HTTPS_PORTS
             s == WebOf(names, v)
             t == WebOf(names, w)
  <2>1. Guarded(s, p) /\ Guarded(t, q) /\ Flat(s)
    BY <1>5, <1>6, TcpGuarded, GuardedOnly DEF WebOf
  <2>2. s = t \/ (k.dport \notin p /\ k.dport \notin q)
    <3>1. CASE "http_https_protect" \in S
      BY <3>1, PortsAre DEF Avoids
    <3>2. CASE "http_https_protect" \notin S
      BY <1>3, <3>2 DEF WebOf, Only, WebRules
    <3> QED
      BY <3>1, <3>2
  <2> HIDE DEF p, q, s, t
  <2>3. Same(Adapted(nft, v, s), one, Adapted(nft, w, t), two, k)
    BY <1>1, <2>1, <2>2, FlatBlock
  <2> QED
    BY <2>3 DEF s, t
<1> QED
  BY <1>7, <1>8, <1>9, <1>10

\* Options of the games and of the filter that are left alone leave their rules alone.
LEMMA UdpKept ==
  ASSUME NEW v, NEW w, NEW names, Filled(v, names), \A k \in UdpKeys \cup {"GEO_IPV6_POLICY"} : Keeps(v, w, k), NEW nft
  PROVE  /\ GeoOn(v, names) <=> GeoOn(w, names)
         /\ GeoDeniesV6(v, names) = GeoDeniesV6(w, names) /\ GeoRules(v, names) = GeoRules(w, names)
         /\ GameOf(nft, names, v) = GameOf(nft, names, w)
         /\ Game \subseteq names => GameChains(nft, v, Host) = GameChains(nft, w, Host)
         /\ \A f, h : GeoOn(v, names) /\ f.manual = h.manual /\ f.country = h.country =>
              GeoGate(v, GeoSets(v, f)) = GeoGate(w, GeoSets(w, h))
<1>1. ASSUME NEW m \in names, NEW k \in DOMAIN DefaultsOf(m) \cap UdpKeys PROVE v[k] = w[k]
  BY DEF Filled, Keeps
<1>2. v.GEO_IPV6_POLICY = w.GEO_IPV6_POLICY
  <2>1. "GEO_IPV6_POLICY" \in DOMAIN v
    BY DEF Filled, CoreDefaults
  <2> QED
    BY <2>1 DEF Keeps
<1>3. "geo_country_filter" \in names =>
        /\ v.L4D2_GAMESERVER_UDP_PORTS = w.L4D2_GAMESERVER_UDP_PORTS
        /\ v.L4D2_SOURCETV_UDP_PORTS = w.L4D2_SOURCETV_UDP_PORTS
        /\ v.GEO_POLICY_MODE = w.GEO_POLICY_MODE
        /\ v.GEO_POLICY_ALLOWED_COUNTRIES = w.GEO_POLICY_ALLOWED_COUNTRIES
        /\ v.GEO_POLICY_DENIED_COUNTRIES = w.GEO_POLICY_DENIED_COUNTRIES
  BY <1>1, GameDomains DEF UdpKeys
<1>4. Game \subseteq names =>
        /\ v.L4D2_GAMESERVER_UDP_PORTS = w.L4D2_GAMESERVER_UDP_PORTS
        /\ v.L4D2_SOURCETV_UDP_PORTS = w.L4D2_SOURCETV_UDP_PORTS
        /\ v.ENABLE_MALFORMED_FILTER = w.ENABLE_MALFORMED_FILTER
        /\ v.A2S_RATE = w.A2S_RATE /\ v.A2S_BURST = w.A2S_BURST
        /\ v.L4D2_LOGIN_RATE = w.L4D2_LOGIN_RATE /\ v.L4D2_LOGIN_BURST = w.L4D2_LOGIN_BURST
        /\ v.ENABLE_STEAM_GROUP_FILTER = w.ENABLE_STEAM_GROUP_FILTER
        /\ v.STEAM_GROUP_SIGNATURES = w.STEAM_GROUP_SIGNATURES
        /\ v.ENABLE_UDP_NEW_FFFFFFFF_BYPASS = w.ENABLE_UDP_NEW_FFFFFFFF_BYPASS
        /\ v.ENABLE_UDP_NEW_LARGE_FILTER = w.ENABLE_UDP_NEW_LARGE_FILTER
  BY <1>1, GameDomains DEF UdpKeys, Game
<1>5. GeoOn(v, names) <=> GeoOn(w, names)
  BY <1>3 DEF GeoOn
<1>6. GeoOn(v, names) => AllGamePorts(v) = AllGamePorts(w)
  BY <1>3 DEF GeoOn, AllGamePorts
<1>7. GeoDeniesV6(v, names) = GeoDeniesV6(w, names)
  BY <1>2, <1>5, <1>6 DEF GeoDeniesV6, Only
<1>8. GeoRules(v, names) = GeoRules(w, names)
  BY <1>5, <1>6 DEF GeoRules, Only
<1>9. GameOf(nft, names, v) = GameOf(nft, names, w)
  <2>1. CASE Game \subseteq names
    <3>1. AllGamePorts(v) = AllGamePorts(w) /\ SteamSignatures(nft, v) = SteamSignatures(nft, w)
      BY <1>4, <2>1 DEF AllGamePorts, SteamSignatures
    <3>2. ValidationRules(v) = ValidationRules(w)
      BY <1>4, <2>1, Zenon DEF ValidationRules
    <3>3. QueryRules(nft, v, Host) = QueryRules(nft, w, Host)
      BY <1>4, <2>1, <3>1, Zenon DEF QueryRules
    <3>4. BaseRules(v, Host) = BaseRules(w, Host)
      BY <1>4, <2>1, Zenon DEF BaseRules
    <3> QED
      BY <3>2, <3>3, <3>4, Zenon DEF GameOf, GameRules
  <2>2. CASE ~(Game \subseteq names)
    BY <2>2 DEF GameOf, Only
  <2> QED
    BY <2>1, <2>2
<1>10. Game \subseteq names => GameChains(nft, v, Host) = GameChains(nft, w, Host)
  <2> SUFFICES ASSUME Game \subseteq names PROVE GameChains(nft, v, Host) = GameChains(nft, w, Host)
    OBVIOUS
  <2>1. LeftToQueries(v) = LeftToQueries(w)
    BY <1>4, Zenon DEF LeftToQueries
  <2> QED
    BY <1>4, <2>1, Zenon DEF GameChains
<1>11. ASSUME NEW f, NEW h, GeoOn(v, names), f.manual = h.manual, f.country = h.country
       PROVE  GeoGate(v, GeoSets(v, f)) = GeoGate(w, GeoSets(w, h))
  <2>1. "geo_country_filter" \in names
    BY <1>11 DEF GeoOn
  <2>2. GeoSets(v, f) = GeoSets(w, h)
    BY <1>3, <1>11, <2>1, Zenon DEF GeoSets
  <2> DEFINE geo == GeoSets(w, h)
  <2> HIDE DEF geo
  <2>3. GeoGate(v, geo) = GeoGate(w, geo)
    BY <1>3, <2>1, Zenon DEF GeoGate
  <2> QED
    BY <2>2, <2>3 DEF geo
<1> QED
  BY <1>5, <1>7, <1>8, <1>9, <1>10, <1>11

\* What an update of some modules leaves of a policy: its modules and its grants, every
\* option but theirs, and the prefixes of its filter.
Updated(p, f, q, h, S) ==
  /\ Whole(p, f) /\ Whole(q, h) /\ FiniteOptions(p.config) /\ FiniteOptions(q.config) /\ Enumerated(p.access)
  /\ q.backend = p.backend /\ q.selected = p.selected /\ q.access = p.access
  /\ S \subseteq p.selected /\ Respelt(p.backend, p.config, q.config, S)
  /\ GeoOn(p.config, p.selected) => h.country = f.country /\ h.manual = f.manual

LEMMA UpdatedFacts ==
  ASSUME NEW p, NEW f, NEW q, NEW h, NEW S, Updated(p, f, q, h, S)
  PROVE  LET nft == p.backend = "nftables" IN
         /\ p.chains = ChainsOf(nft, p.config, p.selected, p.access, f)
         /\ q.chains = ChainsOf(nft, q.config, p.selected, p.access, h)
         /\ nft \/ p.selected \cap Game = {} \/ Blocked(p.config)
         /\ Filled(p.config, p.selected) /\ Filled(q.config, p.selected)
         /\ S \subseteq Catalog(p.backend)
         /\ nft \/ (~GeoOn(p.config, p.selected) /\ ~GeoOn(q.config, p.selected))

<1>1. AsCompiled(p, f) /\ AsCompiled(q, h)
  BY WholeFields DEF Updated
<1>2. /\ Filled(p.config, p.selected) /\ Filled(q.config, p.selected)
      /\ Valid(p.backend, p.config, p.selected, p.access, f)
  BY DEF Updated, Whole
<1>3. p.backend = "nftables" \/ p.selected \cap Game = {} \/ Blocked(p.config)
  BY <1>2 DEF Valid, PayloadsValid, Blocked
<1>4. /\ p.chains = ChainsOf(p.backend = "nftables", p.config, p.selected, p.access, f)
      /\ q.chains = ChainsOf(p.backend = "nftables", q.config, p.selected, p.access, h)
  BY <1>1 DEF AsCompiled, Updated
<1>5. p.selected \subseteq Catalog(p.backend) /\ p.backend \in {"nftables", "iptables"}
  BY <1>2 DEF Valid
<1>6. S \subseteq Catalog(p.backend)
  BY <1>5 DEF Updated
<1>7. "geo_country_filter" \notin Catalog("iptables")
  BY DEF Catalog, Game
<1>8. p.backend = "nftables" \/ (~GeoOn(p.config, p.selected) /\ ~GeoOn(q.config, p.selected))
  BY <1>5, <1>7 DEF GeoOn
<1> QED
  BY <1>2, <1>3, <1>4, <1>6, <1>8

\* Modules that are not of the games.
NoGames(S) == S \cap UdpModules = {}

\* The chains that the services of the games enter say what they said.
LEMMA ChainsUpdated ==
  ASSUME NEW p, NEW f, NEW q, NEW h, NEW S, Updated(p, f, q, h, S), NoGames(S), NEW k
  PROVE  LET one == Outer(p.chains, k)
             two == Outer(q.chains, k)
         IN /\ GeoOn(p.config, p.selected) => one[Gate] = two[Gate]
            /\ Game \subseteq p.selected => \A chain \in LimitsOf(Host) : one[chain] = two[chain]
<1> DEFINE nft == p.backend = "nftables"
           v == p.config
           w == q.config
           names == p.selected
           a == p.chains
           b == q.chains
<1>1. /\ a = ChainsOf(nft, v, names, p.access, f) /\ b = ChainsOf(nft, w, names, p.access, h)
      /\ Filled(v, names) /\ S \subseteq Catalog(p.backend)
  BY UpdatedFacts
<1>2. \A o \in UdpKeys \cup {"GEO_IPV6_POLICY"} : Keeps(v, w, o)
  <2>1. Respelt(p.backend, v, w, S)
    BY DEF Updated
  <2>2. "GEO_IPV6_POLICY" \in CoreKeys
    BY DEF CoreKeys
  <2> HIDE DEF v, w
  <2> QED
    BY <1>1, <2>1, <2>2, KeptOptions DEF NoGames
<1>3. /\ GeoOn(v, names) <=> GeoOn(w, names)
      /\ Game \subseteq names => GameChains(nft, v, Host) = GameChains(nft, w, Host)
      /\ \A x, y : GeoOn(v, names) /\ x.manual = y.manual /\ x.country = y.country =>
           GeoGate(v, GeoSets(v, x)) = GeoGate(w, GeoSets(w, y))
  <2> HIDE DEF v, w, nft, names
  <2> QED
    BY <1>1, <1>2, UdpKept
<1>4. GeoOn(v, names) => GeoGate(v, GeoSets(v, f)) = GeoGate(w, GeoSets(w, h))
  <2>1. GeoOn(v, names) => f.manual = h.manual /\ f.country = h.country
    BY DEF Updated
  <2> HIDE DEF v, w, names
  <2> QED
    BY <1>3, <2>1
<1>5. \A name : name \in DOMAIN a /\ name \in DOMAIN b /\ a[name] = b[name] /\ Flat(a[name])
                  => Outer(a, k)[name] = Outer(b, k)[name]
  <2> SUFFICES ASSUME NEW name, name \in DOMAIN a, name \in DOMAIN b, a[name] = b[name], Flat(a[name])
               PROVE  Outer(a, k)[name] = Outer(b, k)[name]
    OBVIOUS
  <2> DEFINE s == a[name]
             one == Inner(a, k)
             two == Inner(b, k)
  <2> HIDE DEF a, b
  <2>1. Outer(a, k)[name] = FirstOf(a[name], k, one) /\ Outer(b, k)[name] = FirstOf(b[name], k, two)
    BY WalkIs
  <2> HIDE DEF one, two
  <2>2. Same(s, one, s, two, k)
    BY FlatSame
  <2> QED
    BY <2>1, <2>2 DEF Same, two
<1>6. ASSUME GeoOn(v, names) PROVE Outer(a, k)[Gate] = Outer(b, k)[Gate]
  <2> DEFINE access == p.access
             gate == GeoGate(v, GeoSets(v, f))
  <2>1. GeoOn(w, names)
    BY <1>3, <1>6
  <2> HIDE DEF nft, a, b, v, w, names, access
  <2> DEFINE ca == ChainsOf(nft, v, names, access, f)
             cb == ChainsOf(nft, w, names, access, h)
  <2>2. Gate \in DOMAIN ca /\ ca[Gate] = gate
    BY <1>6, Furnished
  <2>3. Gate \in DOMAIN cb /\ cb[Gate] = GeoGate(w, GeoSets(w, h))
    BY <2>1, Furnished
  <2>4. a = ca /\ b = cb
    BY <1>1 DEF access
  <2> HIDE DEF ca, cb
  <2>5. Flat(gate)
    BY GateOpen DEF Flat
  <2> HIDE DEF gate
  <2>6. Gate \in DOMAIN a /\ a[Gate] = gate /\ Gate \in DOMAIN b /\ b[Gate] = gate
    BY <1>4, <1>6, <2>2, <2>3, <2>4 DEF gate
  <2> QED
    BY <1>5, <2>5, <2>6
<1>7. ASSUME Game \subseteq names, NEW chain \in LimitsOf(Host) PROVE Outer(a, k)[chain] = Outer(b, k)[chain]
  <2>1. PICK x \in GameLimits \cup QueryLimits : chain = <<Host, x>>
    BY DEF LimitsOf
  <2> DEFINE access == p.access
  <2>2. Host \notin DOMAIN access.containers
    <3>1. p.access.containers \in Seq(Containers(p.access))
      BY DEF Updated, Enumerated
    <3> QED
      BY <3>1, ListFacts DEF Host, IsList
  <2>4. Flat(GameChains(nft, v, Host)[<<Host, x>>])
    BY GameChainsAre
  <2>3. a = ChainsOf(nft, v, names, access, f) /\ b = ChainsOf(nft, w, names, access, h)
    BY <1>1
  <2> HIDE DEF nft, a, b, v, w, names, access
  <2>5. <<Host, x>> \in DOMAIN a /\ a[<<Host, x>>] = GameChains(nft, v, Host)[<<Host, x>>]
    BY <1>7, <2>2, <2>3, GamesFurnished
  <2>6. <<Host, x>> \in DOMAIN b /\ b[<<Host, x>>] = GameChains(nft, w, Host)[<<Host, x>>]
    BY <1>7, <2>2, <2>3, GamesFurnished
  <2> QED
    BY <1>3, <1>5, <1>7, <2>1, <2>4, <2>5, <2>6
<1> QED
  BY <1>6, <1>7

\* The rules of the filter and of the games: the same, or for other ports.
LEMMA UdpSame ==
  ASSUME NEW b, NEW v, NEW w, NEW S, S \subseteq Catalog(b), Respelt(b, v, w, S), NEW names, Filled(v, names),
         NEW k, Avoids(v, S, k), Avoids(w, S, k), NEW nft, NEW one, NEW two,
         S \cap UdpModules = {} => /\ GeoOn(v, names) => one[Gate] = two[Gate]
                                   /\ Game \subseteq names => \A chain \in LimitsOf(Host) : one[chain] = two[chain]
  PROVE  /\ Same(Adapted(nft, v, GeoDeniesV6(v, names)), one, Adapted(nft, w, GeoDeniesV6(w, names)), two, k)
         /\ Same(Adapted(nft, v, GeoRules(v, names)), one, Adapted(nft, w, GeoRules(w, names)), two, k)
         /\ Same(Adapted(nft, v, GameOf(nft, names, v)), one, Adapted(nft, w, GameOf(nft, names, w)), two, k)
<1> DEFINE p == AllGamePorts(v)
           q == AllGamePorts(w)
           Enters(s) == \A r \in Members(s) : r.to = "jump" => one[r.chain] = two[r.chain]
<1>1. nft \/ SameAdmin(v, w) \/ (Unaware(v, k) /\ Unaware(w, k))
  BY AdminSame DEF Filled
<1>2. /\ Guarded(GeoDeniesV6(v, names), p) /\ Guarded(GeoRules(v, names), p) /\ Guarded(GameOf(nft, names, v), p)
      /\ Guarded(GeoDeniesV6(w, names), q) /\ Guarded(GeoRules(w, names), q) /\ Guarded(GameOf(nft, names, w), q)
  <2>1. \A x : /\ Guarded(GameRules(nft, x, Host), AllGamePorts(x))
               /\ Guarded(GeoRules(x, names), AllGamePorts(x)) /\ Guarded(GeoDeniesV6(x, names), AllGamePorts(x))
    BY UdpGuarded
  <2>2. \A x : Guarded(GameOf(nft, names, x), AllGamePorts(x))
    BY <2>1, GuardedOnly DEF GameOf
  <2> QED
    BY <2>1, <2>2
<1>3. CASE S \cap UdpModules # {}
  <2>1. PICK m \in S : m \in UdpModules
    BY <1>3
  <2>2. k.dport \notin p /\ k.dport \notin q
    BY <2>1, PortsAre DEF Avoids
  <2> HIDE DEF p, q
  <2> QED
    BY <1>1, <1>2, <2>2, BlockSame
<1>4. CASE S \cap UdpModules = {}
  <2>1. \A o \in UdpKeys \cup {"GEO_IPV6_POLICY"} : Keeps(v, w, o)
    BY <1>4, KeptOptions DEF CoreKeys
  <2>2. /\ GeoDeniesV6(v, names) = GeoDeniesV6(w, names) /\ GeoRules(v, names) = GeoRules(w, names)
        /\ GameOf(nft, names, v) = GameOf(nft, names, w)
    BY <2>1, UdpKept
  <2>3. Enters(GeoDeniesV6(v, names))
    <3> DEFINE r == Rule([fam |-> {6}] @@ Udp(AllGamePorts(v)), "drop")
    <3>1. r.to = "drop"
      BY RuleIs
    <3>2. GeoDeniesV6(v, names) = Only(GeoOn(v, names) /\ v.GEO_IPV6_POLICY = "deny", <<r>>)
      BY DEF GeoDeniesV6
    <3> HIDE DEF r
    <3> QED
      BY <3>1, <3>2, OneList DEF Only
  <2>4. Enters(GeoRules(v, names))
    <3> DEFINE r == Jump([fam |-> {4}] @@ Udp(AllGamePorts(v)), Gate)
    <3>1. r.chain = Gate
      BY JumpIs
    <3>2. GeoRules(v, names) = Only(GeoOn(v, names), <<r>>)
      BY DEF GeoRules, Gate
    <3> HIDE DEF r
    <3> QED
      BY <1>4, <3>1, <3>2, OneList DEF Only
  <2>5. Enters(GameOf(nft, names, v))
    <3>1. Asks(GameRules(nft, v, Host), LimitsOf(Host))
      BY ServicesAsk
    <3> DEFINE s == GameRules(nft, v, Host)
    <3>2. GameOf(nft, names, v) = Only(Game \subseteq names, s)
      BY DEF GameOf
    <3> HIDE DEF s
    <3> QED
      BY <1>4, <3>1, <3>2, OneList DEF Only, Asks, s
  <2> HIDE DEF p, q
  <2> DEFINE e == GeoDeniesV6(v, names)
             f == GeoRules(v, names)
             g == GameOf(nft, names, v)
  <2> HIDE DEF e, f, g
  <2>6. Same(Adapted(nft, v, e), one, Adapted(nft, w, e), two, k)
    BY <1>1, <1>2, <2>3, AdaptedTwice DEF e
  <2>7. Same(Adapted(nft, v, f), one, Adapted(nft, w, f), two, k)
    BY <1>1, <1>2, <2>4, AdaptedTwice DEF f
  <2>8. Same(Adapted(nft, v, g), one, Adapted(nft, w, g), two, k)
    BY <1>1, <1>2, <2>5, AdaptedTwice DEF g
  <2> QED
    BY <2>2, <2>6, <2>7, <2>8 DEF e, f, g
<1> QED
  BY <1>3, <1>4

\* The services of the host make the same of a packet for none of the modules' ports.
LEMMA ServicesSame ==
  ASSUME NEW b, NEW v, NEW w, NEW S, S \subseteq Catalog(b), Respelt(b, v, w, S), NEW names, Filled(v, names), S \subseteq names,
         NEW k, Avoids(v, S, k), Avoids(w, S, k), NEW nft, nft \/ (~GeoOn(v, names) /\ ~GeoOn(w, names)),
         nft \/ names \cap Game = {} \/ k.fam = 4, NEW one, NEW two,
         S \cap UdpModules = {} => /\ GeoOn(v, names) => one[Gate] = two[Gate]
                                   /\ Game \subseteq names => \A chain \in LimitsOf(Host) : one[chain] = two[chain]
  PROVE  Same(HostServices(nft, v, names), one, HostServices(nft, w, names), two, k)
<1> DEFINE A(s) == Adapted(nft, v, s)
           B(s) == Adapted(nft, w, s)
           a == A(AllowRules(names, v))
           c == A(AdminRules(nft, names, v))
           d == A(RconOf(nft, names, v))
           e == A(WebOf(names, v))
           f == A(GeoDeniesV6(v, names))
           g == A(GeoRules(v, names))
           h == A(GameOf(nft, names, v))
           a2 == B(AllowRules(names, w))
           c2 == B(AdminRules(nft, names, w))
           d2 == B(RconOf(nft, names, w))
           e2 == B(WebOf(names, w))
           f2 == B(GeoDeniesV6(w, names))
           g2 == B(GeoRules(w, names))
           h2 == B(GameOf(nft, names, w))
           It(s, t) == Same(s, one, t, two, k)
<1>1. It(a, a2) /\ It(c, c2) /\ It(d, d2) /\ It(e, e2)
  BY TcpSame
<1>2. It(f, f2) /\ It(g, g2) /\ It(h, h2)
  BY UdpSame
<1> DEFINE plain == Adapted(nft, v, Plain(nft, v, names))
           plain2 == Adapted(nft, w, Plain(nft, w, names))
           s == HostServices(nft, v, names)
           t == HostServices(nft, w, names)
<1>3. /\ plain = (((a \o c) \o d) \o e) \o ((f \o g) \o h)
      /\ plain2 = (((a2 \o c2) \o d2) \o e2) \o ((f2 \o g2) \o h2)
  BY AdaptedPlain
<1>4. Same(s, one, plain, one, k) /\ Same(t, two, plain2, two, k)
  BY ServicesAdapted
<1> HIDE DEF A, B, a, c, d, e, f, g, h, a2, c2, d2, e2, f2, g2, h2, plain, plain2, s, t
<1>5. \A x, y, x2, y2 : It(x, x2) /\ It(y, y2) => It(x \o y, x2 \o y2)
  BY SameThen
<1> HIDE DEF It
<1>6. It((a \o c) \o d, (a2 \o c2) \o d2) /\ It(f \o g, f2 \o g2)
  BY <1>1, <1>2, <1>5, Zenon
<1>7. It(((a \o c) \o d) \o e, ((a2 \o c2) \o d2) \o e2) /\ It((f \o g) \o h, (f2 \o g2) \o h2)
  BY <1>1, <1>2, <1>5, <1>6, Zenon
<1>8. It(plain, plain2)
  BY <1>3, <1>5, <1>7, Zenon
<1>9. Same(s, one, t, two, k)
  BY <1>4, <1>8 DEF Same, It
<1> QED
  BY <1>9 DEF s, t

\* The options of the core are those of before.
LEMMA CoreKept ==
  ASSUME NEW p, NEW f, NEW q, NEW h, NEW S, Updated(p, f, q, h, S)
  PROVE  /\ p.config.FAMILY_POLICY = q.config.FAMILY_POLICY /\ p.config.HOST_SERVICES = q.config.HOST_SERVICES
         /\ p.config.PRIVILEGED_BYPASS = q.config.PRIVILEGED_BYPASS
         /\ IsFiniteSet(p.access.host) /\ IsFiniteSet(p.config.BYPASS_SOURCE_IPS) /\ IsFiniteSet(q.config.BYPASS_SOURCE_IPS)
<1>1. Filled(p.config, p.selected) /\ Filled(q.config, p.selected) /\ S \subseteq Catalog(p.backend)
  BY UpdatedFacts
<1>2. \A o \in CoreKeys : Keeps(p.config, q.config, o)
  <2> DEFINE b == p.backend
             v == p.config
             w == q.config
  <2>1. Respelt(b, v, w, S) /\ S \subseteq Catalog(b)
    BY <1>1 DEF Updated
  <2> HIDE DEF b, v, w
  <2>2. \A o \in CoreKeys : Keeps(v, w, o)
    BY <2>1, KeptOptions
  <2> QED
    BY <2>2 DEF v, w
<1>3. {"FAMILY_POLICY", "HOST_SERVICES", "PRIVILEGED_BYPASS"} \subseteq DOMAIN p.config
  BY <1>1 DEF Filled, CoreDefaults
<1>4. "BYPASS_SOURCE_IPS" \in DOMAIN p.config /\ "BYPASS_SOURCE_IPS" \in DOMAIN q.config
  BY <1>1, Core DEF Filled, Lists
<1>5. IsFiniteSet(p.config.BYPASS_SOURCE_IPS) /\ IsFiniteSet(q.config.BYPASS_SOURCE_IPS) /\ IsFiniteSet(p.access.host)
  BY <1>4 DEF Updated, FiniteOptions, FiniteLists, Enumerated
<1>6. /\ p.config["FAMILY_POLICY"] = q.config["FAMILY_POLICY"] /\ p.config["HOST_SERVICES"] = q.config["HOST_SERVICES"]
      /\ p.config["PRIVILEGED_BYPASS"] = q.config["PRIVILEGED_BYPASS"]
  BY <1>2, <1>3 DEF CoreKeys, Keeps
<1> QED
  BY <1>5, <1>6

\* Exempted sources: the same, or the packet is from none of them.
LEMMA BypassSame ==
  ASSUME NEW v, NEW w, v.PRIVILEGED_BYPASS = w.PRIVILEGED_BYPASS,
         IsFiniteSet(v.BYPASS_SOURCE_IPS), IsFiniteSet(w.BYPASS_SOURCE_IPS), NEW k,
         v.BYPASS_SOURCE_IPS = w.BYPASS_SOURCE_IPS \/ (~ByBypass(v, k) /\ ~ByBypass(w, k)), NEW one, NEW two
  PROVE  Same(Bypass(v), one, Bypass(w), two, k)
<1>1. CASE v.BYPASS_SOURCE_IPS = w.BYPASS_SOURCE_IPS
  <2>1. Bypass(v) = Bypass(w)
    BY <1>1, Zenon DEF Bypass
  <2>2. Flat(Bypass(v))
    BY BypassOpen DEF Flat
  <2> DEFINE s == Bypass(v)
  <2> HIDE DEF s
  <2>3. Same(s, one, s, two, k)
    BY <2>2, FlatSame DEF s
  <2> QED
    BY <2>1, <2>3 DEF s
<1>2. CASE ~ByBypass(v, k) /\ ~ByBypass(w, k)
  <2> DEFINE s == Bypass(v)
             t == Bypass(w)
  <2>1. IsList(s) /\ \A r \in Members(s) : ~Matches(r, k)
    BY <1>2, BypassOpen
  <2>2. IsList(t) /\ \A r \in Members(t) : ~Matches(r, k)
    BY <1>2, BypassOpen
  <2> HIDE DEF s, t
  <2>3. Passed(s, k, one) /\ Passed(t, k, two)
    BY <2>1, <2>2 DEF Passed, Decides
  <2>4. Same(s, one, t, two, k)
    BY <2>1, <2>2, <2>3, DecidingIs DEF Same
  <2> QED
    BY <2>4 DEF s, t
<1> QED
  BY <1>1, <1>2

\* The port of a VPN server: the same, or none the packet is for.
LEMMA VpnSame ==
  ASSUME NEW p, NEW f, NEW q, NEW h, NEW S, Updated(p, f, q, h, S), NEW k, Avoids(p.config, S, k), Avoids(q.config, S, k),
         NEW one, NEW two
  PROVE  Same(VpnPort(p.config, p.selected), one, VpnPort(q.config, p.selected), two, k)
<1> DEFINE v == p.config
           w == q.config
           names == p.selected
           s == VpnPort(v, names)
           t == VpnPort(w, names)
<1>1. v.HOST_SERVICES = w.HOST_SERVICES
  BY CoreKept
<1>2. /\ IsList(s) /\ \A r \in Members(s) : r.to = "accept" /\ (Matches(r, k) => ByVpn(v, names, k))
      /\ IsList(t) /\ \A r \in Members(t) : r.to = "accept" /\ (Matches(r, k) => ByVpn(w, names, k))
  BY VpnPortOpen
<1>3. CASE "openvpn_server" \in S
  <2>1. ~ByVpn(v, names, k) /\ ~ByVpn(w, names, k)
    BY <1>3, PortsAre DEF Avoids, ByVpn
  <2> HIDE DEF s, t
  <2>2. Passed(s, k, one) /\ Passed(t, k, two)
    BY <1>2, <2>1 DEF Passed, Decides
  <2> QED
    BY <1>2, <2>2, DecidingIs DEF Same, s, t
<1>4. CASE "openvpn_server" \notin S
  <2>1. "openvpn_server" \in names => v.OVPNSRV_PROTO = w.OVPNSRV_PROTO /\ v.OVPNSRV_PORT = w.OVPNSRV_PORT
    <3> SUFFICES ASSUME "openvpn_server" \in names PROVE v["OVPNSRV_PROTO"] = w["OVPNSRV_PROTO"] /\ v["OVPNSRV_PORT"] = w["OVPNSRV_PORT"]
      OBVIOUS
    <3>1. Filled(v, names) /\ S \subseteq Catalog(p.backend) /\ Respelt(p.backend, v, w, S)
      BY UpdatedFacts DEF Updated
    <3>2. {"OVPNSRV_PROTO", "OVPNSRV_PORT"} \subseteq DOMAIN v
      BY <3>1, DefaultDomains DEF Filled
    <3>3. "openvpn_server" \in TcpModules \ (S \cup {"whitelist"}) /\ {"OVPNSRV_PROTO", "OVPNSRV_PORT"} = TcpOf("openvpn_server")
      BY <1>4 DEF TcpModules, TcpOf
    <3> DEFINE b == p.backend
    <3> HIDE DEF b, v, w, names
    <3>4. Respelt(b, v, w, S) /\ S \subseteq Catalog(b)
      BY <3>1 DEF b
    <3>5. \A o \in TcpOf("openvpn_server") : Keeps(v, w, o)
      BY <3>3, <3>4, KeptOptions
    <3> QED
      BY <3>2, <3>3, <3>5 DEF Keeps
  <2>2. s = t
    BY <1>1, <2>1 DEF VpnPort, Only
  <2> HIDE DEF s, t
  <2>3. Same(s, one, s, two, k)
    BY <1>2, SameList
  <2> QED
    BY <2>2, <2>3 DEF s, t
<1> QED
  BY <1>3, <1>4

\* A packet for none of the modules' ports, and from none of their sources, is accepted by
\* the one policy when it is by the other.
LEMMA AcceptsUpdated ==
  ASSUME NEW p, NEW f, NEW q, NEW h, NEW S, Updated(p, f, q, h, S), NEW k, k.fam \in {4, 6},
         Avoids(p.config, S, k), Avoids(q.config, S, k),
         "whitelist" \in S => ~ByBypass(p.config, k) /\ ~ByBypass(q.config, k)
  PROVE  Accepts(p, k) = Accepts(q, k)
<1> DEFINE nft == p.backend = "nftables"
           v == p.config
           w == q.config
           names == p.selected
           one == Outer(p.chains, k)
           two == Outer(q.chains, k)
           core == CoreInput(v) \o HostGrants(p.access)
           front == core \o Bypass(v)
           front2 == core \o Bypass(w)
           vpn == VpnPort(v, names)
           vpn2 == VpnPort(w, names)
           serve == Only(v.HOST_SERVICES, HostServices(nft, v, names))
           serve2 == Only(v.HOST_SERVICES, HostServices(nft, w, names))
           rest == EstablishedOnly
           chain == ((front \o vpn) \o serve) \o rest
           chain2 == ((front2 \o vpn2) \o serve2) \o rest
           It(s, t) == Same(s, one, t, two, k)
<1>1. /\ p.chains = ChainsOf(nft, v, names, p.access, f) /\ q.chains = ChainsOf(nft, w, names, p.access, h)
      /\ nft \/ names \cap Game = {} \/ Blocked(v)
      /\ Filled(v, names) /\ Filled(w, names) /\ S \subseteq Catalog(p.backend)
      /\ nft \/ (~GeoOn(v, names) /\ ~GeoOn(w, names))
      /\ S \subseteq names /\ Respelt(p.backend, v, w, S)
  <2>1. S \subseteq names /\ Respelt(p.backend, v, w, S)
    BY DEF Updated
  <2> QED
    BY <2>1, UpdatedFacts
<1>2. /\ v.FAMILY_POLICY = w.FAMILY_POLICY /\ v.HOST_SERVICES = w.HOST_SERVICES
      /\ v.PRIVILEGED_BYPASS = w.PRIVILEGED_BYPASS
      /\ IsFiniteSet(p.access.host) /\ IsFiniteSet(v.BYPASS_SOURCE_IPS) /\ IsFiniteSet(w.BYPASS_SOURCE_IPS)
  BY CoreKept
<1>3. Accepts(p, k) = (FirstOf(chain, k, one) = "accept") /\ Accepts(q, k) = (FirstOf(chain2, k, two) = "accept")
  <2> DEFINE in == <<Host, "input">>
             access == p.access
  <2>1. p.chains = ChainsOf(nft, v, names, access, f) /\ q.chains = ChainsOf(nft, w, names, access, h)
    BY <1>1
  <2>2. ChainsOf(nft, v, names, access, f)[in] = InputChain(nft, v, names, access)
    BY Furnished
  <2>3. ChainsOf(nft, w, names, access, h)[in] = InputChain(nft, w, names, access)
    BY Furnished
  <2>4. InputChain(nft, v, names, access) = chain
    BY DEF InputChain
  <2>5. InputChain(nft, w, names, access) = chain2
    <3>1. CoreInput(w) = CoreInput(v)
      BY <1>2 DEF CoreInput
    <3>2. w.HOST_SERVICES = v.HOST_SERVICES
      BY <1>2
    <3> HIDE DEF v, w, nft, names, access
    <3>3. InputChain(nft, w, names, access) =
            ((((CoreInput(v) \o HostGrants(access)) \o Bypass(w)) \o VpnPort(w, names))
             \o Only(v.HOST_SERVICES, HostServices(nft, w, names))) \o EstablishedOnly
      BY <3>1, <3>2, Zenon DEF InputChain
    <3> QED
      BY <3>3 DEF v, w, nft, names, access
  <2>6. \A chains : Walk(chains, in, k) = FirstOf(chains[in], k, Outer(chains, k))
    <3> HIDE DEF in
    <3> QED
      BY WalkIs
  <2> DEFINE a == p.chains
             b == q.chains
  <2> HIDE DEF chain, chain2, nft, v, w, names, access
  <2>7. a[in] = chain /\ b[in] = chain2
    BY <2>1, <2>2, <2>3, <2>4, <2>5
  <2> HIDE DEF a, b
  <2>8. Walk(a, in, k) = FirstOf(chain, k, Outer(a, k)) /\ Walk(b, in, k) = FirstOf(chain2, k, Outer(b, k))
    BY <2>6, <2>7, Zenon
  <2> QED
    BY <2>8 DEF Accepts, a, b
<1>4. S \cap UdpModules = {} => /\ GeoOn(v, names) => one[Gate] = two[Gate]
                                /\ Game \subseteq names => \A c \in LimitsOf(Host) : one[c] = two[c]
  <2>1. ASSUME NoGames(S)
        PROVE  /\ GeoOn(v, names) => one[Gate] = two[Gate]
               /\ Game \subseteq names => \A c \in LimitsOf(Host) : one[c] = two[c]
    BY <2>1, ChainsUpdated
  <2> QED
    BY <2>1 DEF NoGames
<1>5. It(front, front2) /\ (Blocked(v) /\ k.fam = 6 => ~Passed(front, k, one))
  <2>1. Flat(Front(v, p.access)) /\ (Blocked(v) /\ k.fam = 6 => ~Passed(Front(v, p.access), k, one))
    BY <1>2, FrontFlat
  <2>2. Flat(core)
    <3>1. Flat(CoreInput(v)) /\ Flat(HostGrants(p.access))
      BY <1>2, CoreOpen, HostGrantsOpen DEF Flat
    <3> QED
      BY <3>1, Joined DEF Flat
  <2>3. Front(v, p.access) = front
    BY DEF Front
  <2>4. v.BYPASS_SOURCE_IPS = w.BYPASS_SOURCE_IPS \/ (~ByBypass(v, k) /\ ~ByBypass(w, k))
    BY <1>1 DEF Respelt
  <2>5. Same(Bypass(v), one, Bypass(w), two, k)
    <3> HIDE DEF v, w, one, two
    <3> QED
      BY <1>2, <2>4, BypassSame
  <2> DEFINE by == Bypass(v)
             by2 == Bypass(w)
  <2> HIDE DEF core, one, two, by, by2, v, w
  <2>6. Same(core, one, core, two, k)
    BY <2>2, FlatSame
  <2>7. Same(core \o by, one, core \o by2, two, k)
    BY <2>5, <2>6, SameThen DEF by, by2
  <2> QED
    BY <2>1, <2>3, <2>7 DEF by, by2
<1>6. It(vpn, vpn2)
  <2> HIDE DEF one, two
  <2> QED
    BY VpnSame
<1>7. IsList(serve) /\ IsList(serve2) /\ (nft \/ names \cap Game = {} \/ k.fam = 4 => It(serve, serve2))
  <2> DEFINE b == p.backend
             s == HostServices(nft, v, names)
             t == HostServices(nft, w, names)
             on == v.HOST_SERVICES
  <2>1. S \subseteq Catalog(b) /\ Respelt(b, v, w, S) /\ Avoids(v, S, k) /\ Avoids(w, S, k)
    BY <1>1
  <2> HIDE DEF b, nft, v, w, names, one, two
  <2>2. IsList(s) /\ IsList(t)
    BY ServicesList
  <2>3. nft \/ names \cap Game = {} \/ k.fam = 4 => Same(s, one, t, two, k)
    BY <1>1, <1>4, <2>1, ServicesSame
  <2> HIDE DEF s, t, on
  <2>4. Same(<<>>, one, <<>>, two, k)
    BY OneList, SameList
  <2>5. CASE on
    BY <2>2, <2>3, <2>5 DEF Only, s, t, on
  <2>6. CASE ~on
    BY <2>4, <2>6, OneList DEF Only, s, t, on
  <2> QED
    BY <2>5, <2>6
<1>8. IsList(rest) /\ It(rest, rest)
  <2> HIDE DEF one, two
  <2>1. IsList(rest) /\ \A r \in Members(rest) : r.to # "jump"
    BY EstablishedOpen
  <2> QED
    BY <2>1, SameList
<1> HIDE DEF nft, v, w, names, one, two, front, front2, vpn, vpn2, serve, serve2, rest, core
<1>9. It(chain, chain2)
  <2>1. CASE nft \/ names \cap Game = {} \/ k.fam = 4
    <3> DEFINE a == front \o vpn
               a2 == front2 \o vpn2
               c == a \o serve
               c2 == a2 \o serve2
    <3>1. Same(a, one, a2, two, k)
      BY <1>5, <1>6, SameThen
    <3> HIDE DEF a, a2
    <3>2. Same(c, one, c2, two, k)
      BY <1>7, <2>1, <3>1, SameThen
    <3> HIDE DEF c, c2
    <3>3. Same(c \o rest, one, c2 \o rest, two, k)
      BY <1>8, <3>2, SameThen
    <3> QED
      BY <3>3 DEF c, c2, a, a2
  <2>2. CASE ~(nft \/ names \cap Game = {} \/ k.fam = 4)
    <3> DEFINE a == front \o vpn
               a2 == front2 \o vpn2
               c == a \o serve
               c2 == a2 \o serve2
    <3>1. ~Passed(front, k, one)
      BY <1>1, <1>5, <2>2
    <3>2. IsList(vpn) /\ IsList(vpn2)
      BY <1>6 DEF Same
    <3>3. Same(a, one, a2, two, k) /\ ~Passed(a, k, one)
      BY <1>5, <3>1, <3>2, SameEnough
    <3> HIDE DEF a, a2
    <3>4. Same(c, one, c2, two, k) /\ ~Passed(c, k, one)
      BY <1>7, <3>3, SameEnough
    <3> HIDE DEF c, c2
    <3>5. Same(c \o rest, one, c2 \o rest, two, k)
      BY <1>8, <3>4, SameEnough
    <3> QED
      BY <3>5 DEF c, c2, a, a2
  <2> QED
    BY <2>1, <2>2
<1>10. FirstOf(chain, k, one) = FirstOf(chain2, k, two)
  BY <1>9 DEF Same
<1> QED
  BY <1>3, <1>10

\* The modules a record is read back with are some of those that were named.
LEMMA SelectedNamed ==
  ASSUME NEW p, NEW config, NEW names, NEW access, NEW set, NEW n \in Reread(p, config, names, access, set)
  PROVE  n.selected \subseteq names
<1> DEFINE r == Normalized(p.backend, config, names, access, DOMAIN set)
           v0 == Translated(r.supplied) @@ CoreDefaults
           listed == Selection(r, v0)
           w == Resolved(Fitted(WithDefaults(v0, listed), listed, r.explicit), files)
           given == IF r.normalized THEN r.access ELSE files.access[v0.ACCESS_POLICY]
<1>1. r.only = <<names>>
  BY Zenon DEF Normalized
<1>2. n \in Configured(r, files)
  BY DEF Reread
<1> HIDE DEF r
<1>3. n = [backend |-> r.backend, config |-> w, selected |-> listed, access |-> given]
  BY <1>2 DEF Configured
<1> HIDE DEF v0, w, given
<1>4. Listed(r, v0) = names /\ ~FallsBack(r, v0)
  BY <1>1 DEF Listed, FallsBack
<1>5. listed \subseteq names
  <2> DEFINE profiles == UNION {Profiles[x] : x \in ChosenProfiles(r, v0)}
  <2>1. listed = (Listed(r, v0) \cup (IF FallsBack(r, v0) THEN profiles ELSE {})) \ Excluded(r, v0)
    BY DEF Selection
  <2> HIDE DEF profiles, listed
  <2> QED
    BY <1>4, <2>1
<1> HIDE DEF listed
<1> QED
  BY <1>3, <1>5

LEMMA PartialStep ==
  ASSUME RecordInv, CurrentInv, RemovalInv, NEW u \in Updates, NEW o \in Current, NEW c \in PartialConfiguration(o, u),
         NEW operation, Confirm(c, operation), NEW p \in Current, NEW q \in Current',
         p.config.MODULES_EXCLUDE \cap p.selected = {}, PrefixesKept(p)
  PROVE  \E S : S \subseteq u.only /\ Updated(p, read, q, files, S)
<1>1. o = p
  BY CurrentOnce
<1>2. Whole(p, read)
  BY DEF CurrentInv
<1>3. Filled(p.config, p.selected) /\ p.selected \subseteq Catalog(p.backend)
  BY <1>2 DEF Whole, Valid
<1>4. c \in Merged(p, u.set)
  BY <1>1 DEF PartialConfiguration
<1>5. PICK n \in Named(p, c, u.only, u.set) :
        n.selected \subseteq p.selected /\ DOMAIN u.set \subseteq UNION {VarsOf(p.backend, m) : m \in n.selected}
  BY <1>1 DEF PartialConfiguration
<1> DEFINE S == n.selected
<1>6. S \subseteq u.only /\ S \subseteq p.selected /\ DOMAIN u.set \subseteq Vars(p.backend, S)
  BY <1>5, SelectedNamed DEF Named, Vars
<1> HIDE DEF S
<1>7. "ACCESS_POLICY" \notin DOMAIN u.set
  <2> SUFFICES ASSUME "ACCESS_POLICY" \in DOMAIN u.set PROVE FALSE
    OBVIOUS
  <2>1. PICK m \in S : "ACCESS_POLICY" \in VarsOf(p.backend, m)
    BY <1>6 DEF Vars
  <2>2. "ACCESS_POLICY" \in DOMAIN CoreDefaults \ Lists
    BY DEF CoreDefaults, Lists
  <2> QED
    BY <1>3, <1>6, <2>1, <2>2, OwnerIs
<1>8. c \in Configured(Normalized(p.backend, u.set @@ p.config, p.selected, p.access, DOMAIN u.set), files)
  BY <1>4, <1>7 DEF Merged, Reread
<1>9. c.backend = p.backend /\ c.selected = p.selected /\ c.access = p.access /\ Respelt(p.backend, p.config, c.config, S)
  <2> DEFINE b == p.backend
             v == p.config
             names == p.selected
             access == p.access
             set == u.set
             explicit == DOMAIN set
  <2>1. names \cap v.MODULES_EXCLUDE = {} /\ S \subseteq names /\ DOMAIN set \subseteq Vars(b, S)
    BY <1>6
  <2>2. c \in Configured(Normalized(b, set @@ v, names, access, explicit), files)
    BY <1>8
  <2>3. Filled(v, names) /\ names \subseteq Catalog(b)
    BY <1>3
  <2> HIDE DEF b, v, names, access, set, explicit
  <2>4. c.backend = b /\ c.selected = names /\ c.access = access /\ Respelt(b, v, c.config, S)
    BY <2>1, <2>2, <2>3, OptionsSet
  <2> QED
    BY <2>4 DEF b, v, names, access
<1>10. PICK g \in Generated(c, files) : record' = <<g>>
  BY DEF Confirm
<1>11. Whole(g, files) /\ Parts(g) = c
  BY <1>8, GeneratedWhole
<1>12. Current' \subseteq {g}
  BY <1>10, <1>11, CurrentOf DEF Current
<1>13. q = g
  BY <1>12
<1>14. q.backend = c.backend /\ q.config = c.config /\ q.access = c.access /\ q.selected = c.selected
  BY <1>11, <1>13 DEF Parts
<1>15. FiniteOptions(p.config) /\ Enumerated(p.access) /\ FiniteOptions(q.config)
  <2>1. FiniteOptions(u.set)
    BY PolicyAssumption
  <2> QED
    BY <1>4, <1>14, <2>1, CurrentFinite, MergedFinite
<1>16. GeoOn(p.config, p.selected) => files.country = read.country /\ files.manual = read.manual
  BY DEF PrefixesKept, RemovalInv
<1>17. Updated(p, read, q, files, S)
  BY <1>2, <1>6, <1>9, <1>11, <1>13, <1>14, <1>15, <1>16 DEF Updated
<1> QED
  BY <1>6, <1>17

\* PartialConfined.  The options of a module are read by its own rules, and by those that
\* share its ports.  So an update of some modules leaves every rule for other ports, and the
\* chains those enter, as they were; what comes ahead of the services depends on the options
\* of the core, on the exempted sources and on the port of a VPN server.
THEOREM PartialSafe == PolicySpec => PartialConfined
<1> DEFINE Confined == last'.op = "partial" /\ last' # last => \A p \in Current, q \in Current' :
                         p.config.MODULES_EXCLUDE \cap p.selected = {} /\ PrefixesKept(p) =>
                           /\ q.selected = p.selected /\ q.access = p.access
                           /\ \A k \in Arrivals : ~Concerns(p, last'.names, k) /\ ~Concerns(q, last'.names, k) =>
                                Accepts(p, k) = Accepts(q, k)
<1>1. RecordInv /\ CurrentInv /\ RemovalInv /\ [PolicyNext]_policyVars => [Confined]_policyVars
  <2> SUFFICES ASSUME RecordInv, CurrentInv, RemovalInv, PolicyNext,
                      last'.op = "partial", last' # last, NEW p \in Current, NEW q \in Current',
                      p.config.MODULES_EXCLUDE \cap p.selected = {}, PrefixesKept(p)
               PROVE  /\ q.selected = p.selected /\ q.access = p.access
                      /\ \A k \in Arrivals : ~Concerns(p, last'.names, k) /\ ~Concerns(q, last'.names, k) =>
                           Accepts(p, k) = Accepts(q, k)
    OBVIOUS
  <2>1. PICK u \in Updates : Partial(u)
    <3>1. \A r : ~Apply(r)
      BY DEF Apply, Confirm, Operation
    <3>2. \A d : ~Remove(d)
      BY DEF Remove, Confirm, Operation
    <3>3. ~EditAccess /\ ~UpdateStarts /\ ~CountryReplaced
      BY DEF EditAccess, UpdateStarts, CountryReplaced
    <3> QED
      BY <3>1, <3>2, <3>3 DEF PolicyNext
  <2>2. PICK o \in Current : \E c \in PartialConfiguration(o, u) : Confirm(c, Operation("partial", u.only, u.set))
    BY <2>1 DEF Partial
  <2>3. PICK c \in PartialConfiguration(o, u) : Confirm(c, Operation("partial", u.only, u.set))
    BY <2>2
  <2>4. last'.names = u.only
    BY <2>3 DEF Confirm, Operation
  <2>5. PICK S : S \subseteq u.only /\ Updated(p, read, q, files, S)
    BY <2>3, PartialStep
  <2>6. q.selected = p.selected /\ q.access = p.access /\ S \subseteq p.selected
    BY <2>5 DEF Updated
  <2>7. ASSUME NEW k \in Arrivals, ~Concerns(p, last'.names, k), ~Concerns(q, last'.names, k)
        PROVE  Accepts(p, k) = Accepts(q, k)
    <3>1. S \subseteq u.only \cap p.selected /\ S \subseteq u.only \cap q.selected
      BY <2>5, <2>6
    <3>2. Avoids(p.config, S, k) /\ Avoids(q.config, S, k)
      BY <2>4, <2>7, <3>1 DEF Avoids, Concerns
    <3>3. "whitelist" \in S => ~ByBypass(p.config, k) /\ ~ByBypass(q.config, k)
      BY <2>4, <2>7, <3>1 DEF Concerns
    <3>4. k.fam \in {4, 6}
      BY ArrivalsAssumption
    <3> QED
      BY <2>5, <3>2, <3>3, <3>4, AcceptsUpdated
  <2> QED
    BY <2>6, <2>7
<1>2. PolicySpec => [][Confined]_policyVars
  BY <1>1, RecordKept, CurrentKept, RemovalKept, PTL DEF PolicySpec
<1> QED
  BY <1>2 DEF PartialConfined
=============================================================================
