---------------------------- MODULE PolicyProofs ----------------------------
(***************************************************************************)
(* Whatever is applied, updated or removed, the chains of the record are   *)
(* those its own options compile to; what these chains accept is what the  *)
(* options, the grants and the services account for; nothing gets to a     *)
(* game around the country filter, the sizes and the limits; and nothing   *)
(* is forwarded but what a grant, a publication or a tunnel accounts for.  *)
(***************************************************************************)
EXTENDS PolicyProps, FiniteSetTheorems, WellFoundedInduction, TLAPS

(***************************************************************************)
(* Records put together                                                    *)
(***************************************************************************)
LEMMA Left ==
  ASSUME NEW f, NEW g, NEW x \in DOMAIN f
  PROVE  x \in DOMAIN (f @@ g) /\ (f @@ g)[x] = f[x]
BY DEF @@

LEMMA Right ==
  ASSUME NEW f, NEW g, NEW x \in DOMAIN g, x \notin DOMAIN f
  PROVE  x \in DOMAIN (f @@ g) /\ (f @@ g)[x] = g[x]
BY DEF @@

LEMMA Together ==
  ASSUME NEW f, NEW g
  PROVE  DOMAIN (f @@ g) = DOMAIN f \cup DOMAIN g
BY DEF @@

(***************************************************************************)
(* What a configuration that is not refused has                            *)
(***************************************************************************)
Lists == {"BYPASS_SOURCE_IPS", "BYPASS_SOURCE_DOMAINS"}
Subnets == {"OVPNS2S_LOCAL_SUBNETS", "OVPNS2S_REMOTE_SUBNETS"}
Timeouts ==
  {"SSH_METER_TIMEOUT", "NFT_HTTP_HTTPS_METER_TIMEOUT", "NFT_A2S_METER_TIMEOUT", "NFT_LOGIN_METER_TIMEOUT",
   "NFT_UDP_NEW_METER_TIMEOUT"}

\* The options of a policy: every default of its modules is there, and the checks that
\* the compiler relies on hold.
Admissible(b, v, names) ==
  /\ FiniteOptions(v) /\ "BYPASS_SOURCE_IPS" \in DOMAIN v
  /\ \A m \in names : DOMAIN DefaultsOf(m) \subseteq DOMAIN v
  /\ "openvpn_sitetosite" \in names => Subnets \subseteq DOMAIN v
  /\ v.FAMILY_POLICY \in {"dual", "ipv4-block-ipv6"}
  /\ PayloadsValid(b, v, names) /\ GeoValid(v, names) /\ GameValid(v, names)
  /\ b \in {"nftables", "iptables"} /\ ("geo_country_filter" \in names => b = "nftables")

LEMMA FiniteTogether ==
  ASSUME NEW f, NEW g, FiniteOptions(f), FiniteOptions(g)
  PROVE  FiniteOptions(f @@ g)
BY DEF FiniteOptions, FiniteLists, @@

LEMMA Core ==
  /\ Lists \cup {"FAMILY_POLICY", "GEO_IPV6_POLICY"} \subseteq DOMAIN CoreDefaults
  /\ FiniteOptions(CoreDefaults)
<1>1. Lists \cup {"FAMILY_POLICY", "GEO_IPV6_POLICY"} \subseteq DOMAIN CoreDefaults
  BY DEF CoreDefaults, Lists
<1>2. CoreDefaults.BYPASS_SOURCE_IPS = {} /\ CoreDefaults.BYPASS_SOURCE_DOMAINS = {} /\ Subnets \cap DOMAIN CoreDefaults = {}
  BY DEF CoreDefaults, Subnets
<1>3. FiniteOptions(CoreDefaults)
  BY <1>2, FS_EmptySet DEF FiniteOptions, FiniteLists, Subnets
<1> QED
  BY <1>1, <1>3

LEMMA TranslatedFinite ==
  ASSUME NEW supplied, FiniteOptions(supplied)
  PROVE  FiniteOptions(Translated(supplied))
<1>1. CASE "TYPECHAIN" \notin DOMAIN supplied
  BY <1>1 DEF Translated
<1>2. CASE "TYPECHAIN" \in DOMAIN supplied
  <2>1. FiniteOptions([k \in DOMAIN supplied \ {"TYPECHAIN"} |-> supplied[k]])
    BY DEF FiniteOptions, FiniteLists
  <2>2. DOMAIN Translation(supplied.TYPECHAIN) = {"HOST_SERVICES", "CONTAINER_POLICY"}
    BY DEF Translation
  <2>3. FiniteOptions(Translation(supplied.TYPECHAIN))
    BY <2>2 DEF FiniteOptions, FiniteLists
  <2> QED
    BY <1>2, <2>1, <2>3, FiniteTogether DEF Translated
<1> QED
  BY <1>1, <1>2

\* Defaults go below what is there.
LEMMA DefaultsKeep ==
  ASSUME NEW v, NEW names
  PROVE  /\ \A k \in DOMAIN v : k \in DOMAIN WithDefaults(v, names) /\ WithDefaults(v, names)[k] = v[k]
         /\ \A m \in names : DOMAIN DefaultsOf(m) \subseteq DOMAIN WithDefaults(v, names)
<1> DEFINE keys == UNION {DOMAIN DefaultsOf(m) : m \in names}
           own == [k \in keys |-> DefaultsOf(CHOOSE m \in names : k \in DOMAIN DefaultsOf(m))[k]]
           filled == v @@ own
           tv == IF "UDP_NEW_RATE" \in DOMAIN filled
                   THEN [SOURCETV_UDP_NEW_RATE |-> filled.UDP_NEW_RATE, SOURCETV_UDP_NEW_BURST |-> filled.UDP_NEW_BURST]
                   ELSE << >>
<1>1. WithDefaults(v, names) = filled @@ tv
  BY DEF WithDefaults
<1>2. DOMAIN own = keys
  OBVIOUS
<1> HIDE DEF own, tv
<1>3. \A k \in DOMAIN v : k \in DOMAIN filled /\ filled[k] = v[k]
  BY Left
<1>4. keys \subseteq DOMAIN filled
  BY <1>2, Together
<1>5. \A k \in DOMAIN filled : k \in DOMAIN (filled @@ tv) /\ (filled @@ tv)[k] = filled[k]
  BY Left
<1> QED
  BY <1>1, <1>3, <1>4, <1>5

\* The networks of a tunnel have no defaults.
LEMMA SubnetsGiven ==
  ASSUME NEW v, NEW names, NEW explicit, NEW k \in Subnets
  PROVE  /\ k \in DOMAIN WithDefaults(v, names) => k \in DOMAIN v
         /\ k \in DOMAIN Fitted(v, names, explicit) => k \in DOMAIN v
<1> DEFINE keys == UNION {DOMAIN DefaultsOf(m) : m \in names}
           own == [x \in keys |-> DefaultsOf(CHOOSE m \in names : x \in DOMAIN DefaultsOf(m))[x]]
           filled == v @@ own
           tv == IF "UDP_NEW_RATE" \in DOMAIN filled
                   THEN [SOURCETV_UDP_NEW_RATE |-> filled.UDP_NEW_RATE, SOURCETV_UDP_NEW_BURST |-> filled.UDP_NEW_BURST]
                   ELSE << >>
           short == {q \in Needs(v, names) : q[1] \notin explicit /\ ~Covered(v, q)}
           longer == [t \in {q[1] : q \in short} |-> (CHOOSE q \in short : q[1] = t)[2]]
<1>1. ASSUME NEW m PROVE k \notin DOMAIN DefaultsOf(m)
  BY DEF DefaultsOf, Subnets, GamePorts, @@
<1>2. k \notin DOMAIN own
  BY <1>1
<1>3. k \notin DOMAIN tv
  <2> HIDE DEF filled
  <2> QED
    BY DEF Subnets
<1>4. WithDefaults(v, names) = filled @@ tv
  BY DEF WithDefaults
<1>5. Fitted(v, names, explicit) = longer @@ v
  BY DEF Fitted
<1>6. ASSUME NEW q \in Needs(v, names) PROVE q[1] \in Timeouts
  BY DEF Needs, Timeouts, TcpMeters
<1>7. k \notin DOMAIN longer
  BY <1>6 DEF Subnets, Timeouts
<1> HIDE DEF own, tv, longer
<1>8. /\ DOMAIN filled = DOMAIN v \cup DOMAIN own
      /\ DOMAIN Fitted(v, names, explicit) = DOMAIN longer \cup DOMAIN v
  BY <1>5, Together
<1> HIDE DEF filled
<1>9. DOMAIN WithDefaults(v, names) = DOMAIN filled \cup DOMAIN tv
  BY <1>4, Together
<1> QED
  BY <1>2, <1>3, <1>7, <1>8, <1>9

\* Only timeouts grow.
LEMMA FittedKeeps ==
  ASSUME NEW v, NEW names, NEW explicit, NEW k \in DOMAIN v
  PROVE  k \in DOMAIN Fitted(v, names, explicit) /\ (k \notin Timeouts => Fitted(v, names, explicit)[k] = v[k])
<1> DEFINE short == {q \in Needs(v, names) : q[1] \notin explicit /\ ~Covered(v, q)}
           longer == [t \in {q[1] : q \in short} |-> (CHOOSE q \in short : q[1] = t)[2]]
<1>1. Fitted(v, names, explicit) = longer @@ v
  BY DEF Fitted
<1>2. ASSUME NEW q \in Needs(v, names) PROVE q[1] \in Timeouts
  BY DEF Needs, Timeouts, TcpMeters
<1>3. DOMAIN longer \subseteq Timeouts
  BY <1>2
<1> HIDE DEF longer
<1> QED
  BY <1>1, <1>3 DEF @@

LEMMA ResolvedKeeps ==
  ASSUME NEW v, NEW f, NEW k \in DOMAIN v
  PROVE  /\ k \in DOMAIN Resolved(v, f)
         /\ k \notin Lists \cup {"ACCESS_POLICY"} => Resolved(v, f)[k] = v[k]
BY DEF Resolved, Lists, @@

LEMMA ImageFinite ==
  ASSUME NEW f, IsFiniteSet(DOMAIN f), f = [x \in DOMAIN f |-> f[x]]
  PROVE  IsFiniteSet({f[x] : x \in DOMAIN f})
<1>1. f \in Surjection(DOMAIN f, {f[x] : x \in DOMAIN f})
  BY DEF Surjection
<1> QED
  BY <1>1, FS_Surjection

LEMMA ResolvedFinite ==
  ASSUME NEW v, NEW f, FiniteOptions(v), Lists \subseteq DOMAIN v, DnsValid(v, f),
         \A d \in DOMAIN f.dns : IsFiniteSet(f.dns[d])
  PROVE  FiniteOptions(Resolved(v, f)) /\ "BYPASS_SOURCE_IPS" \in DOMAIN Resolved(v, f)
<1>1. IsFiniteSet(v.BYPASS_SOURCE_IPS) /\ IsFiniteSet(v.BYPASS_SOURCE_DOMAINS)
  BY DEF FiniteOptions, FiniteLists, Lists
<1>2. IsFiniteSet({f.dns[d] : d \in v.BYPASS_SOURCE_DOMAINS})
  <2> DEFINE of == [d \in v.BYPASS_SOURCE_DOMAINS |-> f.dns[d]]
  <2>1. IsFiniteSet({of[d] : d \in DOMAIN of})
    BY <1>1, ImageFinite
  <2> QED
    BY <2>1
<1>3. IsFiniteSet(Answers(v, f))
  BY <1>2, FS_UNION DEF Answers, DnsValid
<1>4. IsFiniteSet({{a} : a \in Answers(v, f)})
  <2> DEFINE of == [a \in Answers(v, f) |-> {a}]
  <2>1. IsFiniteSet({of[a] : a \in DOMAIN of})
    BY <1>3, ImageFinite
  <2> QED
    BY <2>1
<1>5. IsFiniteSet(v.BYPASS_SOURCE_IPS \cup {{a} : a \in Answers(v, f)})
  BY <1>1, <1>4, FS_Union
<1>6. /\ Lists \subseteq DOMAIN Resolved(v, f)
      /\ Resolved(v, f).BYPASS_SOURCE_IPS = v.BYPASS_SOURCE_IPS \cup {{a} : a \in Answers(v, f)}
      /\ Resolved(v, f).BYPASS_SOURCE_DOMAINS = {}
  BY DEF Resolved, Lists, @@
<1>7. ASSUME NEW k \in Subnets \cap DOMAIN Resolved(v, f) PROVE IsFiniteSet(Resolved(v, f)[k])
  <2>1. k \in DOMAIN v /\ k \notin Lists \cup {"ACCESS_POLICY"}
    BY DEF Resolved, Subnets, Lists, @@
  <2> QED
    BY <2>1, ResolvedKeeps DEF FiniteOptions, FiniteLists, Subnets
<1> QED
  BY <1>5, <1>6, <1>7, FS_EmptySet DEF FiniteOptions, FiniteLists, Lists, Subnets

\* What is checked before the answers are filled in holds after.
LEMMA ConfiguredIs ==
  ASSUME NEW r, NEW f, FiniteOptions(r.supplied), \A d \in DOMAIN f.dns : IsFiniteSet(f.dns[d]), NEW c \in Configured(r, f)
  PROVE  /\ c = [backend |-> c.backend, config |-> c.config, selected |-> c.selected, access |-> c.access]
         /\ Admissible(c.backend, c.config, c.selected)
         /\ r.normalized => c.access = r.access
         /\ ~r.normalized => \E a \in DOMAIN f.access : c.access = f.access[a]
<1> DEFINE v0 == Translated(r.supplied) @@ CoreDefaults
           names == Selection(r, v0)
           v1 == WithDefaults(v0, names)
           v == Fitted(v1, names, r.explicit)
           w == Resolved(v, f)
           access == IF r.normalized THEN r.access ELSE f.access[v0.ACCESS_POLICY]
<1>1. /\ c = [backend |-> r.backend, config |-> w, selected |-> names, access |-> access]
      /\ r.normalized \/ v0.ACCESS_POLICY \in DOMAIN f.access
      /\ PoliciesValid(r.backend, v1) /\ PayloadsValid(r.backend, v1, names)
      /\ GeoValid(v, names) /\ GameValid(v, names) /\ DnsValid(v, f) /\ SelectionValid(r, v0)
      /\ \A m \in names : RequiredOf(m) \subseteq DOMAIN v0
  BY DEF Configured
<1>14. r.backend \in {"nftables", "iptables"} /\ ("geo_country_filter" \in names => r.backend = "nftables")
  <2>1. "geo_country_filter" \in Catalog(r.backend) => r.backend = "nftables"
    BY DEF Catalog, Game
  <2>2. \A p \in DOMAIN Profiles : "geo_country_filter" \notin Profiles[p]
    BY DEF Profiles, Game
  <2>3. names \subseteq Listed(r, v0) \cup IF FallsBack(r, v0) THEN UNION {Profiles[p] : p \in ChosenProfiles(r, v0)} ELSE {}
    BY DEF Selection
  <2> QED
    BY <2>1, <2>2, <2>3, <1>1 DEF SelectionValid
<1> HIDE DEF names, v1, v, w, access
<1>2. FiniteOptions(v0) /\ Lists \cup {"FAMILY_POLICY", "GEO_IPV6_POLICY"} \subseteq DOMAIN v0
  BY TranslatedFinite, Core, FiniteTogether, Together
<1> HIDE DEF v0
<1>3. /\ \A k \in DOMAIN v0 : k \in DOMAIN v1 /\ v1[k] = v0[k]
      /\ \A m \in names : DOMAIN DefaultsOf(m) \subseteq DOMAIN v1
  BY DefaultsKeep DEF v1
<1>4. \A k \in DOMAIN v1 : k \in DOMAIN v /\ (k \notin Timeouts => v[k] = v1[k])
  BY FittedKeeps DEF v
<1>5. \A k \in DOMAIN v : k \in DOMAIN w /\ (k \notin Lists \cup {"ACCESS_POLICY"} => w[k] = v[k])
  BY ResolvedKeeps DEF w
<1>6. FiniteOptions(v) /\ Lists \subseteq DOMAIN v
  <2>1. \A k \in Subnets \cap DOMAIN v : k \in DOMAIN v0
    BY SubnetsGiven DEF v, v1
  <2> QED
    BY <2>1, <1>2, <1>3, <1>4 DEF FiniteOptions, FiniteLists, Lists, Subnets, Timeouts
<1>7. FiniteOptions(w) /\ "BYPASS_SOURCE_IPS" \in DOMAIN w
  BY <1>1, <1>6, ResolvedFinite DEF w
<1>8. \A m \in names : DOMAIN DefaultsOf(m) \subseteq DOMAIN v /\ DOMAIN DefaultsOf(m) \subseteq DOMAIN w
  BY <1>3, <1>4, <1>5
<1>9. v.FAMILY_POLICY = v1.FAMILY_POLICY /\ w.FAMILY_POLICY = v1.FAMILY_POLICY
  BY <1>2, <1>3, <1>4, <1>5 DEF Timeouts, Lists
<1>10. PayloadsValid(r.backend, w, names) /\ w.FAMILY_POLICY \in {"dual", "ipv4-block-ipv6"}
  BY <1>1, <1>9 DEF PayloadsValid, PoliciesValid
<1>11. GeoValid(w, names)
  <2>1. CASE "geo_country_filter" \notin names
    BY <2>1 DEF GeoValid, GeoOn
  <2>2. CASE "geo_country_filter" \in names
    <3>1. "GEO_POLICY_MODE" \in DOMAIN v
      <4>1. "GEO_POLICY_MODE" \in DOMAIN DefaultsOf("geo_country_filter")
        BY DEF DefaultsOf, @@
      <4> QED
        BY <4>1, <1>8, <2>2
    <3>2. "GEO_IPV6_POLICY" \in DOMAIN v
      BY <1>2, <1>3, <1>4
    <3> QED
      BY <3>1, <3>2, <1>1, <1>5, <1>9 DEF GeoValid, GeoOn, Lists
  <2> QED
    BY <2>1, <2>2
<1>12. GameValid(w, names)
  <2>1. CASE names \cap Game = {}
    BY <2>1 DEF GameValid
  <2>2. CASE names \cap Game # {}
    <3>1. PICK m \in names : m \in Game
      BY <2>2
    <3>2. {"L4D2_GAMESERVER_UDP_PORTS", "L4D2_SOURCETV_UDP_PORTS"} \subseteq DOMAIN DefaultsOf(m)
      BY <3>1 DEF DefaultsOf, Game, GamePorts, @@
    <3>3. /\ w.L4D2_GAMESERVER_UDP_PORTS = v.L4D2_GAMESERVER_UDP_PORTS
          /\ w.L4D2_SOURCETV_UDP_PORTS = v.L4D2_SOURCETV_UDP_PORTS
      BY <3>1, <3>2, <1>5, <1>8 DEF Lists
    <3>4. "BYPASS_UDP_PORTS" \in DOMAIN w => "BYPASS_UDP_PORTS" \in DOMAIN v
      BY DEF w, Resolved, @@
    <3>5. Get(w, "BYPASS_UDP_PORTS", {}) = Get(v, "BYPASS_UDP_PORTS", {})
      BY <3>4, <1>5 DEF Get, Lists
    <3> QED
      BY <2>2, <3>3, <3>5, <1>1 DEF GameValid
  <2> QED
    BY <2>1, <2>2
<1>13. "openvpn_sitetosite" \in names => Subnets \subseteq DOMAIN w
  <2>1. Subnets \subseteq RequiredOf("openvpn_sitetosite")
    BY DEF RequiredOf, Subnets
  <2> QED
    BY <2>1, <1>1, <1>3, <1>4, <1>5
<1>15. Admissible(r.backend, w, names)
  BY <1>7, <1>8, <1>10, <1>11, <1>12, <1>13, <1>14 DEF Admissible
<1> QED
  BY <1>1, <1>15 DEF access

(***************************************************************************)
(* The record                                                              *)
(***************************************************************************)
\* A record has finite lists, and that of this release the chains its options give
\* with the prefixes that were read for it.
AsCompiled(p, f) == p.chains = ChainsOf(p.backend = "nftables", p.config, p.selected, p.access, f)
Kept(p, f) ==
  /\ {"schema", "chains", "backend", "config", "selected", "access"} \subseteq DOMAIN p
  /\ FiniteOptions(p.config) /\ Enumerated(p.access)
  /\ p.schema # 1 => Admissible(p.backend, p.config, p.selected) /\ AsCompiled(p, f)
FilesFinite == FiniteGrants(files.access) /\ \A d \in DOMAIN files.dns : IsFiniteSet(files.dns[d])
RecordInv == FilesFinite /\ \A i \in DOMAIN record : Kept(record[i], read)

\* A policy that is generated has the options of its configuration, and their chains.
LEMMA GeneratedIs ==
  ASSUME NEW f, NEW c, NEW p \in Generated(c, f),
         c = [backend |-> c.backend, config |-> c.config, selected |-> c.selected, access |-> c.access]
  PROVE  /\ p.backend = c.backend /\ p.config = c.config /\ p.selected = c.selected /\ p.access = c.access
         /\ DOMAIN p = {"schema", "chains", "backend", "config", "selected", "access"}
         /\ p.schema \in {2, 3} /\ AsCompiled(p, f)
<1> DEFINE chains == ChainsOf(c.backend = "nftables", c.config, c.selected, c.access, f)
           schema == IF chains[<<Host, "shared">>] # <<>> THEN 3 ELSE 2
<1>1. p = [schema |-> schema, chains |-> chains] @@ c
  BY DEF Generated
<1>2. schema \in {2, 3}
  OBVIOUS
<1> HIDE DEF chains, schema
<1>3. DOMAIN c = {"backend", "config", "selected", "access"}
  OBVIOUS
<1>4. p.backend = c.backend /\ p.config = c.config /\ p.selected = c.selected /\ p.access = c.access
  BY <1>1, <1>3, Right
<1>5. p.schema = schema /\ p.chains = chains
  BY <1>1, Left
<1>6. DOMAIN p = {"schema", "chains", "backend", "config", "selected", "access"}
  <2>1. DOMAIN p = DOMAIN [schema |-> schema, chains |-> chains] \cup DOMAIN c
    BY <1>1, Together
  <2> QED
    BY <2>1, <1>3
<1> QED
  BY <1>2, <1>4, <1>5, <1>6 DEF chains, AsCompiled

\* So one that is generated from a configuration is as a record should be.
LEMMA CandidateKept ==
  ASSUME NEW f, \A d \in DOMAIN f.dns : IsFiniteSet(f.dns[d]), NEW r, FiniteOptions(r.supplied),
         NEW c \in Configured(r, f), Enumerated(c.access), NEW p \in Generated(c, f)
  PROVE  Kept(p, f)
<1>1. /\ c = [backend |-> c.backend, config |-> c.config, selected |-> c.selected, access |-> c.access]
      /\ Admissible(c.backend, c.config, c.selected)
  BY ConfiguredIs
<1> QED
  BY <1>1, GeneratedIs DEF Kept, Admissible

LEMMA FirstAccess ==
  ASSUME FilesFinite, NEW r, ~r.normalized, FiniteOptions(r.supplied), NEW c \in Configured(r, files)
  PROVE  Enumerated(c.access)
BY ConfiguredIs DEF FilesFinite, FiniteGrants

\* The records of an older release.
LEMMA OlderKept ==
  ASSUME files = Disk, NEW p \in OlderRecords, NEW f
  PROVE  Kept(p, f)
<1>1. FilesFinite
  BY PolicyAssumption DEF FilesFinite
<1>2. PICK q \in UNION {Generated(c, Disk) : c \in UNION {Configured(r, Disk) : r \in Requests}},
                t \in {0, 1, 2}, dimensions \in BOOLEAN :
        p = Older(q, t, dimensions)
  <2> DEFINE candidates == UNION {Generated(c, Disk) : c \in UNION {Configured(r, Disk) : r \in Requests}}
             policies == {q \in candidates : q.schema = 2}
             Told(q) == {t \in {0, 1, 2} : \A k \in Dimensions : Translation(t)[k] = q.config[k]}
  <2>1. p \in {Older(q, 0, TRUE) : q \in policies} \cup UNION {{Older(q, t, FALSE) : t \in Told(q)} : q \in policies}
    BY DEF OlderRecords
  <2>2. \A q \in policies : Told(q) \subseteq {0, 1, 2}
    OBVIOUS
  <2>3. policies \subseteq candidates
    OBVIOUS
  <2> HIDE DEF candidates, Told, policies
  <2>4. \E q \in candidates, t \in {0, 1, 2}, dimensions \in BOOLEAN : p = Older(q, t, dimensions)
    BY <2>1, <2>2, <2>3
  <2> QED
    BY <2>4 DEF candidates
<1>3. PICK c \in UNION {Configured(r, Disk) : r \in Requests} : q \in Generated(c, Disk)
  OBVIOUS
<1>4. Kept(q, Disk) /\ q.schema \in {2, 3}
  <2>1. PICK r \in Requests : c \in Configured(r, Disk)
    OBVIOUS
  <2>2. FiniteOptions(r.supplied) /\ ~r.normalized /\ \A d \in DOMAIN Disk.dns : IsFiniteSet(Disk.dns[d])
    BY PolicyAssumption
  <2>3. Enumerated(c.access)
    BY <1>1, <2>1, <2>2, FirstAccess
  <2>4. Kept(q, Disk)
    BY <1>3, <2>1, <2>2, <2>3, CandidateKept
  <2>5. c = [backend |-> c.backend, config |-> c.config, selected |-> c.selected, access |-> c.access]
    BY <2>1, <2>2, ConfiguredIs
  <2> QED
    BY <1>3, <2>4, <2>5, GeneratedIs
<1>5. FiniteOptions([TYPECHAIN |-> t, ACCESS_POLICY |-> "acl"]
                    @@ Without(q.config, IF dimensions THEN {} ELSE Dimensions))
  <2>1. FiniteOptions([TYPECHAIN |-> t, ACCESS_POLICY |-> "acl"])
    BY DEF FiniteOptions, FiniteLists
  <2>2. FiniteOptions(Without(q.config, IF dimensions THEN {} ELSE Dimensions))
    BY <1>4 DEF Kept, FiniteOptions, FiniteLists, Without
  <2> QED
    BY <2>1, <2>2, FiniteTogether
<1>6. /\ p.schema = 1 /\ p.access = q.access /\ DOMAIN p = DOMAIN q
      /\ p.config = [TYPECHAIN |-> t, ACCESS_POLICY |-> "acl"] @@ Without(q.config, IF dimensions THEN {} ELSE Dimensions)
  BY <1>2, <1>4 DEF Older, Kept
<1> QED
  BY <1>4, <1>5, <1>6 DEF Kept

\* What the next policy starts from.
LEMMA CurrentFinite ==
  ASSUME RecordInv, NEW p \in Current
  PROVE  FiniteOptions(p.config) /\ Enumerated(p.access)
<1>1. PICK i \in DOMAIN record : p \in Migrated(record[i])
  BY DEF Current
<1> DEFINE b == record[i]
<1>2. Kept(b, read)
  BY DEF RecordInv
<1> HIDE DEF b
<1>3. p \in Migrated(b)
  BY <1>1 DEF b
<1>4. CASE p = b
  BY <1>2, <1>4 DEF Kept
<1>5. CASE p # b
  <2>1. PICK config \in LegacyDimensions(b.config) :
          p = [b EXCEPT !.config = [ACCESS_POLICY |-> ""] @@ config, !.schema = 2]
    BY <1>3, <1>5 DEF Migrated
  <2>2. FiniteOptions(Without(b.config, {"TYPECHAIN"}))
    BY <1>2 DEF Kept, FiniteOptions, FiniteLists, Without
  <2>3. FiniteOptions(Translation(b.config.TYPECHAIN))
    <3>1. DOMAIN Translation(b.config.TYPECHAIN) = {"HOST_SERVICES", "CONTAINER_POLICY"}
      BY DEF Translation
    <3> QED
      BY <3>1 DEF FiniteOptions, FiniteLists
  <2>4. FiniteOptions(config)
    BY <2>1, <2>2, <2>3, FiniteTogether DEF LegacyDimensions
  <2>5. FiniteOptions([ACCESS_POLICY |-> ""])
    BY DEF FiniteOptions, FiniteLists
  <2>6. p.config = [ACCESS_POLICY |-> ""] @@ config /\ p.access = b.access
    BY <2>1, <1>2 DEF Kept
  <2> QED
    BY <2>4, <2>5, <2>6, <1>2, FiniteTogether DEF Kept
<1> QED
  BY <1>4, <1>5

\* A configuration read back from a record.
LEMMA RereadFinite ==
  ASSUME FilesFinite, NEW p, NEW config, FiniteOptions(config), NEW selected, NEW access, NEW set,
         NEW c \in Reread(p, config, selected, access, set)
  PROVE  /\ \E r : FiniteOptions(r.supplied) /\ c \in Configured(r, files)
         /\ c.access = access /\ FiniteOptions(c.config)
<1> DEFINE r == Normalized(p.backend, config, selected, access, DOMAIN set)
<1>1. r.supplied = [ACCESS_POLICY |-> ""] @@ config /\ r.normalized /\ r.access = access
  BY DEF Normalized
<1>2. FiniteOptions([ACCESS_POLICY |-> ""])
  BY DEF FiniteOptions, FiniteLists
<1>3. FiniteOptions(r.supplied)
  BY <1>1, <1>2, FiniteTogether
<1>4. c \in Configured(r, files)
  BY DEF Reread
<1> HIDE DEF r
<1> QED
  BY <1>1, <1>3, <1>4, ConfiguredIs DEF FilesFinite, Admissible

LEMMA MergedFinite ==
  ASSUME RecordInv, NEW p \in Current, NEW set, FiniteOptions(set), NEW c \in Merged(p, set)
  PROVE  /\ \E r : FiniteOptions(r.supplied) /\ c \in Configured(r, files)
         /\ Enumerated(c.access) /\ FiniteOptions(c.config)
<1> DEFINE named == "ACCESS_POLICY" \in DOMAIN set
           access == IF named THEN files.access[set.ACCESS_POLICY] ELSE p.access
<1>1. c \in Reread(p, set @@ p.config, p.selected, access, set) /\ (named => set.ACCESS_POLICY \in DOMAIN files.access)
  BY DEF Merged
<1>2. FiniteOptions(set @@ p.config) /\ Enumerated(p.access) /\ FilesFinite
  BY CurrentFinite, FiniteTogether DEF RecordInv
<1>3. Enumerated(access)
  BY <1>1, <1>2 DEF FilesFinite, FiniteGrants
<1> HIDE DEF access
<1> QED
  BY <1>1, <1>2, <1>3, RereadFinite

\* What is confirmed becomes the record, compiled from the files of now.
LEMMA ConfirmKeeps ==
  ASSUME RecordInv, NEW r, FiniteOptions(r.supplied), NEW c \in Configured(r, files), Enumerated(c.access),
         NEW operation, Confirm(c, operation)
  PROVE  RecordInv'
<1>1. PICK p \in Generated(c, files) : record' = <<p>> /\ read' = files /\ files' = files
  BY DEF Confirm
<1>2. Kept(p, files)
  BY CandidateKept DEF RecordInv, FilesFinite
<1> QED
  BY <1>1, <1>2 DEF RecordInv, FilesFinite

LEMMA RecordKept == PolicySpec => []RecordInv
<1>1. PolicyInit => RecordInv
  <2> SUFFICES ASSUME PolicyInit PROVE RecordInv
    OBVIOUS
  <2>1. FilesFinite
    BY PolicyAssumption DEF PolicyInit, FilesFinite
  <2> QED
    BY <2>1, OlderKept DEF PolicyInit, RecordInv
<1>2. RecordInv /\ [PolicyNext]_policyVars => RecordInv'
  <2> SUFFICES ASSUME RecordInv, [PolicyNext]_policyVars PROVE RecordInv'
    OBVIOUS
  <2>1. ASSUME NEW r \in Requests, Apply(r) PROVE RecordInv'
    <3>1. PICK c \in Configured(r, files) : Confirm(c, [Operation("apply", {}, << >>) EXCEPT !.set = r.supplied])
      BY <2>1 DEF Apply
    <3>2. FiniteOptions(r.supplied) /\ ~r.normalized
      BY PolicyAssumption
    <3> QED
      BY <3>1, <3>2, FirstAccess, ConfirmKeeps DEF RecordInv
  <2>2. ASSUME NEW u \in Updates, Partial(u) PROVE RecordInv'
    <3>1. PICK p \in Current : \E c \in PartialConfiguration(p, u) : Confirm(c, Operation("partial", u.only, u.set))
      BY <2>2 DEF Partial
    <3>2. PICK c \in PartialConfiguration(p, u) : Confirm(c, Operation("partial", u.only, u.set))
      BY <3>1
    <3>3. c \in Merged(p, u.set) /\ FiniteOptions(u.set)
      BY PolicyAssumption DEF PartialConfiguration
    <3>4. Enumerated(c.access) /\ \E r : FiniteOptions(r.supplied) /\ c \in Configured(r, files)
      BY <3>3, MergedFinite
    <3> QED
      BY <3>2, <3>4, ConfirmKeeps
  <2>3. ASSUME NEW d \in Removals, Remove(d) PROVE RecordInv'
    <3>1. PICK p \in Current : \E next \in RemoveConfiguration(p, d) : Confirm(next, Operation("remove", d.names, d.set))
      BY <2>3 DEF Remove
    <3>2. PICK next \in RemoveConfiguration(p, d) : Confirm(next, Operation("remove", d.names, d.set))
      BY <3>1
    <3>3. PICK c \in Merged(p, d.set) : \E remaining : next \in Reread(p, c.config, remaining, c.access, d.set)
      <4> DEFINE Rest(n) == p.selected \ n.selected
                 After(c) == UNION {IF Rest(n) = {} THEN {} ELSE
                                      {x \in Reread(p, c.config, Rest(n), c.access, d.set) :
                                         \A g \in Containers(x.access) : g.service \in x.selected}
                                    : n \in Named(p, c, d.names, d.set)}
      <4>1. PICK c \in Merged(p, d.set) : next \in After(c)
        BY DEF RemoveConfiguration
      <4>2. PICK n \in Named(p, c, d.names, d.set) : next \in Reread(p, c.config, Rest(n), c.access, d.set)
        BY <4>1
      <4> QED
        BY <4>2
    <3>4. Enumerated(c.access) /\ FiniteOptions(c.config) /\ FilesFinite
      BY PolicyAssumption, MergedFinite DEF RecordInv
    <3>5. (\E r : FiniteOptions(r.supplied) /\ next \in Configured(r, files)) /\ next.access = c.access
      BY <3>3, <3>4, RereadFinite
    <3> QED
      BY <3>2, <3>4, <3>5, ConfirmKeeps
  <2>4. CASE EditAccess
    BY <2>4, PolicyAssumption DEF EditAccess, Undisturbed, RecordInv, FilesFinite
  <2>5. CASE UpdateStarts
    BY <2>5 DEF UpdateStarts, RecordInv, FilesFinite
  <2>6. CASE CountryReplaced
    BY <2>6 DEF CountryReplaced, RecordInv, FilesFinite
  <2>7. CASE UNCHANGED policyVars
    BY <2>7 DEF policyVars, RecordInv, FilesFinite
  <2> QED
    BY <2>1, <2>2, <2>3, <2>4, <2>5, <2>6, <2>7 DEF PolicyNext
<1> QED
  BY <1>1, <1>2, PTL DEF PolicySpec

(***************************************************************************)
(* Chains                                                                  *)
(***************************************************************************)
Members(s) == {s[i] : i \in DOMAIN s}
IsList(s) == Len(s) \in Nat /\ s \in [1..Len(s) -> Members(s)]

LEMMA ListFacts ==
  /\ \A s : IsList(s) => DOMAIN s = 1..Len(s) /\ s \in Seq(Members(s))
  /\ \A s, S : s \in Seq(S) => IsList(s) /\ Members(s) \subseteq S
BY DEF IsList, Members

\* What follows a list keeps its place after it.
LEMMA Joined ==
  ASSUME NEW s, NEW t, IsList(s), IsList(t)
  PROVE  /\ IsList(s \o t) /\ Len(s \o t) = Len(s) + Len(t)
         /\ \A i \in 1..Len(s) : (s \o t)[i] = s[i]
         /\ \A i \in 1..Len(t) : (s \o t)[Len(s) + i] = t[i]
         /\ Members(s \o t) = Members(s) \cup Members(t)
<1>1. s \in Seq(Members(s) \cup Members(t)) /\ t \in Seq(Members(s) \cup Members(t))
  BY ListFacts DEF IsList
<1>2. s \o t \in Seq(Members(s) \cup Members(t)) /\ Len(s \o t) = Len(s) + Len(t)
  BY <1>1
<1>3. /\ \A i \in 1..Len(s) : (s \o t)[i] = s[i]
      /\ \A i \in 1..Len(t) : (s \o t)[Len(s) + i] = t[i]
  BY <1>1
<1>4. IsList(s \o t) /\ DOMAIN (s \o t) = 1..(Len(s) + Len(t))
  BY <1>2, ListFacts
<1>5. Members(s) \subseteq Members(s \o t)
  BY <1>3, <1>4 DEF Members, IsList
<1>6. ASSUME NEW i \in DOMAIN t PROVE t[i] \in Members(s \o t)
  <2>1. i \in 1..Len(t) /\ Len(s) \in Nat /\ Len(t) \in Nat
    BY DEF IsList
  <2>2. Len(s) + i \in DOMAIN (s \o t)
    BY <2>1, <1>4
  <2> QED
    BY <2>1, <2>2, <1>3 DEF Members
<1>7. Members(t) \subseteq Members(s \o t)
  BY <1>6 DEF Members
<1> QED
  BY <1>2, <1>3, <1>4, <1>5, <1>7, ListFacts

LEMMA OnlyList ==
  ASSUME NEW condition, NEW s, IsList(s)
  PROVE  /\ IsList(Only(condition, s))
         /\ Members(Only(condition, s)) \subseteq Members(s)
         /\ condition => Only(condition, s) = s
         /\ ~condition => Members(Only(condition, s)) = {}
<1>1. IsList(<<>>) /\ Members(<<>>) = {}
  BY DEF IsList, Members
<1> QED
  BY <1>1 DEF Only

\* A finite set in some order, none of its members left out.
LEMMA InOrder ==
  ASSUME NEW S, IsFiniteSet(S)
  PROVE  IsList(SX!SetToSeq(S)) /\ Members(SX!SetToSeq(S)) = S
<1> DEFINE n == Cardinality(S)
           s == SX!SetToSeq(S)
<1>1. n \in Nat /\ \E f \in [1..n -> S] : SX!IsInjective(f)
  BY FS_CardinalityType DEF ExistsBijection, Bijection, Injection, IsInjective, SX!IsInjective
<1>2. s \in [1..n -> S] /\ SX!IsInjective(s)
  <2>1. SX!Cardinality(S) = n
    BY DEF SX!Cardinality, Cardinality
  <2>2. SX!SetToSeq(S) = CHOOSE f \in [1..n -> S] : SX!IsInjective(f)
    BY <2>1 DEF SX!SetToSeq
  <2> QED
    BY <1>1, <2>2
<1> HIDE DEF s
<1>3. s \in Injection(1..n, S)
  BY <1>2 DEF Injection, IsInjective, SX!IsInjective
<1>4. Cardinality(1..n) = n
  BY <1>1, FS_Interval
<1>5. s \in Surjection(1..n, S)
  BY <1>3, <1>4, FS_Injection
<1>6. S \subseteq Members(s)
  BY <1>2, <1>5 DEF Surjection, Members
<1>7. s \in Seq(S)
  BY <1>1, <1>2
<1> QED
  BY <1>6, <1>7, ListFacts DEF s

(***************************************************************************)
(* Verdicts                                                                *)
(***************************************************************************)
VerdictOf(rule, says) == IF rule.to = "jump" THEN says[rule.chain] ELSE rule.to

LEMMA Least ==
  ASSUME NEW S, S \subseteq Nat, S # {}
  PROVE  \E n \in S : \A m \in S : n <= m
<1> DEFINE less == {ss \in Nat \X Nat : ss[1] < ss[2]}
<1>1. IsWellFoundedOn(less, Nat)
  BY NatLessThanWellFounded DEF OpToRel
<1>2. \E n \in S : \A m \in S : <<m, n>> \notin less
  <2> HIDE DEF less
  <2> QED
    BY <1>1, WFMin
<1>3. PICK n \in S : \A m \in S : <<m, n>> \notin less
  BY <1>2
<1>4. ASSUME NEW m \in S PROVE n <= m
  <2>1. ~(<<m, n>>[1] < <<m, n>>[2])
    <3>1. <<m, n>> \in Nat \X Nat
      OBVIOUS
    <3> QED
      BY <3>1, <1>3, Zenon
  <2>2. ~(m < n) /\ m \in Nat /\ n \in Nat
    BY <2>1
  <2> QED
    BY <2>2
<1> QED
  BY <1>4

\* The verdict of a chain is that of the first rule that decides.
LEMMA FirstDecides ==
  ASSUME NEW s, IsList(s), NEW k, NEW says, FirstOf(s, k, says) # "return"
  PROVE  \E i \in DOMAIN s :
           /\ Decides(s[i], k, says) /\ \A j \in 1..(i - 1) : ~Decides(s[j], k, says)
           /\ FirstOf(s, k, says) = VerdictOf(s[i], says)
<1> DEFINE deciding == {i \in DOMAIN s : Decides(s[i], k, says)}
           First(i) == Decides(s[i], k, says) /\ \A j \in 1..(i - 1) : ~Decides(s[j], k, says)
<1>1. DOMAIN s = 1..Len(s) /\ Len(s) \in Nat /\ deciding \subseteq Nat
  BY ListFacts DEF IsList
<1>2. deciding # {}
  BY DEF FirstOf
<1>3. PICK i \in deciding : \A j \in deciding : i <= j
  BY <1>1, <1>2, Least
<1>4. i \in DOMAIN s /\ First(i)
  BY <1>1, <1>3
<1>5. (CHOOSE i_1 \in DOMAIN s : First(i_1)) \in DOMAIN s /\ First(CHOOSE i_1 \in DOMAIN s : First(i_1))
  BY <1>4
<1>6. FirstOf(s, k, says) = VerdictOf(s[CHOOSE i_1 \in DOMAIN s : First(i_1)], says)
  BY <1>2 DEF FirstOf, VerdictOf
<1> QED
  BY <1>5, <1>6

LEMMA Mapped ==
  ASSUME NEW s, IsList(s), NEW f, f = [i \in DOMAIN s |-> f[i]]
  PROVE  IsList(f) /\ DOMAIN f = DOMAIN s
<1>1. DOMAIN s = 1..Len(s) /\ Len(s) \in Nat
  BY ListFacts DEF IsList
<1>2. f \in [1..Len(s) -> Members(f)]
  BY <1>1 DEF Members
<1>3. f \in Seq(Members(f))
  BY <1>1, <1>2
<1> QED
  BY <1>1, <1>2, <1>3, ListFacts

(***************************************************************************)
(* The rules of the host: what a packet has that one of them opens to      *)
(***************************************************************************)
\* closed has the chains that accept nothing: the gate of the country filter.
Gate == <<Host, "geo_country_gate_v4">>
Opens(closed, rule) == rule.to = "accept" \/ (rule.to = "jump" /\ rule.chain \notin closed)

\* The packet satisfies the conditions of a rule other than those on some fields.
Fits(rule, k, but) == \A field \in DOMAIN rule.on \ but : k[field] \in rule.on[field]

LEMMA RuleIs ==
  ASSUME NEW on, NEW to
  PROVE  Rule(on, to).on = on /\ Rule(on, to).to = to /\ Rule(on, to).chain = <<>>
BY DEF Rule

LEMMA JumpIs ==
  ASSUME NEW on, NEW chain
  PROVE  Jump(on, chain).on = on /\ Jump(on, chain).to = "jump" /\ Jump(on, chain).chain = chain
BY DEF Jump

LEMMA BothMembers ==
  ASSUME NEW on, NEW rules, NEW r \in Members(Both(on, rules))
  PROVE  \E q \in Members(rules) : r.to = q.to /\ r.chain = q.chain /\ r.on = on @@ q.on
<1>1. PICK i \in DOMAIN rules : r = [on |-> on @@ rules[i].on, to |-> rules[i].to, chain |-> rules[i].chain]
  BY DEF Both, Members
<1> QED
  BY <1>1 DEF Members

\* A rule that was given more conditions asks for these, and for what it asked of the
\* other fields.
LEMMA Narrowed ==
  ASSUME NEW on, NEW rules, IsList(rules), NEW r \in Members(Both(on, rules)), NEW k, NEW but, Fits(r, k, but)
  PROVE  /\ \A field \in DOMAIN on \ but : k[field] \in on[field]
         /\ \E q \in Members(rules) :
              /\ r.to = q.to /\ r.chain = q.chain /\ r.on = on @@ q.on
              /\ Fits(q, k, but \cup DOMAIN on)
<1>1. PICK q \in Members(rules) : r.to = q.to /\ r.chain = q.chain /\ r.on = on @@ q.on
  BY BothMembers
<1>3. \A field \in DOMAIN on : field \in DOMAIN (on @@ q.on) /\ (on @@ q.on)[field] = on[field]
  BY Left
<1>4. \A field \in DOMAIN q.on \ DOMAIN on : field \in DOMAIN (on @@ q.on) /\ (on @@ q.on)[field] = q.on[field]
  BY Right
<1>5. Fits(q, k, but \cup DOMAIN on)
  BY <1>1, <1>4 DEF Fits
<1> QED
  BY <1>1, <1>3, <1>5 DEF Fits

LEMMA BothList ==
  ASSUME NEW on, NEW rules, IsList(rules)
  PROVE  IsList(Both(on, rules))
BY Mapped DEF Both

\* Grants to the host.
LEMMA HostGrantsOpen ==
  ASSUME NEW access, IsFiniteSet(access.host)
  PROVE  /\ IsList(HostGrants(access)) /\ \A r \in Members(HostGrants(access)) : r.to = "accept"
         /\ \A r \in Members(HostGrants(access)) : \A k : Matches(r, k) => \E g \in access.host : ByGrant(g, k)
<1> DEFINE s == SX!SetToSeq(access.host)
<1>1. IsList(s) /\ Members(s) \subseteq access.host
  BY InOrder
<1>2. HostGrants(access) = [i \in DOMAIN s |-> Rule(Guard(s[i]), "accept")]
  BY DEF HostGrants, EachOf
<1> HIDE DEF s
<1>3. IsList(HostGrants(access)) /\ DOMAIN HostGrants(access) = DOMAIN s
  BY <1>1, <1>2, Mapped
<1>4. ASSUME NEW r \in Members(HostGrants(access)), NEW k, Matches(r, k) PROVE \E g \in access.host : ByGrant(g, k)
  <2>1. PICK i \in DOMAIN s : r = Rule(Guard(s[i]), "accept")
    BY <1>2, <1>3 DEF Members
  <2> DEFINE g == s[i]
             own == [src |-> g.source, dst |-> g.destination, iif |-> {g.input}, proto |-> {g.protocol}, dport |-> g.ports]
             more == InFamily(g.source) @@ IF "output" \in DOMAIN g THEN [oif |-> {g.output}] ELSE << >>
  <2>2. g \in access.host
    BY <1>1 DEF Members
  <2>3. Guard(g) = own @@ more \/ Guard(g) = (own @@ InFamily(g.source)) @@ (IF "output" \in DOMAIN g THEN [oif |-> {g.output}] ELSE << >>)
    BY DEF Guard
  <2>4. \A field \in DOMAIN own : field \in DOMAIN Guard(g) /\ Guard(g)[field] = own[field]
    <3> HIDE DEF own, more, g
    <3> QED
      BY <2>3, Left
  <2>5. \A field \in DOMAIN own : k[field] \in own[field]
    <3>1. r.on = Guard(g)
      BY <2>1, RuleIs
    <3> HIDE DEF own, g
    <3> QED
      BY <3>1, <2>4, <1>4 DEF Matches
  <2>6. k.src \in g.source /\ k.dst \in g.destination /\ k.iif = g.input /\ k.proto = g.protocol /\ k.dport \in g.ports
    BY <2>5
  <2> QED
    BY <2>2, <2>6 DEF ByGrant
<1>5. \A r \in Members(HostGrants(access)) : r.to = "accept"
  BY <1>2, <1>3, RuleIs DEF Members
<1> QED
  BY <1>3, <1>4, <1>5

\* Exempted sources.
LEMMA BypassOpen ==
  ASSUME NEW v, IsFiniteSet(v.BYPASS_SOURCE_IPS)
  PROVE  /\ IsList(Bypass(v)) /\ \A r \in Members(Bypass(v)) : r.to = "accept"
         /\ \A r \in Members(Bypass(v)) : \A k : Matches(r, k) => ByBypass(v, k)
<1> DEFINE s == SX!SetToSeq(v.BYPASS_SOURCE_IPS)
           each == [i \in DOMAIN s |-> Rule([src |-> s[i]] @@ InFamily(s[i]), "accept")]
<1>1. IsList(s) /\ Members(s) \subseteq v.BYPASS_SOURCE_IPS
  BY InOrder
<1>2. Bypass(v) = Only(v.PRIVILEGED_BYPASS, each)
  BY DEF Bypass, EachOf
<1> HIDE DEF s
<1>3. IsList(each) /\ DOMAIN each = DOMAIN s
  BY <1>1, Mapped
<1>4. ASSUME NEW r \in Members(each), NEW k, Matches(r, k) PROVE \E net \in v.BYPASS_SOURCE_IPS : k.src \in net
  <2>1. PICK i \in DOMAIN s : r = Rule([src |-> s[i]] @@ InFamily(s[i]), "accept")
    BY <1>3 DEF Members
  <2>2. s[i] \in v.BYPASS_SOURCE_IPS
    BY <1>1 DEF Members
  <2>3. "src" \in DOMAIN r.on /\ r.on["src"] = s[i]
    BY <2>1, RuleIs, Left
  <2> QED
    BY <2>2, <2>3, <1>4 DEF Matches
<1>5. ASSUME NEW r \in Members(each) PROVE r.to = "accept"
  <2>1. PICK i \in DOMAIN s : r = Rule([src |-> s[i]] @@ InFamily(s[i]), "accept")
    BY <1>3 DEF Members
  <2> QED
    BY <2>1, RuleIs
<1> HIDE DEF each
<1>6. /\ IsList(Bypass(v)) /\ Members(Bypass(v)) \subseteq Members(each)
      /\ ~v.PRIVILEGED_BYPASS => Members(Bypass(v)) = {}
  BY <1>2, <1>3, OnlyList
<1> QED
  BY <1>4, <1>5, <1>6 DEF ByBypass

LEMMA OneList ==
  /\ IsList(<<>>) /\ Members(<<>>) = {}
  /\ \A a : IsList(<<a>>) /\ Members(<<a>>) = {a}
  /\ \A a, b : IsList(<<a, b>>) /\ Members(<<a, b>>) = {a, b}
  /\ \A a, b, c : IsList(<<a, b, c>>) /\ Members(<<a, b, c>>) = {a, b, c}
  /\ \A a, b, c, d : IsList(<<a, b, c, d>>) /\ Members(<<a, b, c, d>>) = {a, b, c, d}
<1>1. ASSUME NEW a PROVE IsList(<<a>>) /\ Members(<<a>>) = {a}
  BY DEF IsList, Members
<1>2. ASSUME NEW a, NEW b PROVE IsList(<<a, b>>) /\ Members(<<a, b>>) = {a, b}
  BY DEF IsList, Members
<1>3. ASSUME NEW a, NEW b, NEW c PROVE IsList(<<a, b, c>>) /\ Members(<<a, b, c>>) = {a, b, c}
  BY DEF IsList, Members
<1>4. IsList(<<>>) /\ Members(<<>>) = {}
  BY DEF IsList, Members
<1>5. ASSUME NEW a, NEW b, NEW c, NEW d PROVE IsList(<<a, b, c, d>>) /\ Members(<<a, b, c, d>>) = {a, b, c, d}
  BY DEF IsList, Members
<1> QED
  BY <1>1, <1>2, <1>3, <1>4, <1>5

LEMMA VpnPortOpen ==
  ASSUME NEW v, NEW names
  PROVE  /\ IsList(VpnPort(v, names)) /\ \A r \in Members(VpnPort(v, names)) : r.to = "accept"
         /\ \A r \in Members(VpnPort(v, names)) : \A k : Matches(r, k) => ByVpn(v, names, k)
<1> DEFINE r == Rule([proto |-> {v.OVPNSRV_PROTO}, dport |-> {v.OVPNSRV_PORT}], "accept")
<1>1. VpnPort(v, names) = Only("openvpn_server" \in names /\ v.HOST_SERVICES, <<r>>)
  BY DEF VpnPort
<1>2. ASSUME NEW k, Matches(r, k) PROVE k.proto = v.OVPNSRV_PROTO /\ k.dport = v.OVPNSRV_PORT
  BY <1>2, RuleIs DEF Matches
<1>5. r.to = "accept"
  BY RuleIs
<1> HIDE DEF r
<1>3. CASE "openvpn_server" \in names /\ v.HOST_SERVICES
  BY <1>1, <1>2, <1>3, <1>5, OneList DEF ByVpn, Only
<1>4. CASE ~("openvpn_server" \in names /\ v.HOST_SERVICES)
  BY <1>1, <1>4, OneList DEF Only
<1> QED
  BY <1>3, <1>4

LEMMA EstablishedOpen ==
  ASSUME NEW closed
  PROVE  /\ IsList(EstablishedOnly) /\ \A r \in Members(EstablishedOnly) : r.to \in {"accept", "drop"}
         /\ \A r \in Members(EstablishedOnly) : \A k : Matches(r, k) /\ Opens(closed, r) => k.state \in {"established", "related"}
<1> DEFINE a == Rule(Replies, "accept")
           b == Rule(<<>>, "drop")
<1>1. EstablishedOnly = <<a, b>>
  BY DEF EstablishedOnly
<1>2. ASSUME NEW k, Matches(a, k) PROVE k.state \in {"established", "related"}
  BY <1>2, RuleIs DEF Matches, Replies
<1>3. ~Opens(closed, b)
  BY RuleIs DEF Opens
<1>4. a.to = "accept" /\ b.to = "drop"
  BY RuleIs
<1> HIDE DEF a, b
<1> QED
  BY <1>1, <1>2, <1>3, <1>4, OneList

(***************************************************************************)
(* The services: what their rules open, whatever the family and the source *)
(***************************************************************************)
Where == {"fam", "src"}

LEMMA UnderTheLimit ==
  ASSUME NEW k, NEW but, "meter" \notin but, Fits(Rule(New @@ Under, "accept"), k, but)
  PROVE  k.meter = "under"
<1>1. "meter" \in DOMAIN (New @@ Under) /\ (New @@ Under)["meter"] = {"under"}
  BY DEF New, Under, @@
<1> QED
  BY <1>1, RuleIs DEF Fits

LEMMA TcpFields ==
  ASSUME NEW ports
  PROVE  DOMAIN Tcp(ports) = {"proto", "dport"} /\ Tcp(ports)["proto"] = {"tcp"} /\ Tcp(ports)["dport"] = ports
BY DEF Tcp

LEMMA UdpFields ==
  ASSUME NEW ports
  PROVE  DOMAIN Udp(ports) = {"proto", "dport"} /\ Udp(ports)["proto"] = {"udp"} /\ Udp(ports)["dport"] = ports
BY DEF Udp

LEMMA SshOpen ==
  ASSUME NEW closed, NEW v
  PROVE  /\ IsList(SshRules(v))
         /\ \A r \in Members(SshRules(v)) : "dport" \in DOMAIN r.on /\ r.on["dport"] = v.SSH_PORT
         /\ \A r \in Members(SshRules(v)) : \A k : Opens(closed, r) /\ Fits(r, k, Where) =>
              /\ k.proto = "tcp" /\ k.dport \in v.SSH_PORT
              /\ k.meter = "under" \/ k.state \in {"established", "related"}
<1> DEFINE a == Rule(New @@ Under, "accept")
           b == Rule(New, "drop")
           c == Rule(Replies, "accept")
           on == Tcp(v.SSH_PORT)
<1>1. SshRules(v) = Both(on, <<a, b, c>>)
  BY DEF SshRules
<1>2. /\ a.to = "accept" /\ b.to = "drop" /\ c.to = "accept"
      /\ \A k : Fits(c, k, Where \cup {"proto", "dport"}) => k.state \in {"established", "related"}
  BY RuleIs DEF Fits, Replies, Where
<1>3. \A k : Fits(a, k, Where \cup {"proto", "dport"}) => k.meter = "under"
  BY UnderTheLimit DEF Where
<1>4. IsList(<<a, b, c>>) /\ Members(<<a, b, c>>) = {a, b, c}
  BY OneList
<1>5. DOMAIN on = {"proto", "dport"} /\ on["proto"] = {"tcp"} /\ on["dport"] = v.SSH_PORT
  BY TcpFields
<1> HIDE DEF a, b, c, on
<1>6. IsList(SshRules(v))
  BY <1>1, <1>4, BothList
<1>7. ASSUME NEW r \in Members(SshRules(v)) PROVE "dport" \in DOMAIN r.on /\ r.on["dport"] = v.SSH_PORT
  <2>1. PICK q \in {a, b, c} : r.on = on @@ q.on
    BY <1>1, <1>4, BothMembers
  <2>2. "dport" \in DOMAIN (on @@ q.on) /\ (on @@ q.on)["dport"] = on["dport"]
    BY <1>5, Left
  <2> QED
    BY <2>1, <2>2, <1>5
<1>8. ASSUME NEW r \in Members(SshRules(v)), NEW k, Opens(closed, r), Fits(r, k, Where)
      PROVE  /\ k.proto = "tcp" /\ k.dport \in v.SSH_PORT
             /\ k.meter = "under" \/ k.state \in {"established", "related"}
  <2>1. /\ \A field \in DOMAIN on \ Where : k[field] \in on[field]
        /\ \E q \in {a, b, c} : r.to = q.to /\ Fits(q, k, Where \cup DOMAIN on)
    <3>1. r \in Members(Both(on, <<a, b, c>>)) /\ Fits(r, k, Where)
      BY <1>1, <1>8
    <3> DEFINE list == <<a, b, c>>
    <3>2. IsList(list) /\ Members(list) = {a, b, c} /\ r \in Members(Both(on, list)) /\ Fits(r, k, Where)
      BY <3>1, <1>4
    <3> HIDE DEF list
    <3>3. /\ \A field \in DOMAIN on \ Where : k[field] \in on[field]
          /\ \E q \in Members(list) : r.to = q.to /\ Fits(q, k, Where \cup DOMAIN on)
      BY <3>2, Narrowed
    <3> QED
      BY <3>2, <3>3
  <2>2. r.to # "drop"
    BY <1>8 DEF Opens
  <2> QED
    BY <2>1, <2>2, <1>2, <1>3, <1>5 DEF Where
<1> QED
  BY <1>6, <1>7, <1>8

\* A service with a limit and nothing for what is over it.
LEMMA LimitedOpen ==
  ASSUME NEW closed, NEW ports, NEW over
  PROVE  LET rules == Both(Tcp(ports), <<Rule(New @@ Under, "accept"), Rule(over, "drop")>>) IN
         /\ IsList(rules)
         /\ \A r \in Members(rules) : \A k : Opens(closed, r) /\ Fits(r, k, Where) =>
              k.proto = "tcp" /\ k.dport \in ports /\ k.meter = "under"
<1> DEFINE a == Rule(New @@ Under, "accept")
           b == Rule(over, "drop")
           on == Tcp(ports)
           rules == Both(on, <<a, b>>)
<1>1. \A k : Fits(a, k, Where \cup {"proto", "dport"}) => k.meter = "under"
  BY UnderTheLimit DEF Where
<1>2. b.to = "drop"
  BY RuleIs
<1>3. IsList(<<a, b>>) /\ Members(<<a, b>>) = {a, b}
  BY OneList
<1>4. DOMAIN on = {"proto", "dport"} /\ on["proto"] = {"tcp"} /\ on["dport"] = ports
  BY TcpFields
<1> HIDE DEF a, b, on
<1>5. IsList(rules)
  BY <1>3, BothList
<1>6. ASSUME NEW r \in Members(rules), NEW k, Opens(closed, r), Fits(r, k, Where)
      PROVE  k.proto = "tcp" /\ k.dport \in ports /\ k.meter = "under"
  <2>1. /\ \A field \in DOMAIN on \ Where : k[field] \in on[field]
        /\ \E q \in {a, b} : r.to = q.to /\ Fits(q, k, Where \cup DOMAIN on)
    <3>1. r \in Members(Both(on, <<a, b>>)) /\ Fits(r, k, Where)
      BY <1>6
    <3> DEFINE list == <<a, b>>
    <3>2. IsList(list) /\ Members(list) = {a, b} /\ r \in Members(Both(on, list)) /\ Fits(r, k, Where)
      BY <3>1, <1>3
    <3> HIDE DEF list
    <3>3. /\ \A field \in DOMAIN on \ Where : k[field] \in on[field]
          /\ \E q \in Members(list) : r.to = q.to /\ Fits(q, k, Where \cup DOMAIN on)
      BY <3>2, Narrowed
    <3> QED
      BY <3>2, <3>3
  <2>2. r.to # "drop"
    BY <1>6 DEF Opens
  <2> QED
    BY <2>1, <2>2, <1>1, <1>2, <1>4 DEF Where
<1>7. rules = Both(Tcp(ports), <<Rule(New @@ Under, "accept"), Rule(over, "drop")>>)
  BY DEF a, b, on
<1> QED
  BY <1>5, <1>6, <1>7

LEMMA WebOpen ==
  ASSUME NEW closed, NEW v
  PROVE  /\ IsList(WebRules(v))
         /\ \A r \in Members(WebRules(v)) : \A k : Opens(closed, r) /\ Fits(r, k, Where) =>
              k.proto = "tcp" /\ k.dport \in v.HTTP_HTTPS_PORTS /\ k.meter = "under"
BY LimitedOpen DEF WebRules

LEMMA RconOpen ==
  ASSUME NEW closed, NEW nft, NEW v
  PROVE  /\ IsList(RconRules(nft, v))
         /\ \A r \in Members(RconRules(nft, v)) : \A k : Opens(closed, r) /\ Fits(r, k, Where) =>
              k.proto = "tcp" /\ k.dport \in v.L4D2_GAMESERVER_TCP_PORTS /\ k.meter = "under"
<1> DEFINE over == IF nft THEN New @@ Over ELSE New
<1>1. RconRules(nft, v) = Both(Tcp(v.L4D2_GAMESERVER_TCP_PORTS), <<Rule(New @@ Under, "accept"), Rule(over, "drop")>>)
  BY DEF RconRules
<1> HIDE DEF over
<1> QED
  BY <1>1, LimitedOpen

LEMMA AllowlistOpen ==
  ASSUME NEW v
  PROVE  /\ IsList(AllowlistRules(v))
         /\ \A r \in Members(AllowlistRules(v)) : \A k : Fits(r, k, Where) =>
              \/ k.proto = "udp" /\ k.dport \in v.BYPASS_UDP_PORTS
              \/ k.proto = "tcp" /\ k.dport \in v.BYPASS_TCP_PORTS
<1> DEFINE a == Rule(Udp(v.BYPASS_UDP_PORTS), "accept")
           b == Rule(Tcp(v.BYPASS_TCP_PORTS), "accept")
<1>1. AllowlistRules(v) = Only(v.BYPASS_UDP_PORTS # {}, <<a>>) \o Only(v.BYPASS_TCP_PORTS # {}, <<b>>)
  BY DEF AllowlistRules
<1>2. \A k : Fits(a, k, Where) => k.proto = "udp" /\ k.dport \in v.BYPASS_UDP_PORTS
  BY RuleIs, UdpFields DEF Fits, Where
<1>3. \A k : Fits(b, k, Where) => k.proto = "tcp" /\ k.dport \in v.BYPASS_TCP_PORTS
  BY RuleIs, TcpFields DEF Fits, Where
<1> HIDE DEF a, b
<1>4. IsList(<<a>>) /\ Members(<<a>>) = {a} /\ IsList(<<b>>) /\ Members(<<b>>) = {b}
  BY OneList
<1> DEFINE s == Only(v.BYPASS_UDP_PORTS # {}, <<a>>)
           t == Only(v.BYPASS_TCP_PORTS # {}, <<b>>)
<1>5. IsList(s) /\ Members(s) \subseteq {a} /\ IsList(t) /\ Members(t) \subseteq {b}
  BY <1>4, OneList DEF Only
<1> HIDE DEF s, t
<1>6. IsList(s \o t) /\ Members(s \o t) \subseteq {a, b}
  BY <1>5, Joined
<1> QED
  BY <1>1, <1>2, <1>3, <1>6 DEF s, t

\* The sizes that are dropped ahead of everything else.
Sizes(v) ==
  <<Rule([size |-> {"empty"}], "drop"), Rule([size |-> {"huge"}], "drop")>>
  \o Only(v.ENABLE_MALFORMED_FILTER, <<Rule([size |-> {"malformed"}], "drop")>>)
WrongSizes(v) == {"empty", "huge"} \cup IF v.ENABLE_MALFORMED_FILTER THEN {"malformed"} ELSE {}

LEMMA SizesDrop ==
  ASSUME NEW v
  PROVE  /\ IsList(Sizes(v)) /\ \A r \in Members(Sizes(v)) : r.to = "drop"
         /\ \A z \in WrongSizes(v) : \E r \in Members(Sizes(v)) : r.on = [size |-> {z}]
<1> DEFINE a == Rule([size |-> {"empty"}], "drop")
           b == Rule([size |-> {"huge"}], "drop")
           c == Rule([size |-> {"malformed"}], "drop")
           more == Only(v.ENABLE_MALFORMED_FILTER, <<c>>)
<1>1. /\ a.to = "drop" /\ b.to = "drop" /\ c.to = "drop"
      /\ a.on = [size |-> {"empty"}] /\ b.on = [size |-> {"huge"}] /\ c.on = [size |-> {"malformed"}]
  BY RuleIs
<1>2. Sizes(v) = <<a, b>> \o more
  BY DEF Sizes
<1> HIDE DEF a, b, c
<1>3. /\ IsList(<<a, b>>) /\ Members(<<a, b>>) = {a, b}
      /\ IsList(more) /\ Members(more) \subseteq {c} /\ (v.ENABLE_MALFORMED_FILTER => c \in Members(more))
  BY OneList DEF Only
<1> HIDE DEF more
<1>4. IsList(<<a, b>> \o more) /\ Members(<<a, b>> \o more) = {a, b} \cup Members(more)
  BY <1>3, Joined
<1>5. \A z \in WrongSizes(v) : \E r \in Members(Sizes(v)) : r.on = [size |-> {z}]
  <2> SUFFICES ASSUME NEW z \in WrongSizes(v) PROVE \E r \in Members(Sizes(v)) : r.on = [size |-> {z}]
    OBVIOUS
  <2>1. {a, b} \subseteq Members(Sizes(v)) /\ (v.ENABLE_MALFORMED_FILTER => c \in Members(Sizes(v)))
    BY <1>2, <1>3, <1>4
  <2>2. z = "empty" \/ z = "huge" \/ (z = "malformed" /\ v.ENABLE_MALFORMED_FILTER)
    BY DEF WrongSizes
  <2> QED
    BY <2>1, <2>2, <1>1
<1> QED
  BY <1>1, <1>2, <1>3, <1>4, <1>5

LEMMA ValidationOpen ==
  ASSUME NEW closed, NEW v
  PROVE  /\ IsList(ValidationRules(v))
         /\ \A r \in Members(ValidationRules(v)) : r.to = "drop" /\ ~Opens(closed, r)
<1> DEFINE list == Sizes(v)
           gs == Both(Udp(v.L4D2_GAMESERVER_UDP_PORTS), list)
           tv == Both(Udp(v.L4D2_SOURCETV_UDP_PORTS), list)
<1>1. ValidationRules(v) = gs \o tv
  BY DEF ValidationRules, Sizes
<1>2. IsList(list) /\ \A r \in Members(list) : r.to = "drop"
  BY SizesDrop
<1> HIDE DEF list
<1>3. IsList(gs) /\ IsList(tv)
  BY <1>2, BothList
<1>4. ASSUME NEW r \in Members(gs) \cup Members(tv) PROVE r.to = "drop" /\ ~Opens(closed, r)
  <2>1. \E q \in Members(list) : r.to = q.to
    BY BothMembers
  <2> QED
    BY <2>1, <1>2 DEF Opens
<1> HIDE DEF gs, tv
<1> QED
  BY <1>1, <1>3, <1>4, Joined

\* What fits the UDP ports of some games is for a game.
LEMMA ForGames ==
  ASSUME NEW v, NEW ports, ports \subseteq AllGamePorts(v), NEW more, NEW r, r.on = Udp(ports) @@ more, NEW k,
         Fits(r, k, Where)
  PROVE  ToGame(v, k)
<1>1. /\ "proto" \in DOMAIN r.on /\ r.on["proto"] = {"udp"}
      /\ "dport" \in DOMAIN r.on /\ r.on["dport"] = ports
  BY UdpFields, Left
<1> QED
  BY <1>1 DEF Fits, Where, ToGame

LEMMA QueryOpen ==
  ASSUME NEW closed, NEW nft, NEW v, NEW ctx
  PROVE  /\ IsList(QueryRules(nft, v, ctx))
         /\ \A r \in Members(QueryRules(nft, v, ctx)) : \A k : Opens(closed, r) /\ Fits(r, k, Where) => ToGame(v, k)
<1> DEFINE all == Udp(AllGamePorts(v))
           a == Jump(Signature({"54"}), <<ctx, "a2s_limit">>)
           b == Jump(Signature(SteamSignatures(nft, v)), <<ctx, "steam_group_limit">>)
           more == Only(v.ENABLE_STEAM_GROUP_FILTER, <<b>>)
           list == <<a>> \o more
           login == Udp(v.L4D2_GAMESERVER_UDP_PORTS) @@ Short @@ Signature({"71"})
           c == Jump([verb |-> {"connect", "reserve"}] @@ login, <<ctx, "login_limit">>)
           d == Rule(login, "drop")
           e == Jump(login, <<ctx, "login_limit">>)
           logins == IF nft THEN <<c, d>> ELSE <<e>>
<1>1. QueryRules(nft, v, ctx) = Both(all, list) \o logins
  BY DEF QueryRules
<1>2. IsList(<<a>>) /\ IsList(more)
  BY OneList DEF Only
<1> HIDE DEF more
<1>3. IsList(list)
  BY <1>2, Joined
<1> HIDE DEF list
<1>4. IsList(Both(all, list))
  BY <1>3, BothList
<1>5. ASSUME NEW r \in Members(Both(all, list)), NEW k, Fits(r, k, Where) PROVE ToGame(v, k)
  <2>1. PICK q \in Members(list) : r.on = all @@ q.on
    BY BothMembers
  <2> QED
    BY <2>1, <1>5, ForGames
<1>6. ASSUME NEW k, Fits(c, k, Where) PROVE ToGame(v, k)
  <2> DEFINE served == Udp(v.L4D2_GAMESERVER_UDP_PORTS)
  <2>1. c.on = [verb |-> {"connect", "reserve"}] @@ login
    BY JumpIs
  <2>2. login = (served @@ Short) @@ Signature({"71"})
    OBVIOUS
  <2>3. /\ "proto" \in DOMAIN login /\ login["proto"] = {"udp"}
        /\ "dport" \in DOMAIN login /\ login["dport"] = v.L4D2_GAMESERVER_UDP_PORTS
    <3>1. /\ "proto" \in DOMAIN (served @@ Short) /\ (served @@ Short)["proto"] = {"udp"}
          /\ "dport" \in DOMAIN (served @@ Short) /\ (served @@ Short)["dport"] = v.L4D2_GAMESERVER_UDP_PORTS
      BY UdpFields, Left
    <3> HIDE DEF served
    <3> QED
      BY <3>1, <2>2, Left
  <2> HIDE DEF login, c
  <2>4. /\ "proto" \in DOMAIN c.on /\ c.on["proto"] = {"udp"}
        /\ "dport" \in DOMAIN c.on /\ c.on["dport"] = v.L4D2_GAMESERVER_UDP_PORTS
    <3>1. DOMAIN [verb |-> {"connect", "reserve"}] = {"verb"}
      OBVIOUS
    <3> QED
      BY <3>1, <2>1, <2>3, Right
  <2> QED
    BY <2>4, <1>6 DEF Fits, Where, ToGame, AllGamePorts
<1>7. ASSUME NEW k, Fits(e, k, Where) PROVE ToGame(v, k)
  <2> DEFINE served == Udp(v.L4D2_GAMESERVER_UDP_PORTS)
  <2>1. e.on = (served @@ Short) @@ Signature({"71"})
    BY JumpIs
  <2>2. /\ "proto" \in DOMAIN (served @@ Short) /\ (served @@ Short)["proto"] = {"udp"}
        /\ "dport" \in DOMAIN (served @@ Short) /\ (served @@ Short)["dport"] = v.L4D2_GAMESERVER_UDP_PORTS
    BY UdpFields, Left
  <2> HIDE DEF served, e
  <2>3. /\ "proto" \in DOMAIN e.on /\ e.on["proto"] = {"udp"}
        /\ "dport" \in DOMAIN e.on /\ e.on["dport"] = v.L4D2_GAMESERVER_UDP_PORTS
    BY <2>1, <2>2, Left
  <2> QED
    BY <2>3, <1>7 DEF Fits, Where, ToGame, AllGamePorts
<1>8. ~Opens(closed, d)
  BY RuleIs DEF Opens
<1> HIDE DEF all, c, d, e
<1>9. IsList(logins) /\ \A r \in Members(logins) : \A k : Opens(closed, r) /\ Fits(r, k, Where) => ToGame(v, k)
  <2>1. CASE nft
    BY <2>1, <1>6, <1>8, OneList
  <2>2. CASE ~nft
    BY <2>2, <1>7, OneList
  <2> QED
    BY <2>1, <2>2
<1> HIDE DEF logins
<1> QED
  BY <1>1, <1>4, <1>5, <1>9, Joined

LEMMA BaseOpen ==
  ASSUME NEW v, NEW ctx
  PROVE  /\ IsList(BaseRules(v, ctx))
         /\ \A r \in Members(BaseRules(v, ctx)) : \A k : Fits(r, k, Where) => ToGame(v, k)
<1> DEFINE gs == v.L4D2_GAMESERVER_UDP_PORTS
           tv == v.L4D2_SOURCETV_UDP_PORTS
           old == [state |-> {"established"}]
           a == Jump(Udp(gs) @@ New, <<ctx, "udp_new_limit">>)
           b == Jump(Udp(tv) @@ New, <<ctx, "udp_new_limit_sourcetv">>)
           c == Jump(Udp(gs) @@ old, <<ctx, "udp_established_limit">>)
           d == Jump(Udp(tv) @@ old, <<ctx, "udp_established_limit">>)
<1>1. BaseRules(v, ctx) = <<a, b, c, d>>
  BY DEF BaseRules
<1>2. a.on = Udp(gs) @@ New /\ b.on = Udp(tv) @@ New /\ c.on = Udp(gs) @@ old /\ d.on = Udp(tv) @@ old
  BY JumpIs
<1>3. gs \subseteq AllGamePorts(v) /\ tv \subseteq AllGamePorts(v)
  BY DEF AllGamePorts
<1> HIDE DEF a, b, c, d, gs, tv, old
<1>4. ASSUME NEW r \in {a, b, c, d}, NEW k, Fits(r, k, Where) PROVE ToGame(v, k)
  <2>1. \E ports \in {gs, tv}, more \in {New, old} : r.on = Udp(ports) @@ more
    BY <1>2
  <2> QED
    BY <2>1, <1>3, <1>4, ForGames
<1> QED
  BY <1>1, <1>4, OneList

LEMMA GameOpen ==
  ASSUME NEW closed, NEW nft, NEW v, NEW ctx
  PROVE  /\ IsList(GameRules(nft, v, ctx))
         /\ \A r \in Members(GameRules(nft, v, ctx)) : \A k : Opens(closed, r) /\ Fits(r, k, Where) => ToGame(v, k)
<1> DEFINE a == ValidationRules(v)
           b == QueryRules(nft, v, ctx)
           c == BaseRules(v, ctx)
<1>1. GameRules(nft, v, ctx) = (a \o b) \o c
  BY DEF GameRules
<1>2. IsList(a) /\ IsList(b) /\ IsList(c)
  BY ValidationOpen, QueryOpen, BaseOpen
<1>3. /\ \A r \in Members(a) : ~Opens(closed, r)
      /\ \A r \in Members(b) : \A k : Opens(closed, r) /\ Fits(r, k, Where) => ToGame(v, k)
      /\ \A r \in Members(c) : \A k : Fits(r, k, Where) => ToGame(v, k)
  BY ValidationOpen, QueryOpen, BaseOpen
<1> HIDE DEF a, b, c
<1>4. IsList(a \o b) /\ Members(a \o b) = Members(a) \cup Members(b)
  BY <1>2, Joined
<1>5. IsList((a \o b) \o c) /\ Members((a \o b) \o c) = Members(a \o b) \cup Members(c)
  BY <1>2, <1>4, Joined
<1> QED
  BY <1>1, <1>3, <1>4, <1>5

\* The rules of administrative sources.
FromAdmin(v, k) == v.ADMIN_SOURCES = {} \/ k.src \in UNION v.ADMIN_SOURCES

LEMMA AdminNarrows ==
  ASSUME NEW v, NEW rules, IsList(rules)
  PROVE  /\ IsList(AdminOnly(v, rules)) /\ DOMAIN AdminOnly(v, rules) = DOMAIN rules
         /\ \A i \in DOMAIN rules : \A k : Fits(AdminOnly(v, rules)[i], k, {"fam"}) =>
              /\ Fits(rules[i], k, Where)
              /\ FromAdmin(v, k)
         /\ \A i \in DOMAIN rules : AdminOnly(v, rules)[i].to = rules[i].to /\ AdminOnly(v, rules)[i].chain = rules[i].chain
<1>1. CASE v.ADMIN_SOURCES = {}
  BY <1>1 DEF AdminOnly, Fits, Where, FromAdmin
<1>2. CASE v.ADMIN_SOURCES # {}
  <2> DEFINE on == [src |-> UNION v.ADMIN_SOURCES]
  <2>1. AdminOnly(v, rules) = Both(on, rules)
    BY <1>2 DEF AdminOnly
  <2>2. DOMAIN on = {"src"} /\ on["src"] = UNION v.ADMIN_SOURCES
    OBVIOUS
  <2> HIDE DEF on
  <2>3. IsList(Both(on, rules)) /\ DOMAIN Both(on, rules) = DOMAIN rules
    BY BothList DEF Both
  <2>4. ASSUME NEW i \in DOMAIN rules
        PROVE  Both(on, rules)[i].to = rules[i].to /\ Both(on, rules)[i].chain = rules[i].chain
               /\ Both(on, rules)[i].on = on @@ rules[i].on
    BY DEF Both
  <2>5. ASSUME NEW i \in DOMAIN rules, NEW k, Fits(Both(on, rules)[i], k, {"fam"})
        PROVE  Fits(rules[i], k, Where) /\ FromAdmin(v, k)
    <3> DEFINE r == Both(on, rules)[i]
               q == rules[i]
    <3>1. r.on = on @@ q.on
      BY <2>4
    <3>2. Fits(r, k, {"fam"})
      BY <2>5
    <3> HIDE DEF r, q
    <3>3. "src" \in DOMAIN r.on /\ r.on["src"] = on["src"]
      BY <3>1, <2>2, Left
    <3>4. FromAdmin(v, k)
      BY <3>2, <3>3, <2>2 DEF Fits, FromAdmin
    <3>5. \A field \in DOMAIN q.on \ DOMAIN on : field \in DOMAIN r.on /\ r.on[field] = q.on[field]
      BY <3>1, Right
    <3>6. Fits(q, k, Where)
      BY <3>2, <3>5, <2>2 DEF Fits, Where
    <3> QED
      BY <3>4, <3>6 DEF q
  <2> QED
    BY <2>1, <2>3, <2>4, <2>5
<1> QED
  BY <1>1, <1>2

LEMMA ByPortNarrows ==
  ASSUME NEW v, NEW rules, IsList(rules)
  PROVE  /\ IsList(AdminByPort(v, rules)) /\ DOMAIN AdminByPort(v, rules) = DOMAIN rules
         /\ \A i \in DOMAIN rules : \A k : Fits(AdminByPort(v, rules)[i], k, {"fam"}) =>
              /\ Fits(rules[i], k, Where)
              /\ "SSH_PORT" \in DOMAIN v /\ Get(rules[i].on, "dport", {}) = v.SSH_PORT => FromAdmin(v, k)
         /\ \A i \in DOMAIN rules : AdminByPort(v, rules)[i].to = rules[i].to /\ AdminByPort(v, rules)[i].chain = rules[i].chain
<1>1. IsList(AdminByPort(v, rules)) /\ DOMAIN AdminByPort(v, rules) = DOMAIN rules
  BY Mapped DEF AdminByPort
<1>2. ASSUME NEW i \in DOMAIN rules
      PROVE  LET r == AdminByPort(v, rules)[i] IN
             /\ r.to = rules[i].to /\ r.chain = rules[i].chain
             /\ \A k : Fits(r, k, {"fam"}) =>
                  /\ Fits(rules[i], k, Where)
                  /\ "SSH_PORT" \in DOMAIN v /\ Get(rules[i].on, "dport", {}) = v.SSH_PORT => FromAdmin(v, k)
  <2> DEFINE r == AdminByPort(v, rules)[i]
             q == rules[i]
             ssh == "SSH_PORT" \in DOMAIN v /\ Get(q.on, "dport", {}) = v.SSH_PORT
  <2>1. r = IF ssh THEN AdminOnly(v, <<q>>)[1] ELSE q
    BY DEF AdminByPort
  <2>2. CASE ssh
    <3> DEFINE list == <<q>>
               one == AdminOnly(v, list)[1]
    <3>1. IsList(list) /\ 1 \in DOMAIN list /\ list[1] = q
      BY OneList
    <3> HIDE DEF list
    <3>2. /\ one.to = q.to /\ one.chain = q.chain
          /\ \A k : Fits(one, k, {"fam"}) =>
               Fits(q, k, Where) /\ FromAdmin(v, k)
      BY <3>1, AdminNarrows
    <3> HIDE DEF one, q
    <3>3. r = one
      BY <2>1, <2>2 DEF one, list
    <3> HIDE DEF r
    <3>4. /\ r.to = q.to /\ r.chain = q.chain
          /\ \A k : Fits(r, k, {"fam"}) => Fits(q, k, Where) /\ FromAdmin(v, k)
      BY <3>2, <3>3
    <3> QED
      BY <3>4, Zenon DEF r, q
  <2>3. CASE ~ssh
    <3>1. r = q
      BY <2>1, <2>3
    <3> HIDE DEF r
    <3>2. \A k : Fits(r, k, {"fam"}) => Fits(q, k, Where)
      BY <3>1 DEF Fits, Where
    <3> QED
      BY <2>3, <3>1, <3>2 DEF r
  <2> QED
    BY <2>2, <2>3
<1> QED
  BY <1>1, <1>2

LEMMA FamiliesNarrow ==
  ASSUME NEW nft, NEW names, NEW rules, IsList(rules)
  PROVE  /\ IsList(ForFamilies(nft, names, rules))
         /\ \A r \in Members(ForFamilies(nft, names, rules)) : \A k : Matches(r, k) =>
              \E q \in Members(rules) : r.to = q.to /\ r.chain = q.chain /\ Fits(q, k, {"fam"})
<1>1. CASE ~(~nft /\ names \cap Game # {})
  BY <1>1 DEF ForFamilies, Matches, Fits
<1>2. CASE ~nft /\ names \cap Game # {}
  <2> DEFINE on == [fam |-> {4}]
  <2>1. ForFamilies(nft, names, rules) = Both(on, rules)
    BY <1>2 DEF ForFamilies
  <2>2. DOMAIN on = {"fam"}
    OBVIOUS
  <2> HIDE DEF on
  <2>3. ASSUME NEW r \in Members(Both(on, rules)), NEW k, Matches(r, k)
        PROVE  \E q \in Members(rules) : r.to = q.to /\ r.chain = q.chain /\ Fits(q, k, {"fam"})
    <3>1. Fits(r, k, {})
      BY <2>3 DEF Matches, Fits
    <3>2. PICK q \in Members(rules) : r.to = q.to /\ r.chain = q.chain /\ Fits(q, k, {} \cup DOMAIN on)
      BY <3>1, Narrowed
    <3>3. {} \cup DOMAIN on = {"fam"}
      BY <2>2
    <3> QED
      BY <3>2, <3>3
  <2> QED
    BY <2>1, <2>3, BothList
<1> QED
  BY <1>1, <1>2

\* What the gate of the country filter, or a drop, opens: nothing.
LEMMA GeoOpen ==
  ASSUME NEW closed, NEW v, NEW names, GeoOn(v, names) => Gate \in closed
  PROVE  /\ IsList(GeoDeniesV6(v, names)) /\ \A r \in Members(GeoDeniesV6(v, names)) : ~Opens(closed, r)
         /\ IsList(GeoRules(v, names)) /\ \A r \in Members(GeoRules(v, names)) : ~Opens(closed, r)
<1> DEFINE a == Rule([fam |-> {6}] @@ Udp(AllGamePorts(v)), "drop")
           b == Jump([fam |-> {4}] @@ Udp(AllGamePorts(v)), <<Host, "geo_country_gate_v4">>)
<1>1. /\ GeoDeniesV6(v, names) \in {<<a>>, <<>>}
      /\ GeoRules(v, names) = IF GeoOn(v, names) THEN <<b>> ELSE <<>>
  BY DEF GeoDeniesV6, GeoRules, Only
<1>2. ~Opens(closed, a)
  BY RuleIs DEF Opens
<1>3. GeoOn(v, names) => ~Opens(closed, b)
  BY JumpIs DEF Opens, Gate
<1> HIDE DEF a, b
<1>4. /\ IsList(GeoDeniesV6(v, names)) /\ \A r \in Members(GeoDeniesV6(v, names)) : ~Opens(closed, r)
  BY <1>1, <1>2, OneList
<1>5. CASE GeoOn(v, names)
  BY <1>1, <1>3, <1>4, <1>5, OneList
<1>6. CASE ~GeoOn(v, names)
  BY <1>1, <1>4, <1>6, OneList
<1> QED
  BY <1>5, <1>6

\* A packet a service is for.
Served(v, names, k) == ByService(v, names, k) \/ k.state \in {"established", "related"}

LEMMA ServicesOpen ==
  ASSUME NEW closed, NEW nft, NEW v, NEW names, GeoOn(v, names) => Gate \in closed,
         "tcp_ssh" \in names => "SSH_PORT" \in DOMAIN v
  PROVE  /\ IsList(HostServices(nft, v, names))
         /\ \A r \in Members(HostServices(nft, v, names)) : \A k : Opens(closed, r) /\ Matches(r, k) => Served(v, names, k)
<1> DEFINE allow == Only("allowlist_ports" \in names, AllowlistRules(v))
           ssh == Only("tcp_ssh" \in names, IF nft THEN AdminOnly(v, SshRules(v)) ELSE SshRules(v))
           rcon == Only("l4d2_tcp_protect" \in names /\ v.L4D2_GAMESERVER_TCP_PORTS # {}, RconRules(nft, v))
           web == Only("http_https_protect" \in names, WebRules(v))
           deny == GeoDeniesV6(v, names)
           gate == GeoRules(v, names)
           game == Only(Game \subseteq names, GameRules(nft, v, Host))
           rules == (((allow \o ssh) \o rcon) \o web) \o ((deny \o gate) \o game)
           final == IF nft THEN rules ELSE AdminByPort(v, rules)
<1>1. HostServices(nft, v, names) = ForFamilies(nft, names, final)
  BY DEF HostServices
<1>2. IsList(allow) /\ \A r \in Members(allow) : \A k : Fits(r, k, Where) => ByService(v, names, k)
  <2>1. IsList(allow) /\ \A r \in Members(allow) : "allowlist_ports" \in names /\ r \in Members(AllowlistRules(v))
    BY AllowlistOpen, OneList DEF Only
  <2> QED
    BY <2>1, AllowlistOpen DEF ByService
<1>3. IsList(rcon) /\ \A r \in Members(rcon) : \A k : Opens(closed, r) /\ Fits(r, k, Where) => ByService(v, names, k)
  <2>1. IsList(rcon) /\ \A r \in Members(rcon) : "l4d2_tcp_protect" \in names /\ r \in Members(RconRules(nft, v))
    BY RconOpen, OneList DEF Only
  <2> QED
    BY <2>1, RconOpen DEF ByService
<1>4. IsList(web) /\ \A r \in Members(web) : \A k : Opens(closed, r) /\ Fits(r, k, Where) => ByService(v, names, k)
  <2>1. IsList(web) /\ \A r \in Members(web) : "http_https_protect" \in names /\ r \in Members(WebRules(v))
    BY WebOpen, OneList DEF Only
  <2> QED
    BY <2>1, WebOpen DEF ByService
<1>5. IsList(game) /\ \A r \in Members(game) : \A k : Opens(closed, r) /\ Fits(r, k, Where) => ByService(v, names, k)
  <2>1. IsList(game) /\ \A r \in Members(game) : Game \subseteq names /\ r \in Members(GameRules(nft, v, Host))
    BY GameOpen, OneList DEF Only
  <2> QED
    BY <2>1, GameOpen DEF ByService
<1>6. IsList(deny) /\ IsList(gate) /\ \A r \in Members(deny) \cup Members(gate) : ~Opens(closed, r)
  BY GeoOpen
<1>7. IsList(SshRules(v)) /\ IsList(AdminOnly(v, SshRules(v)))
  BY SshOpen, AdminNarrows
<1>8. /\ IsList(ssh)
      /\ \A r \in Members(ssh) : /\ "tcp_ssh" \in names
                                 /\ nft => r \in Members(AdminOnly(v, SshRules(v)))
                                 /\ ~nft => r \in Members(SshRules(v))
  <2>1. CASE nft
    <3>1. ssh = Only("tcp_ssh" \in names, AdminOnly(v, SshRules(v)))
      BY <2>1
    <3> HIDE DEF ssh
    <3> QED
      BY <2>1, <3>1, <1>7, OneList DEF Only
  <2>2. CASE ~nft
    <3>1. ssh = Only("tcp_ssh" \in names, SshRules(v))
      BY <2>2
    <3> HIDE DEF ssh
    <3> QED
      BY <2>2, <3>1, <1>7, OneList DEF Only
  <2> QED
    BY <2>1, <2>2
<1>9. ASSUME NEW r \in Members(SshRules(v)), NEW k, Opens(closed, r), Fits(r, k, Where), FromAdmin(v, k), "tcp_ssh" \in names
      PROVE  Served(v, names, k)
  BY <1>9, SshOpen DEF Served, ByService, FromAdmin
<1> HIDE DEF allow, ssh, rcon, web, deny, gate, game
<1>10. /\ IsList(rules)
       /\ Members(rules) = Members(allow) \cup Members(ssh) \cup Members(rcon) \cup Members(web)
                            \cup Members(deny) \cup Members(gate) \cup Members(game)
  <2>1. IsList(allow \o ssh) /\ Members(allow \o ssh) = Members(allow) \cup Members(ssh)
    BY <1>2, <1>8, Joined
  <2> DEFINE two == allow \o ssh
  <2> HIDE DEF two
  <2>2. IsList(two \o rcon) /\ Members(two \o rcon) = Members(two) \cup Members(rcon)
    BY <2>1, <1>3, Joined DEF two
  <2> DEFINE three == two \o rcon
  <2> HIDE DEF three
  <2>3. IsList(three \o web) /\ Members(three \o web) = Members(three) \cup Members(web)
    BY <2>2, <1>4, Joined DEF three
  <2>4. IsList(deny \o gate) /\ Members(deny \o gate) = Members(deny) \cup Members(gate)
    BY <1>6, Joined
  <2> DEFINE geo == deny \o gate
  <2> HIDE DEF geo
  <2>5. IsList(geo \o game) /\ Members(geo \o game) = Members(geo) \cup Members(game)
    BY <2>4, <1>5, Joined DEF geo
  <2> DEFINE tcp == three \o web
             udp == geo \o game
  <2> HIDE DEF tcp, udp
  <2>6. IsList(tcp \o udp) /\ Members(tcp \o udp) = Members(tcp) \cup Members(udp)
    BY <2>3, <2>5, Joined DEF tcp, udp
  <2> QED
    BY <2>1, <2>2, <2>3, <2>4, <2>5, <2>6 DEF two, three, geo, tcp, udp
<1> HIDE DEF rules
<1>11. ASSUME NEW r \in Members(rules) \ Members(ssh), NEW k, Opens(closed, r), Fits(r, k, Where) PROVE Served(v, names, k)
  BY <1>2, <1>3, <1>4, <1>5, <1>6, <1>10, <1>11 DEF Served
<1>12. IsList(final) /\ \A r \in Members(final) : \A k : Opens(closed, r) /\ Fits(r, k, {"fam"}) => Served(v, names, k)
  <2>1. CASE nft
    <3>1. final = rules
      BY <2>1
    <3>2. ASSUME NEW r \in Members(ssh), NEW k, Opens(closed, r), Fits(r, k, {"fam"}) PROVE Served(v, names, k)
      <4>1. r \in Members(AdminOnly(v, SshRules(v))) /\ "tcp_ssh" \in names
        BY <2>1, <1>8
      <4>2. PICK i \in DOMAIN AdminOnly(v, SshRules(v)) : r = AdminOnly(v, SshRules(v))[i]
        BY <4>1 DEF Members
      <4> DEFINE list == SshRules(v)
                 q == list[i]
      <4>3. q \in Members(SshRules(v)) /\ i \in DOMAIN list
        BY <1>7, <4>2, AdminNarrows DEF Members
      <4>4. IsList(list) /\ i \in DOMAIN list /\ r = AdminOnly(v, list)[i]
        BY <1>7, <4>2, <4>3
      <4> HIDE DEF list
      <4>5. r.to = q.to /\ r.chain = q.chain /\ Fits(q, k, Where) /\ FromAdmin(v, k)
        BY <3>2, <4>4, AdminNarrows
      <4> HIDE DEF q
      <4>6. Opens(closed, q)
        BY <3>2, <4>5 DEF Opens
      <4> QED
        BY <4>1, <4>3, <4>5, <4>6, <1>9
    <3>3. \A r : \A k : Fits(r, k, {"fam"}) => Fits(r, k, Where)
      BY DEF Fits, Where
    <3> HIDE DEF final
    <3> QED
      BY <3>1, <3>2, <3>3, <1>10, <1>11
  <2>2. CASE ~nft
    <3>1. final = AdminByPort(v, rules)
      BY <2>2
    <3> HIDE DEF final
    <3>2. IsList(final) /\ DOMAIN final = DOMAIN rules
      BY <3>1, <1>10, ByPortNarrows
    <3>3. ASSUME NEW i \in DOMAIN rules, NEW k, Opens(closed, final[i]), Fits(final[i], k, {"fam"}) PROVE Served(v, names, k)
      <4> DEFINE q == rules[i]
                 r == final[i]
      <4>1. /\ r.to = q.to /\ r.chain = q.chain /\ Fits(q, k, Where)
            /\ "SSH_PORT" \in DOMAIN v /\ Get(q.on, "dport", {}) = v.SSH_PORT => FromAdmin(v, k)
        BY <3>1, <3>3, <1>10, ByPortNarrows
      <4>2. q \in Members(rules)
        BY DEF Members
      <4>3. Opens(closed, r)
        BY <3>3
      <4> HIDE DEF q, r
      <4>4. Opens(closed, q)
        BY <4>1, <4>3 DEF Opens
      <4>5. CASE q \in Members(ssh)
        <5>1. q \in Members(SshRules(v)) /\ "tcp_ssh" \in names
          BY <4>5, <2>2, <1>8
        <5>2. "dport" \in DOMAIN q.on /\ q.on["dport"] = v.SSH_PORT
          BY <5>1, SshOpen
        <5>3. Get(q.on, "dport", {}) = v.SSH_PORT
          BY <5>2 DEF Get
        <5> QED
          BY <5>1, <5>3, <4>1, <4>4, <1>9
      <4>6. CASE q \notin Members(ssh)
        BY <4>1, <4>2, <4>4, <4>6, <1>11
      <4> QED
        BY <4>5, <4>6
    <3> QED
      BY <3>2, <3>3 DEF Members
  <2> QED
    BY <2>1, <2>2
<1> HIDE DEF final
<1>13. ASSUME NEW r \in Members(HostServices(nft, v, names)), NEW k, Opens(closed, r), Matches(r, k) PROVE Served(v, names, k)
  <2>1. PICK q \in Members(final) : r.to = q.to /\ r.chain = q.chain /\ Fits(q, k, {"fam"})
    BY <1>1, <1>12, <1>13, FamiliesNarrow
  <2>2. Opens(closed, q)
    BY <2>1, <1>13 DEF Opens
  <2> QED
    BY <2>1, <2>2, <1>12
<1> QED
  BY <1>1, <1>12, <1>13, FamiliesNarrow

(***************************************************************************)
(* The input chain                                                         *)
(***************************************************************************)
\* What the core accepts, and what it leaves to the rest of the chain.
ByCoreAlone(k) == k.iif = "lo" \/ (k.state # "invalid" /\ k.proto = "icmp" /\ ByCore(k))
LeftByCore(v, k) == k.state # "invalid" /\ (v.FAMILY_POLICY = "ipv4-block-ipv6" => k.fam # 6)

\* The ICMP rules of the core, by what they ask.
LEMMA IcmpOpen ==
  ASSUME NEW f, NEW types, NEW more, NEW k, NEW to, Matches(Rule(more @@ Icmp(f, types), to), k),
         DOMAIN more \cap {"proto", "fam", "icmp"} = {}
  PROVE  k.proto = "icmp" /\ k.fam = f /\ k.icmp \in types /\ \A field \in DOMAIN more : k[field] \in more[field]
<1> DEFINE on == more @@ Icmp(f, types)
<1>1. Rule(on, to).on = on
  BY RuleIs
<1>2. DOMAIN Icmp(f, types) = {"proto", "fam", "icmp"} /\ Icmp(f, types)["proto"] = {"icmp"}
      /\ Icmp(f, types)["fam"] = {f} /\ Icmp(f, types)["icmp"] = types
  BY DEF Icmp
<1>3. \A field \in {"proto", "fam", "icmp"} : field \in DOMAIN on /\ on[field] = Icmp(f, types)[field]
  BY <1>2, Right
<1>4. \A field \in DOMAIN more : field \in DOMAIN on /\ on[field] = more[field]
  BY Left
<1> HIDE DEF on
<1>5. \A field \in DOMAIN on : k[field] \in on[field]
  BY <1>1 DEF Matches, on
<1> QED
  BY <1>2, <1>3, <1>4, <1>5

LEMMA PlainIcmpOpen ==
  ASSUME NEW f, NEW types, NEW k, NEW to, Matches(Rule(Icmp(f, types), to), k)
  PROVE  k.proto = "icmp" /\ k.fam = f /\ k.icmp \in types
BY RuleIs DEF Icmp, Matches

LEMMA CoreOpen ==
  ASSUME NEW v
  PROVE  /\ IsList(CoreInput(v)) /\ 2 \in DOMAIN CoreInput(v)
         /\ CoreInput(v)[2] = Rule([state |-> {"invalid"}], "drop")
         /\ v.FAMILY_POLICY = "ipv4-block-ipv6" => Rule([fam |-> {6}], "drop") \in Members(CoreInput(v))
         /\ \A r \in Members(CoreInput(v)) : r.to \in {"accept", "drop"}
         /\ \A k : Matches(CoreInput(v)[1], k) => k.iif = "lo"
         /\ \A i \in DOMAIN CoreInput(v) : i > 2 =>
              \A k : CoreInput(v)[i].to = "accept" /\ Matches(CoreInput(v)[i], k) => k.proto = "icmp" /\ ByCore(k)
<1> DEFINE a == Rule([iif |-> {"lo"}], "accept")
           b == Rule([state |-> {"invalid"}], "drop")
           c == Rule(Icmp(4, {"error"}), "accept")
           d == Rule(Icmp(6, {"error"}), "accept")
           e == Rule(Discovery, "accept")
           f == Rule([meter |-> {"under"}] @@ Icmp(4, {"echo"}), "accept")
           g == Rule([meter |-> {"under"}] @@ Icmp(6, {"echo"}), "accept")
           h == Rule(Icmp(4, {"echo"}), "drop")
           i == Rule(Icmp(6, {"echo"}), "drop")
           list == <<a, b, c, d, e, f, g, h, i>>
           block == Rule([fam |-> {6}], "drop")
           blocked == Only(v.FAMILY_POLICY = "ipv4-block-ipv6", <<block>>)
<1>1. CoreInput(v) = list \o blocked
  BY DEF CoreInput
<1>2. /\ a.to = "accept" /\ b.to = "drop" /\ c.to = "accept" /\ d.to = "accept" /\ e.to = "accept"
      /\ f.to = "accept" /\ g.to = "accept" /\ h.to = "drop" /\ i.to = "drop" /\ block.to = "drop"
  BY RuleIs
<1>3. \A k : Matches(a, k) => k.iif = "lo"
  BY RuleIs DEF Matches
<1>4. \A k : Matches(c, k) \/ Matches(d, k) => k.proto = "icmp" /\ ByCore(k)
  BY PlainIcmpOpen DEF ByCore
<1>5. ASSUME NEW k, Matches(e, k) PROVE k.proto = "icmp" /\ ByCore(k)
  <2> DEFINE more == [hops |-> {255}]
  <2>1. DOMAIN more = {"hops"} /\ more["hops"] = {255}
    OBVIOUS
  <2>2. Matches(Rule(more @@ Icmp(6, {"discovery"}), "accept"), k)
    BY <1>5 DEF Discovery
  <2> HIDE DEF more
  <2>3. k.proto = "icmp" /\ k.fam = 6 /\ k.icmp \in {"discovery"} /\ k["hops"] \in {255}
    BY <2>1, <2>2, IcmpOpen
  <2> QED
    BY <2>3 DEF ByCore
<1>6. ASSUME NEW n, NEW k, Matches(Rule([meter |-> {"under"}] @@ Icmp(n, {"echo"}), "accept"), k)
      PROVE  k.proto = "icmp" /\ ByCore(k)
  <2> DEFINE more == [meter |-> {"under"}]
  <2>1. DOMAIN more = {"meter"} /\ more["meter"] = {"under"}
    OBVIOUS
  <2>2. Matches(Rule(more @@ Icmp(n, {"echo"}), "accept"), k)
    BY <1>6
  <2> HIDE DEF more
  <2>3. k.proto = "icmp" /\ k.icmp \in {"echo"} /\ k["meter"] \in {"under"}
    BY <2>1, <2>2, IcmpOpen
  <2> QED
    BY <2>3 DEF ByCore
<1>7. \A k : Matches(f, k) \/ Matches(g, k) => k.proto = "icmp" /\ ByCore(k)
  BY <1>6
<1> HIDE DEF a, b, c, d, e, f, g, h, i, block
<1>8. /\ IsList(list) /\ Len(list) = 9
      /\ list[1] = a /\ list[2] = b
      /\ \A n \in 3..9 : list[n] \in {c, d, e, f, g, h, i}
  <2>1. list \in Seq({a, b, c, d, e, f, g, h, i}) /\ Len(list) = 9
    OBVIOUS
  <2>2. list[1] = a /\ list[2] = b
    OBVIOUS
  <2>3. ASSUME NEW n \in 3..9 PROVE list[n] \in {c, d, e, f, g, h, i}
    <3>1. n \in {3, 4, 5, 6, 7, 8, 9}
      OBVIOUS
    <3> QED
      BY <3>1
  <2> HIDE DEF list
  <2>4. IsList(list)
    BY <2>1, ListFacts
  <2> QED
    BY <2>1, <2>2, <2>3, <2>4
<1>9. IsList(blocked) /\ Members(blocked) \subseteq {block} /\ (v.FAMILY_POLICY = "ipv4-block-ipv6" => block \in Members(blocked))
  BY OneList DEF Only
<1> HIDE DEF list, blocked
<1>10. /\ IsList(CoreInput(v)) /\ Len(CoreInput(v)) = 9 + Len(blocked)
       /\ \A n \in 1..9 : CoreInput(v)[n] = list[n]
       /\ \A n \in 1..Len(blocked) : CoreInput(v)[9 + n] = blocked[n]
       /\ Members(CoreInput(v)) = Members(list) \cup Members(blocked)
  <2>1. /\ IsList(list \o blocked) /\ Len(list \o blocked) = Len(list) + Len(blocked)
        /\ \A n \in 1..Len(list) : (list \o blocked)[n] = list[n]
        /\ \A n \in 1..Len(blocked) : (list \o blocked)[Len(list) + n] = blocked[n]
        /\ Members(list \o blocked) = Members(list) \cup Members(blocked)
    <3>1. IsList(list) /\ IsList(blocked)
      BY <1>8, <1>9
    <3> QED
      BY <3>1, Joined
  <2>2. Len(list) = 9
    BY <1>8
  <2> DEFINE whole == list \o blocked
  <2>3. CoreInput(v) = whole
    BY <1>1
  <2>4. /\ IsList(whole) /\ Len(whole) = 9 + Len(blocked)
        /\ \A n \in 1..9 : whole[n] = list[n]
        /\ \A n \in 1..Len(blocked) : whole[9 + n] = blocked[n]
        /\ Members(whole) = Members(list) \cup Members(blocked)
    BY <2>1, <2>2
  <2> HIDE DEF whole
  <2> QED
    BY <2>3, <2>4
<1>11. Members(list) \subseteq {a, b, c, d, e, f, g, h, i}
  <2>1. DOMAIN list = 1..9
    BY <1>8, ListFacts
  <2> QED
    BY <2>1, <1>8 DEF Members
<1>12. 2 \in DOMAIN CoreInput(v) /\ CoreInput(v)[1] = a /\ CoreInput(v)[2] = b
  BY <1>8, <1>9, <1>10, ListFacts DEF IsList
<1>13. \A r \in Members(CoreInput(v)) : r.to \in {"accept", "drop"}
  BY <1>2, <1>9, <1>10, <1>11
<1>14. ASSUME NEW n \in DOMAIN CoreInput(v), n > 2, NEW k, CoreInput(v)[n].to = "accept", Matches(CoreInput(v)[n], k)
       PROVE  k.proto = "icmp" /\ ByCore(k)
  <2>1. n \in 1..(9 + Len(blocked)) /\ Len(blocked) \in Nat /\ DOMAIN blocked = 1..Len(blocked)
    BY <1>9, <1>10, ListFacts DEF IsList
  <2>2. CASE n \in 3..9
    BY <2>2, <1>2, <1>4, <1>5, <1>7, <1>8, <1>10, <1>14
  <2>3. CASE n > 9
    <3>1. n - 9 \in 1..Len(blocked) /\ 9 + (n - 9) = n
      BY <2>1, <2>3
    <3>2. CoreInput(v)[n] = blocked[n - 9] /\ n - 9 \in DOMAIN blocked
      BY <3>1, <2>1, <1>10
    <3>3. blocked[n - 9] \in Members(blocked)
      BY <3>2 DEF Members
    <3>4. CoreInput(v)[n] = block
      BY <3>2, <3>3, <1>9
    <3> QED
      BY <3>4, <1>2, <1>14
  <2>4. n \in 3..9 \/ n > 9
    BY <2>1, <1>14
  <2> QED
    BY <2>2, <2>3, <2>4
<1>15. CoreInput(v)[2] = Rule([state |-> {"invalid"}], "drop")
  BY <1>12 DEF b
<1>16. v.FAMILY_POLICY = "ipv4-block-ipv6" => Rule([fam |-> {6}], "drop") \in Members(CoreInput(v))
  BY <1>9, <1>10 DEF block
<1>17. \A k : Matches(CoreInput(v)[1], k) => k.iif = "lo"
  BY <1>3, <1>12
<1> QED
  BY <1>10, <1>12, <1>13, <1>14, <1>15, <1>16, <1>17

\* What is accepted after the core: by a grant, an exemption, a selected service, or as a
\* packet of a connection that is established.
Admitted(v, names, access, k) ==
  \/ ByBypass(v, k) \/ ByVpn(v, names, k) \/ \E g \in access.host : ByGrant(g, k)
  \/ k.state \in {"established", "related"}
  \/ v.HOST_SERVICES /\ ByService(v, names, k)

\* A chain that starts with the core, and opens to no other packets after it.
After(closed, core, s, v, names, access) ==
  /\ IsList(core) /\ IsList(s) /\ Len(core) <= Len(s)
  /\ \A i \in 1..Len(core) : s[i] = core[i]
  /\ \A i \in DOMAIN s : i > Len(core) =>
       \A k : Opens(closed, s[i]) /\ Matches(s[i], k) => Admitted(v, names, access, k)

LEMMA CoreFirst ==
  ASSUME NEW closed, NEW core, NEW v, NEW names, NEW access, IsList(core)
  PROVE  After(closed, core, core, v, names, access)
<1>1. DOMAIN core = 1..Len(core) /\ Len(core) \in Nat
  BY ListFacts DEF IsList
<1> QED
  BY <1>1 DEF After

LEMMA Extended ==
  ASSUME NEW closed, NEW core, NEW s, NEW t, NEW v, NEW names, NEW access,
         After(closed, core, s, v, names, access), IsList(t),
         \A r \in Members(t) : \A k : Opens(closed, r) /\ Matches(r, k) => Admitted(v, names, access, k)
  PROVE  After(closed, core, s \o t, v, names, access)
<1> DEFINE u == s \o t
<1>1. /\ Len(core) \in Nat /\ Len(s) \in Nat /\ Len(t) \in Nat /\ Len(core) <= Len(s)
      /\ DOMAIN s = 1..Len(s) /\ DOMAIN t = 1..Len(t) /\ IsList(s) /\ IsList(core)
  BY ListFacts DEF After, IsList
<1>2. /\ IsList(u) /\ Len(u) = Len(s) + Len(t)
      /\ \A i \in 1..Len(s) : u[i] = s[i]
      /\ \A i \in 1..Len(t) : u[Len(s) + i] = t[i]
  BY <1>1, Joined
<1> HIDE DEF u
<1>3. DOMAIN u = 1..(Len(s) + Len(t))
  BY <1>2, ListFacts
<1>4. \A i \in 1..Len(core) : u[i] = core[i]
  <2> SUFFICES ASSUME NEW i \in 1..Len(core) PROVE u[i] = core[i]
    OBVIOUS
  <2>1. i \in 1..Len(s)
    BY <1>1
  <2> QED
    BY <2>1, <1>2 DEF After
<1>5. ASSUME NEW i \in DOMAIN u, i > Len(core), NEW k, Opens(closed, u[i]), Matches(u[i], k)
      PROVE  Admitted(v, names, access, k)
  <2>1. CASE i \in 1..Len(s)
    <3>1. u[i] = s[i] /\ i \in DOMAIN s
      BY <2>1, <1>1, <1>2
    <3> QED
      BY <3>1, <1>5 DEF After
  <2>2. CASE i > Len(s)
    <3>1. i - Len(s) \in 1..Len(t) /\ Len(s) + (i - Len(s)) = i
      BY <2>2, <1>1, <1>3
    <3>2. u[i] = t[i - Len(s)] /\ i - Len(s) \in DOMAIN t
      BY <3>1, <1>1, <1>2
    <3>3. u[i] \in Members(t)
      BY <3>2 DEF Members
    <3> QED
      BY <3>3, <1>5
  <2>3. i \in 1..Len(s) \/ i > Len(s)
    BY <1>1, <1>3
  <2> QED
    BY <2>1, <2>2, <2>3
<1>6. Len(core) <= Len(u)
  BY <1>1, <1>2
<1> QED
  BY <1>1, <1>2, <1>4, <1>5, <1>6 DEF After, u

LEMMA InputOpen ==
  ASSUME NEW closed, NEW nft, NEW v, NEW names, NEW access,
         IsFiniteSet(access.host), IsFiniteSet(v.BYPASS_SOURCE_IPS),
         GeoOn(v, names) => Gate \in closed, "tcp_ssh" \in names => "SSH_PORT" \in DOMAIN v
  PROVE  After(closed, CoreInput(v), InputChain(nft, v, names, access), v, names, access)
<1> DEFINE core == CoreInput(v)
           grants == HostGrants(access)
           bypass == Bypass(v)
           port == VpnPort(v, names)
           services == Only(v.HOST_SERVICES, HostServices(nft, v, names))
           replies == EstablishedOnly
           Adds(t) == \A r \in Members(t) : \A k : Opens(closed, r) /\ Matches(r, k) => Admitted(v, names, access, k)
<1>1. InputChain(nft, v, names, access) = ((((core \o grants) \o bypass) \o port) \o services) \o replies
  BY DEF InputChain
<1>2. IsList(grants) /\ Adds(grants)
  BY HostGrantsOpen DEF Admitted
<1>3. IsList(bypass) /\ Adds(bypass)
  BY BypassOpen DEF Admitted
<1>4. IsList(port) /\ Adds(port)
  BY VpnPortOpen DEF Admitted
<1>5. IsList(replies) /\ Adds(replies)
  BY EstablishedOpen DEF Admitted
<1>6. IsList(services) /\ Adds(services)
  <2> DEFINE all == HostServices(nft, v, names)
  <2>1. IsList(all) /\ \A r \in Members(all) : \A k : Opens(closed, r) /\ Matches(r, k) => Served(v, names, k)
    BY ServicesOpen
  <2> HIDE DEF all
  <2>2. CASE v.HOST_SERVICES
    <3>1. services = all
      BY <2>2 DEF Only, all
    <3> HIDE DEF services
    <3> QED
      BY <2>1, <2>2, <3>1 DEF Served, Admitted
  <2>3. CASE ~v.HOST_SERVICES
    <3>1. services = <<>>
      BY <2>3 DEF Only
    <3> HIDE DEF services
    <3> QED
      BY <3>1, OneList
  <2> QED
    BY <2>2, <2>3
<1>7. After(closed, core, core, v, names, access)
  BY CoreOpen, CoreFirst
<1> HIDE DEF core, grants, bypass, port, services, replies
<1>8. After(closed, core, core \o grants, v, names, access)
  BY <1>2, <1>7, Extended
<1> DEFINE one == core \o grants
<1> HIDE DEF one
<1>9. After(closed, core, one \o bypass, v, names, access)
  BY <1>3, <1>8, Extended DEF one
<1> DEFINE two == one \o bypass
<1> HIDE DEF two
<1>10. After(closed, core, two \o port, v, names, access)
  BY <1>4, <1>9, Extended DEF two
<1> DEFINE three == two \o port
<1> HIDE DEF three
<1>11. After(closed, core, three \o services, v, names, access)
  BY <1>6, <1>10, Extended DEF three
<1> DEFINE four == three \o services
<1> HIDE DEF four
<1>12. After(closed, core, four \o replies, v, names, access)
  BY <1>5, <1>11, Extended DEF four
<1> QED
  BY <1>1, <1>12 DEF core, one, two, three, four

(***************************************************************************)
(* The host                                                                *)
(***************************************************************************)
\* The names of the chains of games and of containers are not those of the gate.
LEMMA NoGate ==
  ASSUME NEW nft, NEW v, NEW names, NEW access, NEW ctx
  PROVE  /\ Gate \notin DOMAIN GameChains(nft, v, ctx)
         /\ Gate \notin DOMAIN ContainerChains(nft, v, names, access)
<1>1. ASSUME NEW w, NEW c PROVE Gate \notin DOMAIN GameChains(nft, w, c)
  <2>1. \A rules :
          /\ Gate \notin DOMAIN (<<c, "a2s_limit">> :> rules) /\ Gate \notin DOMAIN (<<c, "steam_group_limit">> :> rules)
          /\ Gate \notin DOMAIN (<<c, "login_limit">> :> rules) /\ Gate \notin DOMAIN (<<c, "udp_new_limit">> :> rules)
          /\ Gate \notin DOMAIN (<<c, "udp_new_limit_sourcetv">> :> rules)
          /\ Gate \notin DOMAIN (<<c, "udp_established_limit">> :> rules)
    BY DEF Gate, :>
  <2>3. ASSUME NEW one, NEW two, Gate \notin DOMAIN one, Gate \notin DOMAIN two PROVE Gate \notin DOMAIN (one @@ two)
    <3>1. DOMAIN (one @@ two) = DOMAIN one \cup DOMAIN two
      BY Together
    <3> QED
      BY <2>3, <3>1
  <2> QED
    BY <2>1, <2>3, ZenonT(60) DEF GameChains
<1>2. ASSUME NEW c, NEW rules PROVE Gate \notin DOMAIN (<<c, "service">> :> rules)
  BY DEF Gate, :>
<1>3. Gate \notin DOMAIN ContainerChains(nft, v, names, access)
  <2> DEFINE Own(i) == <<i, "service">> :> ContainerChain(nft, v, names, access.containers[i], i)
             Games(i) == IF access.containers[i].service = "l4d2_udp_base"
                           THEN GameChains(nft, Serving(v, access.containers[i]), i) ELSE << >>
             Chains(i) == Own(i) @@ Games(i)
  <2>1. DOMAIN ContainerChains(nft, v, names, access) = UNION {DOMAIN Chains(i) : i \in DOMAIN access.containers}
    BY DEF ContainerChains
  <2>2. ASSUME NEW i PROVE Gate \notin DOMAIN Chains(i)
    <3>1. Gate \notin DOMAIN Own(i)
      BY <1>2
    <3>2. Gate \notin DOMAIN Games(i)
      BY <1>1
    <3> HIDE DEF Own, Games
    <3> QED
      BY <3>1, <3>2, Together
  <2> HIDE DEF Chains
  <2> QED
    BY <2>1, <2>2
<1> QED
  BY <1>1, <1>3

\* What is put behind others changes none of them.
LEMMA Behind ==
  ASSUME NEW one, NEW two, NEW x \in DOMAIN one, NEW y, y \notin DOMAIN one, y \notin DOMAIN two
  PROVE  x \in DOMAIN (one @@ two) /\ (one @@ two)[x] = one[x] /\ y \notin DOMAIN (one @@ two)
<1>1. x \in DOMAIN (one @@ two) /\ (one @@ two)[x] = one[x]
  BY Left
<1>2. y \notin DOMAIN (one @@ two)
  <2>1. DOMAIN (one @@ two) = DOMAIN one \cup DOMAIN two
    BY Together
  <2> QED
    BY <2>1
<1> QED
  BY <1>1, <1>2

\* The input chain is what it was compiled to, and the gate only lets go on or drops.
LEMMA Furnished ==
  ASSUME NEW nft, NEW v, NEW names, NEW access, NEW f
  PROVE  LET chains == ChainsOf(nft, v, names, access, f) IN
         /\ <<Host, "input">> \in DOMAIN chains /\ chains[<<Host, "input">>] = InputChain(nft, v, names, access)
         /\ GeoOn(v, names) => Gate \in DOMAIN chains /\ chains[Gate] = GeoGate(v, GeoSets(v, f))
<1> DEFINE a == <<Host, "input">> :> InputChain(nft, v, names, access)
           b == <<Host, "forward">> :> ForwardChain(v, access)
           c == <<Host, "shared">> :> SharedRules(v, names)
           d == ContainerChains(nft, v, names, access)
           e == IF Game \subseteq names THEN GameChains(nft, v, Host) ELSE << >>
           g == IF GeoOn(v, names) THEN <<Host, "geo_country_gate_v4">> :> GeoGate(v, GeoSets(v, f)) ELSE << >>
<1>1. ChainsOf(nft, v, names, access, f) = ((((a @@ b) @@ c) @@ d) @@ e) @@ g
  BY DEF ChainsOf
<1>2. /\ <<Host, "input">> \in DOMAIN a /\ a[<<Host, "input">>] = InputChain(nft, v, names, access)
      /\ Gate \notin DOMAIN a /\ Gate \notin DOMAIN b /\ Gate \notin DOMAIN c
  BY DEF :>, Gate
<1>3. Gate \notin DOMAIN d /\ Gate \notin DOMAIN e
  BY NoGate
<1>4. GeoOn(v, names) => Gate \in DOMAIN g /\ g[Gate] = GeoGate(v, GeoSets(v, f))
  BY DEF :>, Gate
<1> HIDE DEF a, b, c, d, e, g
<1> DEFINE ab == a @@ b
           abc == ab @@ c
           abcd == abc @@ d
           abcde == abcd @@ e
<1>5. <<Host, "input">> \in DOMAIN ab /\ ab[<<Host, "input">>] = a[<<Host, "input">>] /\ Gate \notin DOMAIN ab
  BY <1>2, Behind
<1> HIDE DEF ab
<1>6. <<Host, "input">> \in DOMAIN abc /\ abc[<<Host, "input">>] = ab[<<Host, "input">>] /\ Gate \notin DOMAIN abc
  BY <1>2, <1>5, Behind
<1> HIDE DEF abc
<1>7. <<Host, "input">> \in DOMAIN abcd /\ abcd[<<Host, "input">>] = abc[<<Host, "input">>] /\ Gate \notin DOMAIN abcd
  BY <1>3, <1>6, Behind
<1> HIDE DEF abcd
<1>8. /\ <<Host, "input">> \in DOMAIN abcde /\ abcde[<<Host, "input">>] = abcd[<<Host, "input">>]
      /\ Gate \notin DOMAIN abcde
  BY <1>3, <1>7, Behind
<1> HIDE DEF abcde
<1> DEFINE chains == abcde @@ g
<1>9. <<Host, "input">> \in DOMAIN chains /\ chains[<<Host, "input">>] = abcde[<<Host, "input">>]
  BY <1>8, Left
<1>10. GeoOn(v, names) => Gate \in DOMAIN chains /\ chains[Gate] = g[Gate]
  BY <1>4, <1>8, Right
<1> HIDE DEF chains
<1>11. ChainsOf(nft, v, names, access, f) = chains
  BY <1>1 DEF chains, abcde, abcd, abc, ab
<1> QED
  BY <1>2, <1>4, <1>5, <1>6, <1>7, <1>8, <1>9, <1>10, <1>11

\* Every rule of the gate drops a packet or hands it back.
LEMMA GateOpen ==
  ASSUME NEW v, NEW geo, NEW k, NEW says
  PROVE  /\ IsList(GeoGate(v, geo)) /\ \A r \in Members(GeoGate(v, geo)) : r.to \in {"return", "drop"}
         /\ FirstOf(GeoGate(v, geo), k, says) \in {"return", "drop"}
<1> DEFINE From(S, to) == Only(S # {}, <<Rule([src |-> S], to)>>)
           Closed(s) == IsList(s) /\ \A r \in Members(s) : r.to \in {"return", "drop"}
<1>1. ASSUME NEW r, r.to \in {"return", "drop"} PROVE Closed(<<r>>)
  BY <1>1, OneList
<1>2. \A to \in {"return", "drop"} : \A S : Closed(From(S, to))
  <2> SUFFICES ASSUME NEW to \in {"return", "drop"}, NEW S PROVE Closed(From(S, to))
    OBVIOUS
  <2> DEFINE r == Rule([src |-> S], to)
  <2>1. r.to \in {"return", "drop"}
    BY RuleIs
  <2> HIDE DEF r
  <2>2. Closed(<<r>>) /\ Closed(<<>>)
    BY <2>1, <1>1, OneList
  <2>3. From(S, to) = <<r>> \/ From(S, to) = <<>>
    BY DEF Only, r
  <2> HIDE DEF Closed, From
  <2> QED
    BY <2>2, <2>3
<1>3. Closed(<<Rule(<<>>, "return")>>) /\ Closed(<<Rule(<<>>, "drop")>>)
  BY <1>1, RuleIs
<1>4. ASSUME NEW s, NEW t, Closed(s), Closed(t) PROVE Closed(s \o t)
  BY <1>4, Joined
<1> DEFINE country == IF v.GEO_POLICY_MODE = "denylist"
                        THEN From(geo.denied, "drop") \o <<Rule(<<>>, "return")>>
                        ELSE From(geo.allowed, "return") \o <<Rule(<<>>, "drop")>>
<1>5. GeoGate(v, geo) = (From(geo.deny, "drop") \o From(geo.allow, "return")) \o country
  BY DEF GeoGate
<1> HIDE DEF Closed, From
<1>6. Closed(country)
  BY <1>2, <1>3, <1>4
<1> HIDE DEF country
<1>7. Closed(GeoGate(v, geo))
  BY <1>2, <1>4, <1>5, <1>6
<1> DEFINE gate == GeoGate(v, geo)
<1> HIDE DEF gate
<1>8. IsList(gate) /\ \A r \in Members(gate) : r.to \in {"return", "drop"}
  BY <1>7 DEF Closed, gate
<1>9. FirstOf(gate, k, says) \in {"return", "drop"}
  <2> SUFFICES ASSUME FirstOf(gate, k, says) # "return" PROVE FirstOf(gate, k, says) = "drop"
    OBVIOUS
  <2>1. PICK i \in DOMAIN gate : FirstOf(gate, k, says) = VerdictOf(gate[i], says)
    BY <1>8, FirstDecides
  <2>2. gate[i].to \in {"return", "drop"}
    BY <2>1, <1>8 DEF Members
  <2> QED
    BY <2>1, <2>2 DEF VerdictOf
<1> QED
  BY <1>8, <1>9 DEF gate

\* A packet the chains of a policy accept has its option, its grant or its service.
Account(p, k) ==
  \/ k.iif = "lo"
  \/ k.state # "invalid" /\ k.proto = "icmp" /\ ByCore(k)
  \/ /\ k.state # "invalid" /\ (k.fam = 6 => p.config.FAMILY_POLICY = "dual")
     /\ \/ Exempt(p, k) \/ k.state \in {"established", "related"}
        \/ p.config.HOST_SERVICES /\ ByService(p.config, p.selected, k)

LEMMA HostGranted ==
  ASSUME NEW p, NEW f, NEW k, Admissible(p.backend, p.config, p.selected), Enumerated(p.access),
         AsCompiled(p, f), Accepts(p, k)
  PROVE  Account(p, k)
<1> DEFINE v == p.config
           names == p.selected
           nowhere == [c \in DOMAIN p.chains |-> "return"]
           inner == Says(p.chains, k, nowhere)
           says == Says(p.chains, k, inner)
           core == CoreInput(v)
           input == InputChain(p.backend = "nftables", v, names, p.access)
           closed == IF GeoOn(v, names) THEN {Gate} ELSE {}
<1>1. /\ <<Host, "input">> \in DOMAIN p.chains /\ p.chains[<<Host, "input">>] = input
      /\ GeoOn(v, names) => Gate \in DOMAIN p.chains /\ p.chains[Gate] = GeoGate(v, GeoSets(v, f))
  BY Furnished DEF AsCompiled
<1>2. /\ IsFiniteSet(v.BYPASS_SOURCE_IPS) /\ IsFiniteSet(p.access.host)
      /\ "tcp_ssh" \in names => "SSH_PORT" \in DOMAIN v
  <2>1. "SSH_PORT" \in DOMAIN DefaultsOf("tcp_ssh")
    BY DEF DefaultsOf
  <2> QED
    BY <2>1 DEF Admissible, FiniteOptions, FiniteLists, Enumerated
<1>3. After(closed, core, input, v, names, p.access)
  BY <1>2, InputOpen
<1>4. GeoOn(v, names) => says[Gate] # "accept"
  BY <1>1, GateOpen DEF Says
<1>5. FirstOf(input, k, says) = "accept"
  BY <1>1 DEF Accepts, Walk
<1> HIDE DEF input, says
<1>6. PICK i \in DOMAIN input : /\ Decides(input[i], k, says) /\ \A j \in 1..(i - 1) : ~Decides(input[j], k, says)
                                /\ VerdictOf(input[i], says) = "accept"
  BY <1>3, <1>5, FirstDecides DEF After
<1>7. Opens(closed, input[i]) /\ Matches(input[i], k)
  BY <1>4, <1>6 DEF Opens, VerdictOf, Decides
<1>8. /\ 2 \in DOMAIN core /\ core[2] = Rule([state |-> {"invalid"}], "drop")
      /\ v.FAMILY_POLICY = "ipv4-block-ipv6" => Rule([fam |-> {6}], "drop") \in Members(core)
      /\ \A r \in Members(core) : r.to \in {"accept", "drop"}
      /\ Matches(core[1], k) => k.iif = "lo"
      /\ \A j \in DOMAIN core : j > 2 /\ core[j].to = "accept" /\ Matches(core[j], k) => k.proto = "icmp" /\ ByCore(k)
  BY CoreOpen
<1> HIDE DEF core
<1>9. /\ Len(core) \in Nat /\ DOMAIN core = 1..Len(core) /\ Len(input) \in Nat /\ DOMAIN input = 1..Len(input)
      /\ \A j \in 1..Len(core) : input[j] = core[j]
  BY <1>3, ListFacts DEF After, IsList
<1>10. \A j \in DOMAIN core : core[j] \in Members(core)
  BY DEF Members
<1>11. ASSUME NEW j \in DOMAIN core, j < i PROVE ~Matches(core[j], k)
  <2>1. core[j].to # "jump"
    BY <1>8, <1>10
  <2>2. j \in 1..(i - 1) /\ input[j] = core[j]
    BY <1>9, <1>11
  <2> QED
    BY <2>1, <2>2, <1>6 DEF Decides
<1>12. i > 2 => k.state # "invalid"
  <2> SUFFICES ASSUME i > 2, k.state = "invalid" PROVE FALSE
    OBVIOUS
  <2>1. Matches(core[2], k)
    BY <1>8, RuleIs DEF Matches
  <2> QED
    BY <2>1, <1>8, <1>11
<1>13. CASE i = 1
  <2>1. 1 \in DOMAIN core
    BY <1>8, <1>9
  <2> QED
    BY <2>1, <1>7, <1>8, <1>9, <1>13 DEF Account
<1>14. CASE i = 2
  <2>1. input[2].to = "drop"
    BY <1>8, <1>9, RuleIs
  <2> QED
    BY <2>1, <1>7, <1>14 DEF Opens
<1>15. CASE i > 2 /\ i \in DOMAIN core
  <2>1. input[i] = core[i] /\ core[i] \in Members(core)
    BY <1>9, <1>10, <1>15
  <2>2. core[i].to = "accept"
    BY <2>1, <1>7, <1>8 DEF Opens
  <2> QED
    BY <2>1, <2>2, <1>7, <1>8, <1>12, <1>15 DEF Account
<1>16. CASE i > Len(core)
  <2>1. Admitted(v, names, p.access, k)
    BY <1>3, <1>7, <1>16 DEF After
  <2>2. k.fam = 6 => v.FAMILY_POLICY = "dual"
    <3> SUFFICES ASSUME k.fam = 6, v.FAMILY_POLICY # "dual" PROVE FALSE
      OBVIOUS
    <3>1. Rule([fam |-> {6}], "drop") \in Members(core)
      BY <1>8 DEF Admissible
    <3>2. PICK j \in DOMAIN core : core[j] = Rule([fam |-> {6}], "drop")
      BY <3>1 DEF Members
    <3>3. Matches(core[j], k)
      BY <3>2, RuleIs DEF Matches
    <3>4. j < i
      BY <1>9, <1>16
    <3> QED
      BY <3>3, <3>4, <1>11
  <2>3. i > 2
    BY <1>8, <1>9, <1>16
  <2> QED
    BY <2>1, <2>2, <2>3, <1>12 DEF Admitted, Account, Exempt
<1>17. i = 1 \/ i = 2 \/ (i > 2 /\ i \in DOMAIN core) \/ i > Len(core)
  BY <1>9
<1> QED
  BY <1>13, <1>14, <1>15, <1>16, <1>17

\* The host accepts nothing an option of the configuration does not account for, whatever
\* was applied, updated or removed, and for every set of options, grants and packets.
THEOREM GrantedSafe == PolicySpec => []AcceptedIsGranted
<1>1. RecordInv => AcceptedIsGranted
  <2> SUFFICES ASSUME RecordInv, NEW p \in Compiled, Settled, NEW k \in Arrivals, Accepts(p, k)
               PROVE  Account(p, k)
    BY DEF AcceptedIsGranted, Account
  <2>1. Kept(p, read) /\ p.schema # 1
    BY DEF RecordInv, Compiled
  <2> QED
    BY <2>1, HostGranted DEF Kept
<1> QED
  BY <1>1, RecordKept, PTL

(***************************************************************************)
(* Game traffic: the order of the controls                                 *)
(***************************************************************************)
\* A list of rules has nothing to say of a packet, or some rule of it says the verdict
\* and none before it decided.  but has the fields the rule is not held to.
Passed(s, k, says) == \A r \in Members(s) : ~Decides(r, k, says)
Ends(s, k, says, but, verdict) ==
  \E i \in DOMAIN s : /\ Fits(s[i], k, but) /\ VerdictOf(s[i], says) = verdict
                      /\ \A j \in 1..(i - 1) : ~Decides(s[j], k, says)

LEMMA FirstEnds ==
  ASSUME NEW s, IsList(s), NEW k, NEW says
  PROVE  \/ Passed(s, k, says) /\ FirstOf(s, k, says) = "return"
         \/ ~Passed(s, k, says) /\ Ends(s, k, says, {}, FirstOf(s, k, says))
<1> DEFINE deciding == {i \in DOMAIN s : Decides(s[i], k, says)}
           First(i) == Decides(s[i], k, says) /\ \A j \in 1..(i - 1) : ~Decides(s[j], k, says)
<1>1. DOMAIN s = 1..Len(s) /\ Len(s) \in Nat /\ deciding \subseteq Nat
  BY ListFacts DEF IsList
<1>2. CASE deciding = {}
  BY <1>2 DEF FirstOf, Passed, Members
<1>3. CASE deciding # {}
  <2>1. PICK i \in deciding : \A j \in deciding : i <= j
    BY <1>1, <1>3, Least
  <2>2. i \in DOMAIN s /\ First(i)
    BY <1>1, <2>1
  <2> DEFINE n == CHOOSE x \in DOMAIN s : First(x)
  <2>3. n \in DOMAIN s /\ First(n)
    BY <2>2
  <2>4. FirstOf(s, k, says) = VerdictOf(s[n], says)
    BY <1>3 DEF FirstOf, VerdictOf
  <2> HIDE DEF n
  <2>5. Fits(s[n], k, {})
    BY <2>3 DEF Decides, Matches, Fits
  <2>6. ~Passed(s, k, says)
    BY <2>3 DEF Passed, Members
  <2> QED
    BY <2>3, <2>4, <2>5, <2>6 DEF Ends
<1> QED
  BY <1>2, <1>3

\* What ends two lists ends the first, or the second behind a first that passed.
LEMMA EndsIn ==
  ASSUME NEW s, NEW t, IsList(s), IsList(t), NEW k, NEW says, NEW but, NEW verdict,
         Ends(s \o t, k, says, but, verdict)
  PROVE  Ends(s, k, says, but, verdict) \/ (Passed(s, k, says) /\ Ends(t, k, says, but, verdict))
<1> DEFINE u == s \o t
<1>1. /\ Len(s) \in Nat /\ Len(t) \in Nat /\ DOMAIN s = 1..Len(s) /\ DOMAIN t = 1..Len(t)
  BY ListFacts DEF IsList
<1>2. /\ IsList(u) /\ Len(u) = Len(s) + Len(t)
      /\ \A i \in 1..Len(s) : u[i] = s[i]
      /\ \A i \in 1..Len(t) : u[Len(s) + i] = t[i]
  BY Joined
<1>3. DOMAIN u = 1..Len(u)
  BY <1>2, ListFacts
<1>4. PICK i \in DOMAIN u : /\ Fits(u[i], k, but) /\ VerdictOf(u[i], says) = verdict
                            /\ \A j \in 1..(i - 1) : ~Decides(u[j], k, says)
  BY DEF Ends
<1> HIDE DEF u
<1>5. CASE i \in 1..Len(s)
  <2>1. u[i] = s[i] /\ \A j \in 1..(i - 1) : u[j] = s[j]
    BY <1>1, <1>2, <1>5
  <2> QED
    BY <2>1, <1>1, <1>4, <1>5 DEF Ends
<1>6. CASE i \notin 1..Len(s)
  <2> DEFINE n == i - Len(s)
  <2>1. n \in 1..Len(t) /\ u[i] = t[n]
    <3>1. n \in 1..Len(t) /\ Len(s) + n = i
      BY <1>1, <1>2, <1>3, <1>6
    <3> QED
      BY <3>1, <1>2
  <2>2. \A j \in 1..(n - 1) : Len(s) + j \in 1..(i - 1) /\ u[Len(s) + j] = t[j]
    BY <1>1, <1>2, <1>3, <2>1
  <2>3. \A j \in 1..(n - 1) : ~Decides(t[j], k, says)
    BY <2>2, <1>4
  <2>4. Passed(s, k, says)
    <3> SUFFICES ASSUME NEW j \in DOMAIN s PROVE ~Decides(s[j], k, says)
      BY DEF Passed, Members
    <3>1. j \in 1..(i - 1) /\ u[j] = s[j]
      BY <1>1, <1>2, <1>3, <1>6
    <3> QED
      BY <3>1, <1>4
  <2> HIDE DEF n
  <2> QED
    BY <2>1, <2>3, <2>4, <1>1, <1>4 DEF Ends
<1> QED
  BY <1>5, <1>6

LEMMA PassedIn ==
  ASSUME NEW s, NEW t, IsList(s), IsList(t), NEW k, NEW says, Passed(s \o t, k, says)
  PROVE  Passed(s, k, says) /\ Passed(t, k, says)
BY Joined DEF Passed

\* A list of rules that say other verdicts does not end in this one.
LEMMA EndsBy ==
  ASSUME NEW s, NEW k, NEW says, NEW but, NEW verdict, Ends(s, k, says, but, verdict)
  PROVE  \E r \in Members(s) : Fits(r, k, but) /\ VerdictOf(r, says) = verdict
BY DEF Ends, Members

(***************************************************************************)
(* Administrative sources and families leave the rules of a game as they   *)
(* are for its packets                                                     *)
(***************************************************************************)
AllowRules(names, v) == Only("allowlist_ports" \in names, AllowlistRules(v))
AdminRules(nft, names, v) == Only("tcp_ssh" \in names, IF nft THEN AdminOnly(v, SshRules(v)) ELSE SshRules(v))
RconOf(nft, names, v) == Only("l4d2_tcp_protect" \in names /\ v.L4D2_GAMESERVER_TCP_PORTS # {}, RconRules(nft, v))
WebOf(names, v) == Only("http_https_protect" \in names, WebRules(v))
GameOf(nft, names, v) == Only(Game \subseteq names, GameRules(nft, v, Host))
TcpPart(nft, v, names) == ((AllowRules(names, v) \o AdminRules(nft, names, v)) \o RconOf(nft, names, v)) \o WebOf(names, v)
UdpPart(nft, v, names) == (GeoDeniesV6(v, names) \o GeoRules(v, names)) \o GameOf(nft, names, v)
Plain(nft, v, names) == TcpPart(nft, v, names) \o UdpPart(nft, v, names)

\* The rules of the TCP services match no packet to a game, whatever its source.
LEMMA TcpPartPasses ==
  ASSUME NEW nft, NEW v, NEW names, Game \subseteq names, GameValid(v, names), NEW k, k.proto = "udp",
         "allowlist_ports" \in names => "BYPASS_UDP_PORTS" \in DOMAIN v
  PROVE  /\ IsList(TcpPart(nft, v, names))
         /\ \A r \in Members(TcpPart(nft, v, names)) : ~Fits(r, k, Where)
<1> DEFINE None(s) == IsList(s) /\ \A r \in Members(s) : ~Fits(r, k, Where)
<1>1. ASSUME NEW s, NEW t, None(s), None(t) PROVE None(s \o t)
  BY <1>1, Joined
<1>2. ASSUME NEW c, NEW s, None(s) PROVE None(Only(c, s))
  BY <1>2, OneList DEF Only
<1>3. ASSUME NEW ports, NEW s, IsList(s) PROVE None(Both(Tcp(ports), s))
  <2> DEFINE on == Tcp(ports)
  <2>1. "proto" \in DOMAIN on /\ on["proto"] = {"tcp"}
    BY TcpFields
  <2> HIDE DEF on
  <2>2. IsList(Both(on, s))
    BY <1>3, BothList
  <2>3. ASSUME NEW r \in Members(Both(on, s)), Fits(r, k, Where) PROVE FALSE
    <3>1. \A field \in DOMAIN on \ Where : k[field] \in on[field]
      BY <1>3, <2>3, Narrowed
    <3> QED
      BY <3>1, <2>1 DEF Where
  <2> QED
    BY <2>2, <2>3 DEF on
<1>4. None(AllowRules(names, v))
  <2>1. CASE "allowlist_ports" \in names
    <3>1. v.BYPASS_UDP_PORTS = {}
      BY <2>1 DEF GameValid, Game, Get
    <3> QED
      BY <3>1, <2>1, AllowlistOpen DEF AllowRules, Only
  <2>2. CASE "allowlist_ports" \notin names
    BY <2>2, OneList DEF AllowRules, Only
  <2> QED
    BY <2>1, <2>2
<1>5. None(SshRules(v))
  BY <1>3, OneList DEF SshRules
<1>6. None(AdminOnly(v, SshRules(v)))
  <2> DEFINE list == SshRules(v)
  <2>1. None(list)
    BY <1>5
  <2> HIDE DEF list
  <2>2. IsList(AdminOnly(v, list)) /\ DOMAIN AdminOnly(v, list) = DOMAIN list
    BY <2>1, AdminNarrows
  <2>3. ASSUME NEW r \in Members(AdminOnly(v, list)), Fits(r, k, Where) PROVE FALSE
    <3>1. PICK i \in DOMAIN list : r = AdminOnly(v, list)[i]
      BY <2>2 DEF Members
    <3>2. CASE v.ADMIN_SOURCES = {}
      BY <3>1, <3>2, <2>1, <2>3 DEF AdminOnly, Members
    <3>3. CASE v.ADMIN_SOURCES # {}
      <4> DEFINE on == [src |-> UNION v.ADMIN_SOURCES]
      <4>1. AdminOnly(v, list) = Both(on, list) /\ DOMAIN on \subseteq Where
        BY <3>3 DEF AdminOnly, Where
      <4> HIDE DEF on
      <4>2. r \in Members(Both(on, list))
        BY <4>1, <2>3
      <4>3. PICK q \in Members(list) : Fits(q, k, Where \cup DOMAIN on)
        BY <4>2, <2>1, <2>3, Narrowed
      <4>4. Where \cup DOMAIN on = Where
        BY <4>1
      <4> QED
        BY <4>3, <4>4, <2>1
    <3> QED
      BY <3>2, <3>3
  <2> QED
    BY <2>2, <2>3 DEF list
<1>7. None(WebRules(v)) /\ None(RconRules(nft, v))
  <2>1. None(WebRules(v))
    BY <1>3, OneList DEF WebRules
  <2>2. None(RconRules(nft, v))
    BY <1>3, OneList DEF RconRules
  <2> QED
    BY <2>1, <2>2
<1> HIDE DEF None
<1>8. None(AdminRules(nft, names, v)) /\ None(WebOf(names, v)) /\ None(RconOf(nft, names, v))
  <2>1. None(AdminRules(nft, names, v))
    <3>1. CASE nft
      BY <3>1, <1>2, <1>6 DEF AdminRules
    <3>2. CASE ~nft
      BY <3>2, <1>2, <1>5 DEF AdminRules
    <3> QED
      BY <3>1, <3>2
  <2>2. None(WebOf(names, v))
    BY <1>2, <1>7 DEF WebOf
  <2>3. None(RconOf(nft, names, v))
    <3> DEFINE c == "l4d2_tcp_protect" \in names /\ v.L4D2_GAMESERVER_TCP_PORTS # {}
    <3>1. CASE c
      BY <3>1, <1>7 DEF RconOf, Only
    <3>2. CASE ~c
      BY <3>2, OneList DEF RconOf, Only, None
    <3> QED
      BY <3>1, <3>2
  <2> QED
    BY <2>1, <2>2, <2>3
<1>9. None(TcpPart(nft, v, names))
  BY <1>1, <1>4, <1>8 DEF TcpPart
<1> QED
  BY <1>9 DEF None

\* The rules of the games, and of the country filter, are for the ports of the games.
GameLists(v) == {v.L4D2_GAMESERVER_UDP_PORTS, v.L4D2_SOURCETV_UDP_PORTS, AllGamePorts(v)}
ForPorts(r, lists) == "dport" \in DOMAIN r.on /\ r.on["dport"] \in lists

LEMMA BothForPorts ==
  ASSUME NEW lists, NEW ports \in lists, NEW s, IsList(s)
  PROVE  IsList(Both(Udp(ports), s)) /\ \A r \in Members(Both(Udp(ports), s)) : ForPorts(r, lists)
<1> DEFINE on == Udp(ports)
<1>1. "dport" \in DOMAIN on /\ on["dport"] = ports
  BY UdpFields
<1> HIDE DEF on
<1>2. ASSUME NEW r \in Members(Both(on, s)) PROVE ForPorts(r, lists)
  <2>1. PICK q \in Members(s) : r.on = on @@ q.on
    BY BothMembers
  <2>2. "dport" \in DOMAIN r.on /\ r.on["dport"] = ports
    BY <1>1, <2>1, Left
  <2> QED
    BY <2>2 DEF ForPorts
<1> QED
  BY <1>2, BothList DEF on

LEMMA GameForPorts ==
  ASSUME NEW nft, NEW v, NEW ctx
  PROVE  \A r \in Members(GameRules(nft, v, ctx)) : ForPorts(r, GameLists(v))
<1> DEFINE lists == GameLists(v)
           gs == v.L4D2_GAMESERVER_UDP_PORTS
           tv == v.L4D2_SOURCETV_UDP_PORTS
           all == AllGamePorts(v)
           For(s) == IsList(s) /\ \A r \in Members(s) : ForPorts(r, lists)
<1>1. gs \in lists /\ tv \in lists /\ all \in lists
  BY DEF GameLists
<1> HIDE DEF lists
<1>2. ASSUME NEW s, NEW t, For(s), For(t) PROVE For(s \o t)
  BY <1>2, Joined
<1>3. For(ValidationRules(v))
  <2> DEFINE list == Sizes(v)
  <2>1. ValidationRules(v) = Both(Udp(gs), list) \o Both(Udp(tv), list)
    BY DEF ValidationRules, Sizes
  <2>2. IsList(list)
    BY SizesDrop
  <2> HIDE DEF list, gs, tv
  <2>3. For(Both(Udp(gs), list)) /\ For(Both(Udp(tv), list))
    BY <1>1, <2>2, BothForPorts
  <2> HIDE DEF For
  <2> QED
    BY <2>1, <2>3, <1>2
<1>4. For(QueryRules(nft, v, ctx))
  <2> DEFINE a == Jump(Signature({"54"}), <<ctx, "a2s_limit">>)
             b == Jump(Signature(SteamSignatures(nft, v)), <<ctx, "steam_group_limit">>)
             more == Only(v.ENABLE_STEAM_GROUP_FILTER, <<b>>)
             list == <<a>> \o more
             served == Udp(gs)
             login == (served @@ Short) @@ Signature({"71"})
             c == Jump([verb |-> {"connect", "reserve"}] @@ login, <<ctx, "login_limit">>)
             d == Rule(login, "drop")
             e == Jump(login, <<ctx, "login_limit">>)
             logins == IF nft THEN <<c, d>> ELSE <<e>>
  <2>1. QueryRules(nft, v, ctx) = Both(Udp(all), list) \o logins
    BY DEF QueryRules
  <2>2. IsList(<<a>>) /\ IsList(more)
    BY OneList DEF Only
  <2> HIDE DEF a, more
  <2>3. IsList(list)
    BY <2>2, Joined
  <2> HIDE DEF list
  <2>4. For(Both(Udp(all), list))
    BY <1>1, <2>3, BothForPorts
  <2>5. "dport" \in DOMAIN login /\ login["dport"] = gs
    <3>1. "dport" \in DOMAIN (served @@ Short) /\ (served @@ Short)["dport"] = gs
      BY UdpFields, Left
    <3> HIDE DEF served
    <3> QED
      BY <3>1, Left
  <2> HIDE DEF login
  <2>6. ForPorts(c, lists) /\ ForPorts(d, lists) /\ ForPorts(e, lists)
    <3>1. DOMAIN [verb |-> {"connect", "reserve"}] = {"verb"}
      OBVIOUS
    <3>2. c.on = [verb |-> {"connect", "reserve"}] @@ login /\ d.on = login /\ e.on = login
      BY RuleIs, JumpIs
    <3> HIDE DEF c, d, e
    <3>3. "dport" \in DOMAIN c.on /\ c.on["dport"] = gs
      BY <3>1, <3>2, <2>5, Right
    <3> QED
      BY <3>2, <3>3, <2>5, <1>1 DEF ForPorts
  <2> HIDE DEF c, d, e
  <2>7. For(logins)
    <3>1. For(<<c, d>>) /\ For(<<e>>)
      BY <2>6, OneList
    <3> HIDE DEF For
    <3> QED
      BY <3>1
  <2> HIDE DEF For, logins
  <2> QED
    BY <2>1, <2>4, <2>7, <1>2
<1>5. For(BaseRules(v, ctx))
  <2> DEFINE old == [state |-> {"established"}]
             a == Jump(Udp(gs) @@ New, <<ctx, "udp_new_limit">>)
             b == Jump(Udp(tv) @@ New, <<ctx, "udp_new_limit_sourcetv">>)
             c == Jump(Udp(gs) @@ old, <<ctx, "udp_established_limit">>)
             d == Jump(Udp(tv) @@ old, <<ctx, "udp_established_limit">>)
  <2>1. BaseRules(v, ctx) = <<a, b, c, d>>
    BY DEF BaseRules
  <2>2. a.on = Udp(gs) @@ New /\ b.on = Udp(tv) @@ New /\ c.on = Udp(gs) @@ old /\ d.on = Udp(tv) @@ old
    BY JumpIs
  <2> HIDE DEF a, b, c, d, gs, tv, old
  <2>3. ASSUME NEW ports, NEW more PROVE "dport" \in DOMAIN (Udp(ports) @@ more) /\ (Udp(ports) @@ more)["dport"] = ports
    BY UdpFields, Left
  <2>4. ForPorts(a, lists) /\ ForPorts(b, lists) /\ ForPorts(c, lists) /\ ForPorts(d, lists)
    BY <2>2, <2>3, <1>1 DEF ForPorts
  <2> QED
    BY <2>1, <2>4, OneList
<1> HIDE DEF For
<1>6. For(GameRules(nft, v, ctx))
  BY <1>2, <1>3, <1>4, <1>5 DEF GameRules
<1> QED
  BY <1>6 DEF For, lists

LEMMA PlainServices ==
  ASSUME NEW nft, NEW v, NEW names
  PROVE  HostServices(nft, v, names) =
           ForFamilies(nft, names, IF nft THEN Plain(nft, v, names) ELSE AdminByPort(v, Plain(nft, v, names)))
<1>1. Plain(nft, v, names) =
        (((Only("allowlist_ports" \in names, AllowlistRules(v))
           \o Only("tcp_ssh" \in names, IF nft THEN AdminOnly(v, SshRules(v)) ELSE SshRules(v)))
          \o Only("l4d2_tcp_protect" \in names /\ v.L4D2_GAMESERVER_TCP_PORTS # {}, RconRules(nft, v)))
         \o Only("http_https_protect" \in names, WebRules(v)))
        \o ((GeoDeniesV6(v, names) \o GeoRules(v, names)) \o Only(Game \subseteq names, GameRules(nft, v, Host)))
  BY DEF Plain, TcpPart, UdpPart, AllowRules, AdminRules, RconOf, WebOf, GameOf
<1> QED
  BY <1>1 DEF HostServices

LEMMA UdpPartList ==
  ASSUME NEW nft, NEW v, NEW names
  PROVE  /\ IsList(GeoDeniesV6(v, names)) /\ IsList(GeoRules(v, names)) /\ IsList(GameOf(nft, names, v))
         /\ IsList(UdpPart(nft, v, names))
<1>1. IsList(GeoDeniesV6(v, names)) /\ IsList(GeoRules(v, names))
  BY GeoOpen
<1>2. IsList(GameOf(nft, names, v))
  BY GameOpen, OneList DEF GameOf, Only
<1> QED
  BY <1>1, <1>2, Joined DEF UdpPart

\* Without a filter of countries every rule of a UDP service is for the ports of a game.
LEMMA UdpPartForPorts ==
  ASSUME NEW nft, NEW v, NEW names, ~GeoOn(v, names)
  PROVE  \A r \in Members(UdpPart(nft, v, names)) : ForPorts(r, GameLists(v))
<1> DEFINE deny == GeoDeniesV6(v, names)
           gate == GeoRules(v, names)
           game == GameOf(nft, names, v)
<1>1. deny = <<>> /\ gate = <<>>
  BY DEF GeoDeniesV6, GeoRules, Only
<1>2. \A r \in Members(game) : ForPorts(r, GameLists(v))
  BY GameForPorts, OneList DEF GameOf, Only
<1>3. IsList(deny) /\ IsList(gate) /\ IsList(game) /\ Members(deny) = {} /\ Members(gate) = {}
  BY <1>1, UdpPartList, OneList
<1>4. UdpPart(nft, v, names) = (deny \o gate) \o game
  BY DEF UdpPart
<1> HIDE DEF deny, gate, game
<1>5. IsList(deny \o gate) /\ Members(deny \o gate) = {}
  BY <1>3, Joined
<1> DEFINE geo == deny \o gate
<1> HIDE DEF geo
<1>6. Members(geo \o game) = Members(geo) \cup Members(game)
  BY <1>3, <1>5, Joined DEF geo
<1> QED
  BY <1>2, <1>4, <1>5, <1>6 DEF geo

\* Whether the rules of the services hold a packet of a game does not change by what the
\* compiler adds to them: iptables has such packets of IPv4 alone, and the rules of SSH
\* are known by another list of ports.
Plainly(nft, v, names, k) ==
  LET s == HostServices(nft, v, names)
      plain == Plain(nft, v, names)
  IN /\ IsList(s) /\ IsList(plain) /\ DOMAIN s = DOMAIN plain
     /\ \A i \in DOMAIN plain :
          /\ s[i].to = plain[i].to /\ s[i].chain = plain[i].chain
          /\ Matches(s[i], k) => Fits(plain[i], k, Where)
          /\ Matches(plain[i], k) => Matches(s[i], k)

LEMMA ServicesPlain ==
  ASSUME NEW nft, NEW v, NEW names, Game \subseteq names, GameValid(v, names), NEW k, k.proto = "udp",
         "allowlist_ports" \in names => "BYPASS_UDP_PORTS" \in DOMAIN v,
         ~nft => /\ k.fam = 4 /\ ~GeoOn(v, names)
                 /\ v.ADMIN_SOURCES # {} /\ "SSH_PORT" \in DOMAIN v => v.SSH_PORT \notin GameLists(v)
  PROVE  Plainly(nft, v, names, k)
<1> DEFINE tcp == TcpPart(nft, v, names)
           udp == UdpPart(nft, v, names)
           plain == Plain(nft, v, names)
           s == HostServices(nft, v, names)
<1>1. IsList(tcp) /\ \A r \in Members(tcp) : ~Fits(r, k, Where)
  BY TcpPartPasses
<1>2. IsList(udp)
  BY UdpPartList
<1>3. IsList(plain) /\ Members(plain) = Members(tcp) \cup Members(udp)
  <2>1. plain = tcp \o udp
    BY DEF Plain
  <2> HIDE DEF plain, tcp, udp
  <2> QED
    BY <2>1, <1>1, <1>2, Joined
<1>4. CASE nft
  <2>1. s = plain
    BY <1>4, PlainServices DEF ForFamilies
  <2> HIDE DEF plain, s
  <2>2. \A r : Matches(r, k) => Fits(r, k, Where)
    BY DEF Matches, Fits
  <2>3. /\ IsList(s) /\ IsList(plain) /\ DOMAIN s = DOMAIN plain
        /\ \A i \in DOMAIN plain :
             /\ s[i].to = plain[i].to /\ s[i].chain = plain[i].chain
             /\ Matches(s[i], k) => Fits(plain[i], k, Where)
             /\ Matches(plain[i], k) => Matches(s[i], k)
    BY <2>1, <2>2, <1>3
  <2> QED
    BY <2>3 DEF Plainly, s, plain
<1>5. CASE ~nft
  <2> DEFINE narrow == AdminByPort(v, plain)
             on == [fam |-> {4}]
  <2>1. s = Both(on, narrow)
    <3>1. names \cap Game # {}
      BY DEF Game
    <3> QED
      BY <3>1, <1>5, PlainServices DEF ForFamilies
  <2>2. \A r \in Members(udp) : ForPorts(r, GameLists(v))
    BY <1>5, UdpPartForPorts
  <2>3. DOMAIN on = {"fam"} /\ on["fam"] = {4} /\ k.fam = 4
    BY <1>5
  <2> HIDE DEF plain, tcp, udp, s, on
  <2>4. /\ IsList(narrow) /\ DOMAIN narrow = DOMAIN plain
        /\ \A i \in DOMAIN plain : \A q : Fits(narrow[i], q, {"fam"}) => Fits(plain[i], q, Where)
        /\ \A i \in DOMAIN plain : narrow[i].to = plain[i].to /\ narrow[i].chain = plain[i].chain
    BY <1>3, ByPortNarrows
  <2>5. ASSUME NEW i \in DOMAIN plain, Matches(plain[i], k) PROVE narrow[i] = plain[i]
    <3>1. Fits(plain[i], k, Where) /\ plain[i] \in Members(plain)
      BY <2>5 DEF Matches, Fits, Members
    <3>2. ForPorts(plain[i], GameLists(v))
      BY <3>1, <1>1, <1>3, <2>2
    <3>3. CASE v.ADMIN_SOURCES = {}
      BY <3>3 DEF AdminByPort, AdminOnly
    <3>4. CASE v.ADMIN_SOURCES # {}
      <4>1. ~("SSH_PORT" \in DOMAIN v /\ Get(plain[i].on, "dport", {}) = v.SSH_PORT)
        BY <3>2, <3>4, <1>5 DEF ForPorts, Get
      <4> QED
        BY <4>1 DEF AdminByPort
    <3> QED
      BY <3>3, <3>4
  <2> HIDE DEF narrow
  <2>6. /\ IsList(s) /\ DOMAIN s = DOMAIN plain
        /\ \A i \in DOMAIN plain : s[i].to = narrow[i].to /\ s[i].chain = narrow[i].chain /\ s[i].on = on @@ narrow[i].on
    BY <2>1, <2>4, BothList DEF Both
  <2>7. ASSUME NEW i \in DOMAIN plain, Matches(s[i], k) PROVE Fits(plain[i], k, Where)
    <3> DEFINE m == narrow[i].on
    <3>1. s[i].on = on @@ m
      BY <2>6
    <3>2. \A field \in DOMAIN m \ {"fam"} : field \in DOMAIN s[i].on /\ s[i].on[field] = m[field]
      BY <3>1, <2>3, Right
    <3>3. Fits(narrow[i], k, {"fam"})
      BY <3>2, <2>7 DEF Matches, Fits
    <3> QED
      BY <3>3, <2>4
  <2>8. ASSUME NEW i \in DOMAIN plain, Matches(plain[i], k) PROVE Matches(s[i], k)
    <3> DEFINE m == plain[i].on
    <3>1. s[i].on = on @@ m
      BY <2>5, <2>6, <2>8
    <3>2. \A field \in DOMAIN m : k[field] \in m[field]
      BY <2>8 DEF Matches
    <3>3. \A field \in DOMAIN on : k[field] \in on[field]
      BY <2>3
    <3> HIDE DEF m
    <3>4. \A field \in DOMAIN (on @@ m) : k[field] \in (on @@ m)[field]
      BY <3>2, <3>3 DEF @@
    <3> QED
      BY <3>1, <3>4 DEF Matches
  <2>9. /\ IsList(s) /\ IsList(plain) /\ DOMAIN s = DOMAIN plain
        /\ \A i \in DOMAIN plain :
             /\ s[i].to = plain[i].to /\ s[i].chain = plain[i].chain
             /\ Matches(s[i], k) => Fits(plain[i], k, Where)
             /\ Matches(plain[i], k) => Matches(s[i], k)
    BY <2>4, <2>6, <2>7, <2>8, <1>3
  <2> QED
    BY <2>9 DEF Plainly, s, plain
<1> QED
  BY <1>4, <1>5

LEMMA PlainVerdicts ==
  ASSUME NEW nft, NEW v, NEW names, NEW k, Plainly(nft, v, names, k), NEW says, NEW verdict
  PROVE  /\ Passed(HostServices(nft, v, names), k, says) => Passed(Plain(nft, v, names), k, says)
         /\ Ends(HostServices(nft, v, names), k, says, {}, verdict) =>
              Ends(Plain(nft, v, names), k, says, Where, verdict)
<1> DEFINE s == HostServices(nft, v, names)
           plain == Plain(nft, v, names)
<1>1. /\ IsList(s) /\ IsList(plain) /\ DOMAIN s = DOMAIN plain
      /\ \A i \in DOMAIN plain :
           /\ s[i].to = plain[i].to /\ s[i].chain = plain[i].chain
           /\ Matches(s[i], k) => Fits(plain[i], k, Where)
           /\ Matches(plain[i], k) => Matches(s[i], k)
  BY DEF Plainly
<1> HIDE DEF s, plain
<1>2. \A i \in DOMAIN plain : ~Decides(s[i], k, says) => ~Decides(plain[i], k, says)
  BY <1>1 DEF Decides
<1>3. Passed(s, k, says) => Passed(plain, k, says)
  BY <1>1, <1>2 DEF Passed, Members
<1>4. ASSUME NEW i \in DOMAIN s, Fits(s[i], k, {}), VerdictOf(s[i], says) = verdict,
             \A j \in 1..(i - 1) : ~Decides(s[j], k, says)
      PROVE  Ends(plain, k, says, Where, verdict)
  <2>1. Fits(plain[i], k, Where) /\ VerdictOf(plain[i], says) = verdict
    BY <1>1, <1>4 DEF Fits, Matches, VerdictOf
  <2>2. \A j \in 1..(i - 1) : j \in DOMAIN plain
    BY <1>1, ListFacts DEF IsList
  <2> QED
    BY <2>1, <2>2, <1>1, <1>2, <1>4 DEF Ends
<1>5. Ends(s, k, says, {}, verdict) => Ends(plain, k, says, Where, verdict)
  BY <1>4 DEF Ends
<1> QED
  BY <1>3, <1>5 DEF s, plain

(***************************************************************************)
(* The limits                                                              *)
(***************************************************************************)
\* A list that accepts a packet under its limit only.
OnlyUnder(s) ==
  IsList(s) /\ \A r \in Members(s) : r.to \in {"accept", "drop", "return"} /\
                  (r.to = "accept" => \A k : Matches(r, k) => k.meter = "under")

LEMMA UnderSays ==
  ASSUME NEW s, OnlyUnder(s), NEW k, NEW says, FirstOf(s, k, says) = "accept"
  PROVE  k.meter = "under"
<1>1. Ends(s, k, says, {}, "accept")
  BY FirstEnds DEF OnlyUnder
<1>2. PICK r \in Members(s) : Fits(r, k, {}) /\ VerdictOf(r, says) = "accept"
  BY <1>1, EndsBy
<1>3. Matches(r, k)
  BY <1>2 DEF Fits, Matches
<1> QED
  BY <1>2, <1>3 DEF OnlyUnder, VerdictOf

LEMMA Always ==
  ASSUME NEW to, NEW k
  PROVE  Matches(Rule(<<>>, to), k)
BY RuleIs DEF Matches

\* The chain of a limit decides every packet that enters it.
LEMMA LimitIs ==
  ASSUME NEW nft, NEW accepted, "meter" \notin DOMAIN accepted
  PROVE  /\ OnlyUnder(LimitChain(nft, accepted))
         /\ \A k, says : FirstOf(LimitChain(nft, accepted), k, says) # "return"
<1> DEFINE a == Rule(accepted @@ Under, "accept")
           b == Rule(accepted @@ Over, "drop")
           c == Rule(<<>>, "drop")
           over == Only(nft, <<b>>)
           s == (<<a>> \o over) \o <<c>>
<1>1. LimitChain(nft, accepted) = s
  BY DEF LimitChain
<1>2. a.to = "accept" /\ b.to = "drop" /\ c.to = "drop"
  BY RuleIs
<1>3. \A k : Matches(a, k) => k.meter = "under"
  <2>1. DOMAIN Under = {"meter"} /\ Under["meter"] = {"under"}
    BY DEF Under
  <2>2. "meter" \in DOMAIN a.on /\ a.on["meter"] = {"under"}
    <3>1. a.on = accepted @@ Under
      BY RuleIs
    <3> HIDE DEF a
    <3> QED
      BY <3>1, <2>1, Right
  <2> QED
    BY <2>2 DEF Matches
<1>4. \A k : Matches(c, k)
  BY Always
<1> HIDE DEF a, b, c
<1>5. IsList(<<a>>) /\ Members(<<a>>) = {a} /\ IsList(<<c>>) /\ Members(<<c>>) = {c}
  BY OneList
<1>6. IsList(over) /\ Members(over) \subseteq {b}
  BY OneList DEF Only
<1> HIDE DEF over
<1> DEFINE two == <<a>> \o over
<1>7. IsList(two) /\ Members(two) \subseteq {a, b}
  BY <1>5, <1>6, Joined
<1>8. IsList(two \o <<c>>) /\ Members(two \o <<c>>) = Members(two) \cup Members(<<c>>)
  BY <1>5, <1>7, Joined
<1>9. IsList(s) /\ Members(s) \subseteq {a, b, c} /\ c \in Members(s)
  BY <1>5, <1>7, <1>8 DEF two
<1> HIDE DEF s
<1>10. OnlyUnder(s)
  BY <1>2, <1>3, <1>9 DEF OnlyUnder
<1>11. ASSUME NEW k, NEW says PROVE FirstOf(s, k, says) # "return"
  <2>1. Decides(c, k, says)
    BY <1>2, <1>4 DEF Decides
  <2>2. ~Passed(s, k, says)
    BY <2>1, <1>9 DEF Passed
  <2>3. Ends(s, k, says, {}, FirstOf(s, k, says))
    BY <2>2, <1>9, FirstEnds
  <2>4. PICK r \in Members(s) : VerdictOf(r, says) = FirstOf(s, k, says)
    BY <2>3, EndsBy
  <2>5. r.to \in {"accept", "drop"}
    BY <2>4, <1>2, <1>9
  <2> QED
    BY <2>4, <2>5 DEF VerdictOf
<1> QED
  BY <1>1, <1>10, <1>11

LEMMA LimiterIs ==
  ASSUME NEW nft, NEW rate, NEW burst, NEW accepted, "meter" \notin DOMAIN accepted, ~(rate = 0 \/ burst = 0)
  PROVE  OnlyUnder(Limiter(nft, rate, burst, accepted))
BY LimitIs DEF Limiter

LEMMA UnderJoined ==
  ASSUME NEW s, NEW t, OnlyUnder(s), OnlyUnder(t)
  PROVE  OnlyUnder(s \o t)
BY Joined DEF OnlyUnder

\* A list of exceptions from a limit accepts nothing by itself.
LEMMA AsideIs ==
  ASSUME NEW condition, NEW on, NEW to \in {"return", "drop"}
  PROVE  OnlyUnder(Only(condition, <<Rule(on, to)>>))
<1> DEFINE r == Rule(on, to)
<1>1. r.to \in {"drop", "return"}
  BY RuleIs
<1> HIDE DEF r
<1>2. OnlyUnder(<<r>>) /\ OnlyUnder(<<>>)
  BY <1>1, OneList DEF OnlyUnder
<1> HIDE DEF OnlyUnder
<1>3. OnlyUnder(Only(condition, <<r>>))
  BY <1>2 DEF Only
<1> QED
  BY <1>3 DEF r

\* A list that enters no other chain.
Flat(s) == IsList(s) /\ \A r \in Members(s) : r.to \in {"accept", "drop", "return"}

LEMMA LimiterFlat ==
  ASSUME NEW nft, NEW rate, NEW burst, NEW accepted, "meter" \notin DOMAIN accepted
  PROVE  Flat(Limiter(nft, rate, burst, accepted))
<1> DEFINE all == Rule(<<>>, "accept")
<1>1. all.to = "accept"
  BY RuleIs
<1> HIDE DEF all
<1>2. Flat(<<all>>)
  BY <1>1, OneList DEF Flat
<1>3. CASE rate = 0 \/ burst = 0
  BY <1>2, <1>3 DEF Limiter, all
<1>4. CASE ~(rate = 0 \/ burst = 0)
  BY <1>4, LimiterIs DEF Flat, OnlyUnder
<1> QED
  BY <1>3, <1>4

\* The chains a game has: the limits of its queries may be switched off, those of all
\* its packets may not.
GameLimits == {"udp_new_limit", "udp_new_limit_sourcetv", "udp_established_limit"}
QueryLimits == {"a2s_limit", "steam_group_limit", "login_limit"}
SwitchedOff(v, x) ==
  \/ x \in {"a2s_limit", "steam_group_limit"} /\ (v.A2S_RATE = 0 \/ v.A2S_BURST = 0)
  \/ x = "login_limit" /\ (v.L4D2_LOGIN_RATE = 0 \/ v.L4D2_LOGIN_BURST = 0)

LEMMA Entry ==
  ASSUME NEW x, NEW y
  PROVE  DOMAIN (x :> y) = {x} /\ (x :> y)[x] = y
BY DEF :>

LEMMA Added ==
  ASSUME NEW f, NEW x, NEW y, NEW g, x \notin DOMAIN f, g = f @@ (x :> y)
  PROVE  g[x] = y
<1> DEFINE h == x :> y
<1>1. DOMAIN h = {x} /\ h[x] = y /\ g = f @@ h
  BY Entry
<1> HIDE DEF h
<1> QED
  BY <1>1, Right

LEMMA AddedKeeps ==
  ASSUME NEW f, NEW x, NEW y, NEW g, g = f @@ (x :> y), NEW z \in DOMAIN f
  PROVE  g[z] = f[z]
BY Left

LEMMA AddedDomain ==
  ASSUME NEW f, NEW x, NEW y, NEW g, g = f @@ (x :> y)
  PROVE  DOMAIN g = DOMAIN f \cup {x}
<1> DEFINE h == x :> y
<1>1. DOMAIN h = {x} /\ g = f @@ h
  BY Entry
<1> HIDE DEF h
<1> QED
  BY <1>1, Together

LEMMA GameChainsAre ==
  ASSUME NEW nft, NEW v, NEW ctx
  PROVE  LET chains == GameChains(nft, v, ctx) IN
         /\ DOMAIN chains = {<<ctx, x>> : x \in GameLimits \cup QueryLimits}
         /\ \A x \in GameLimits \cup QueryLimits : SwitchedOff(v, x) \/ OnlyUnder(chains[<<ctx, x>>])
         /\ \A x \in GameLimits \cup QueryLimits : Flat(chains[<<ctx, x>>])
         /\ chains[<<ctx, "udp_established_limit">>] = LimitChain(nft, << >>)
         /\ chains[<<ctx, "a2s_limit">>] = Limiter(nft, v.A2S_RATE, v.A2S_BURST, << >>)
<1> DEFINE verbs == IF nft THEN << >> ELSE [verb |-> {"connect", "reserve"}]
           left == Only(v.ENABLE_UDP_NEW_FFFFFFFF_BYPASS, <<Rule(Signature(LeftToQueries(v)), "return")>>)
           logins == Only(v.ENABLE_UDP_NEW_FFFFFFFF_BYPASS,
                          <<Rule(Udp(v.L4D2_GAMESERVER_UDP_PORTS) @@ Signature({"71"}), "return")>>)
           large == Only(v.ENABLE_UDP_NEW_LARGE_FILTER, <<Rule([size |-> {"large", "huge"}], "drop")>>)
           A == Limiter(nft, v.A2S_RATE, v.A2S_BURST, << >>)
           L == Limiter(nft, v.L4D2_LOGIN_RATE, v.L4D2_LOGIN_BURST, verbs)
           N == ((left \o logins) \o large) \o LimitChain(nft, << >>)
           T == left \o LimitChain(nft, << >>)
           E == LimitChain(nft, << >>)
           Name(x) == <<ctx, x>>
           a == Name("a2s_limit")
           b == Name("steam_group_limit")
           c == Name("login_limit")
           d == Name("udp_new_limit")
           e == Name("udp_new_limit_sourcetv")
           g == Name("udp_established_limit")
           first == a :> A
           one == first @@ (b :> A)
           two == one @@ (c :> L)
           three == two @@ (d :> N)
           four == three @@ (e :> T)
           chains == four @@ (g :> E)
<1>1. GameChains(nft, v, ctx) = chains
  BY DEF GameChains
<1>2. "meter" \notin DOMAIN << >> /\ "meter" \notin DOMAIN verbs
  BY DEF @@
<1>3. SwitchedOff(v, "a2s_limit") \/ OnlyUnder(A)
  BY <1>2, LimiterIs DEF SwitchedOff
<1>4. SwitchedOff(v, "login_limit") \/ OnlyUnder(L)
  <2> HIDE DEF verbs
  <2> QED
    BY <1>2, LimiterIs DEF SwitchedOff
<1>5. OnlyUnder(E)
  BY <1>2, LimitIs
<1>22. Flat(A) /\ Flat(L)
  <2> HIDE DEF verbs
  <2> QED
    BY <1>2, LimiterFlat
<1>6. OnlyUnder(left) /\ OnlyUnder(logins) /\ OnlyUnder(large)
  <2>1. OnlyUnder(left)
    BY AsideIs
  <2>2. OnlyUnder(logins)
    BY AsideIs
  <2>3. OnlyUnder(large)
    BY AsideIs
  <2> QED
    BY <2>1, <2>2, <2>3
<1> HIDE DEF left, logins, large, E, A, L
<1>7. OnlyUnder(N) /\ OnlyUnder(T)
  BY <1>5, <1>6, UnderJoined DEF E
<1> HIDE DEF N, T
<1>8. /\ b # a
       /\ c # a /\ c # b
       /\ d # a /\ d # b /\ d # c
       /\ e # a /\ e # b /\ e # c /\ e # d
       /\ g # a /\ g # b /\ g # c /\ g # d /\ g # e
  OBVIOUS
<1> HIDE DEF a, b, c, d, e, g, Name
<1>9. one = first @@ (b :> A)
  OBVIOUS
<1>10. two = one @@ (c :> L)
  OBVIOUS
<1>11. three = two @@ (d :> N)
  OBVIOUS
<1>12. four = three @@ (e :> T)
  OBVIOUS
<1>13. chains = four @@ (g :> E)
  OBVIOUS
<1>14. DOMAIN first = {a} /\ first[a] = A
  BY Entry
<1> HIDE DEF first, one, two, three, four, chains
<1>15. DOMAIN one = {a, b} /\ one[a] = A /\ one[b] = A
  <2>1. b \notin DOMAIN first
    BY <1>8, <1>14
  <2>2. DOMAIN one = DOMAIN first \cup {b}
    BY <1>9, AddedDomain
  <2>3. one[b] = A
    BY <2>1, <1>9, Added
  <2>4. \A z \in DOMAIN first : one[z] = first[z]
    BY <1>9, AddedKeeps
  <2> QED
    BY <2>2, <2>3, <2>4, <1>14
<1>16. DOMAIN two = {a, b, c} /\ two[a] = A /\ two[b] = A /\ two[c] = L
  <2>1. c \notin DOMAIN one
    BY <1>8, <1>15
  <2>2. DOMAIN two = DOMAIN one \cup {c}
    BY <1>10, AddedDomain
  <2>3. two[c] = L
    BY <2>1, <1>10, Added
  <2>4. \A z \in DOMAIN one : two[z] = one[z]
    BY <1>10, AddedKeeps
  <2> QED
    BY <2>2, <2>3, <2>4, <1>15
<1>17. DOMAIN three = {a, b, c, d} /\ three[a] = A /\ three[b] = A /\ three[c] = L /\ three[d] = N
  <2>1. d \notin DOMAIN two
    BY <1>8, <1>16
  <2>2. DOMAIN three = DOMAIN two \cup {d}
    BY <1>11, AddedDomain
  <2>3. three[d] = N
    BY <2>1, <1>11, Added
  <2>4. \A z \in DOMAIN two : three[z] = two[z]
    BY <1>11, AddedKeeps
  <2> QED
    BY <2>2, <2>3, <2>4, <1>16
<1>18. DOMAIN four = {a, b, c, d, e} /\ four[a] = A /\ four[b] = A /\ four[c] = L /\ four[d] = N /\ four[e] = T
  <2>1. e \notin DOMAIN three
    BY <1>8, <1>17
  <2>2. DOMAIN four = DOMAIN three \cup {e}
    BY <1>12, AddedDomain
  <2>3. four[e] = T
    BY <2>1, <1>12, Added
  <2>4. \A z \in DOMAIN three : four[z] = three[z]
    BY <1>12, AddedKeeps
  <2> QED
    BY <2>2, <2>3, <2>4, <1>17
<1>19. DOMAIN chains = {a, b, c, d, e, g} /\ chains[a] = A /\ chains[b] = A /\ chains[c] = L /\ chains[d] = N /\ chains[e] = T /\ chains[g] = E
  <2>1. g \notin DOMAIN four
    BY <1>8, <1>18
  <2>2. DOMAIN chains = DOMAIN four \cup {g}
    BY <1>13, AddedDomain
  <2>3. chains[g] = E
    BY <2>1, <1>13, Added
  <2>4. \A z \in DOMAIN four : chains[z] = four[z]
    BY <1>13, AddedKeeps
  <2> QED
    BY <2>2, <2>3, <2>4, <1>18
<1>20. DOMAIN chains = {<<ctx, x>> : x \in GameLimits \cup QueryLimits}
  BY <1>19 DEF GameLimits, QueryLimits, a, b, c, d, e, g, Name
<1>21. ASSUME NEW x \in GameLimits \cup QueryLimits PROVE SwitchedOff(v, x) \/ OnlyUnder(chains[<<ctx, x>>])
  BY <1>3, <1>4, <1>5, <1>7, <1>19 DEF GameLimits, QueryLimits, SwitchedOff, a, b, c, d, e, g, Name
<1>23. Flat(E) /\ Flat(N) /\ Flat(T)
  BY <1>5, <1>7 DEF OnlyUnder, Flat
<1>24. ASSUME NEW x \in GameLimits \cup QueryLimits PROVE Flat(chains[<<ctx, x>>])
  BY <1>22, <1>23, <1>19 DEF GameLimits, QueryLimits, a, b, c, d, e, g, Name
<1> QED
  BY <1>1, <1>19, <1>20, <1>21, <1>24 DEF A, E, a, g, Name

\* The limits of the host are in its policy, whatever the containers have.
LEMMA ContainerNames ==
  ASSUME NEW nft, NEW v, NEW names, NEW access, NEW name \in DOMAIN ContainerChains(nft, v, names, access)
  PROVE  name[1] \in DOMAIN access.containers
<1> DEFINE Own(i) == <<i, "service">> :> ContainerChain(nft, v, names, access.containers[i], i)
           Games(i) == IF access.containers[i].service = "l4d2_udp_base"
                         THEN GameChains(nft, Serving(v, access.containers[i]), i) ELSE << >>
           Chains(i) == Own(i) @@ Games(i)
<1>1. DOMAIN ContainerChains(nft, v, names, access) = UNION {DOMAIN Chains(i) : i \in DOMAIN access.containers}
  BY DEF ContainerChains
<1>2. ASSUME NEW i, NEW n \in DOMAIN Chains(i) PROVE n[1] = i
  <2>1. \A m \in DOMAIN Own(i) : m[1] = i
    <3>1. \A rules : \A m \in DOMAIN (<<i, "service">> :> rules) : m[1] = i
      BY DEF :>
    <3> QED
      BY <3>1, Zenon
  <2>2. \A m \in DOMAIN Games(i) : m[1] = i
    <3>1. CASE access.containers[i].service = "l4d2_udp_base"
      <4> DEFINE w == Serving(v, access.containers[i])
      <4>1. DOMAIN GameChains(nft, w, i) = {<<i, x>> : x \in GameLimits \cup QueryLimits}
        BY GameChainsAre
      <4> HIDE DEF w
      <4>2. Games(i) = GameChains(nft, w, i)
        BY <3>1 DEF w
      <4> HIDE DEF Games
      <4> QED
        BY <4>1, <4>2
    <3>2. CASE access.containers[i].service # "l4d2_udp_base"
      BY <3>2
    <3> QED
      BY <3>1, <3>2
  <2> HIDE DEF Own, Games
  <2> QED
    BY <1>2, <2>1, <2>2, Together
<1> HIDE DEF Chains
<1> QED
  BY <1>1, <1>2

LEMMA GamesFurnished ==
  ASSUME NEW nft, NEW v, NEW names, NEW access, NEW f, Game \subseteq names, Host \notin DOMAIN access.containers,
         NEW x \in GameLimits \cup QueryLimits
  PROVE  LET chains == ChainsOf(nft, v, names, access, f) IN
         <<Host, x>> \in DOMAIN chains /\ chains[<<Host, x>>] = GameChains(nft, v, Host)[<<Host, x>>]
<1> DEFINE a == <<Host, "input">> :> InputChain(nft, v, names, access)
           b == <<Host, "forward">> :> ForwardChain(v, access)
           c == <<Host, "shared">> :> SharedRules(v, names)
           d == ContainerChains(nft, v, names, access)
           e == GameChains(nft, v, Host)
           g == IF GeoOn(v, names) THEN <<Host, "geo_country_gate_v4">> :> GeoGate(v, GeoSets(v, f)) ELSE << >>
           name == <<Host, x>>
           chains == ((((a @@ b) @@ c) @@ d) @@ e) @@ g
<1>1. ChainsOf(nft, v, names, access, f) = chains
  BY DEF ChainsOf
<1>2. name \in DOMAIN e
  BY GameChainsAre
<1>3. name \notin DOMAIN a /\ name \notin DOMAIN b /\ name \notin DOMAIN c
  <2>1. \A rules : /\ name \notin DOMAIN (<<Host, "input">> :> rules) /\ name \notin DOMAIN (<<Host, "forward">> :> rules)
                   /\ name \notin DOMAIN (<<Host, "shared">> :> rules)
    BY DEF :>, GameLimits, QueryLimits
  <2> HIDE DEF name
  <2> QED
    BY <2>1, Zenon
<1>4. name \notin DOMAIN d
  <2>1. name[1] = Host
    OBVIOUS
  <2> HIDE DEF name
  <2> QED
    BY <2>1, ContainerNames
<1> HIDE DEF a, b, c, d, e, g, name
<1> DEFINE before == ((a @@ b) @@ c) @@ d
<1>5. name \notin DOMAIN before
  <2>1. ASSUME NEW one, NEW two, name \notin DOMAIN one, name \notin DOMAIN two PROVE name \notin DOMAIN (one @@ two)
    <3>1. DOMAIN (one @@ two) = DOMAIN one \cup DOMAIN two
      BY Together
    <3> QED
      BY <2>1, <3>1
  <2> QED
    BY <2>1, <1>3, <1>4
<1> HIDE DEF before
<1>6. name \in DOMAIN (before @@ e) /\ (before @@ e)[name] = e[name]
  BY <1>2, <1>5, Right
<1> DEFINE most == before @@ e
<1> HIDE DEF most
<1>7. name \in DOMAIN (most @@ g) /\ (most @@ g)[name] = e[name]
  BY <1>6, Left DEF most
<1>8. chains = most @@ g
  BY DEF most, before
<1> QED
  BY <1>1, <1>7, <1>8 DEF name, e

LEMMA LimitsSay ==
  ASSUME NEW nft, NEW v, NEW names, NEW access, NEW f, Game \subseteq names, Host \notin DOMAIN access.containers,
         NEW k, NEW inner
  PROVE  LET says == Says(ChainsOf(nft, v, names, access, f), k, inner) IN
         /\ \A x \in GameLimits \cup QueryLimits :
              says[<<Host, x>>] = "accept" => SwitchedOff(v, x) \/ k.meter = "under"
         /\ says[<<Host, "udp_established_limit">>] # "return"
<1> DEFINE chains == ChainsOf(nft, v, names, access, f)
           says == Says(chains, k, inner)
           own == GameChains(nft, v, Host)
<1>1. /\ \A x \in GameLimits \cup QueryLimits : SwitchedOff(v, x) \/ OnlyUnder(own[<<Host, x>>])
      /\ own[<<Host, "udp_established_limit">>] = LimitChain(nft, << >>)
  BY GameChainsAre
<1>2. \A x \in GameLimits \cup QueryLimits : <<Host, x>> \in DOMAIN chains /\ chains[<<Host, x>>] = own[<<Host, x>>]
  BY GamesFurnished
<1> HIDE DEF chains, own
<1>3. \A x \in GameLimits \cup QueryLimits : says[<<Host, x>>] = FirstOf(own[<<Host, x>>], k, inner)
  BY <1>2 DEF Says
<1>4. "udp_established_limit" \in GameLimits \cup QueryLimits
  BY DEF GameLimits
<1>5. "meter" \notin DOMAIN << >>
  OBVIOUS
<1> HIDE DEF says
<1>6. \A x \in GameLimits \cup QueryLimits : says[<<Host, x>>] = "accept" => SwitchedOff(v, x) \/ k.meter = "under"
  BY <1>1, <1>3, UnderSays
<1>7. says[<<Host, "udp_established_limit">>] # "return"
  <2>1. FirstOf(LimitChain(nft, << >>), k, inner) # "return"
    BY <1>5, LimitIs
  <2> QED
    BY <2>1, <1>1, <1>3, <1>4
<1> QED
  BY <1>6, <1>7 DEF says, chains

(***************************************************************************)
(* The rules of a game, one list after the other                           *)
(***************************************************************************)
\* Whatever passes the validation has a valid size.
LEMMA ValidationPassed ==
  ASSUME NEW v, NEW k, NEW says, ToGame(v, k), Passed(ValidationRules(v), k, says)
  PROVE  k.size \notin WrongSizes(v)
<1> DEFINE list == Sizes(v)
           gs == v.L4D2_GAMESERVER_UDP_PORTS
           tv == v.L4D2_SOURCETV_UDP_PORTS
<1>1. ValidationRules(v) = Both(Udp(gs), list) \o Both(Udp(tv), list)
  BY DEF ValidationRules, Sizes
<1>2. /\ IsList(list) /\ \A r \in Members(list) : r.to = "drop"
      /\ \A z \in WrongSizes(v) : \E r \in Members(list) : r.on = [size |-> {z}]
  BY SizesDrop
<1>3. PICK ports \in {gs, tv} : k.dport \in ports /\ k.proto = "udp"
  BY DEF ToGame, AllGamePorts
<1> HIDE DEF list, gs, tv
<1>4. IsList(Both(Udp(gs), list)) /\ IsList(Both(Udp(tv), list))
  BY <1>2, BothList
<1>5. Passed(Both(Udp(ports), list), k, says)
  BY <1>1, <1>3, <1>4, PassedIn
<1>6. ASSUME k.size \in WrongSizes(v) PROVE FALSE
  <2>1. PICK i \in DOMAIN list : list[i].on = [size |-> {k.size}] /\ list[i].to = "drop"
    BY <1>2, <1>6 DEF Members
  <2> DEFINE on == Udp(ports)
             r == Both(on, list)[i]
  <2>2. r \in Members(Both(on, list)) /\ r.on = on @@ [size |-> {k.size}] /\ r.to = "drop"
    BY <2>1 DEF Both, Members
  <2>3. \A field \in DOMAIN on : k[field] \in on[field]
    BY <1>3, UdpFields
  <2> HIDE DEF on, r
  <2>4. \A field \in DOMAIN (on @@ [size |-> {k.size}]) : k[field] \in (on @@ [size |-> {k.size}])[field]
    BY <2>3 DEF @@
  <2>5. Decides(r, k, says)
    BY <2>2, <2>4 DEF Decides, Matches
  <2> QED
    BY <2>2, <2>5, <1>5 DEF Passed, on
<1> QED
  BY <1>6

LEMMA SignatureFits ==
  ASSUME NEW sigs, NEW chain, NEW k, NEW but, "sig" \notin but, Fits(Jump(Signature(sigs), chain), k, but)
  PROVE  k.sig \in sigs
<1>1. "sig" \in DOMAIN Signature(sigs) /\ Signature(sigs)["sig"] = sigs
  BY DEF Signature
<1> QED
  BY <1>1, JumpIs DEF Fits

\* A query or a login that is accepted was accepted by its limit.
LEMMA QueryEnds ==
  ASSUME NEW nft, NEW v, NEW ctx, NEW k, NEW says, Ends(QueryRules(nft, v, ctx), k, says, Where, "accept")
  PROVE  \/ k.sig = "54" /\ says[<<ctx, "a2s_limit">>] = "accept"
         \/ k.sig \in v.STEAM_GROUP_SIGNATURES /\ says[<<ctx, "steam_group_limit">>] = "accept"
         \/ k.sig = "71" /\ says[<<ctx, "login_limit">>] = "accept"
<1> DEFINE all == Udp(AllGamePorts(v))
           a == Jump(Signature({"54"}), <<ctx, "a2s_limit">>)
           b == Jump(Signature(SteamSignatures(nft, v)), <<ctx, "steam_group_limit">>)
           more == Only(v.ENABLE_STEAM_GROUP_FILTER, <<b>>)
           list == <<a>> \o more
           served == Udp(v.L4D2_GAMESERVER_UDP_PORTS) @@ Short
           login == served @@ Signature({"71"})
           c == Jump([verb |-> {"connect", "reserve"}] @@ login, <<ctx, "login_limit">>)
           d == Rule(login, "drop")
           e == Jump(login, <<ctx, "login_limit">>)
           logins == IF nft THEN <<c, d>> ELSE <<e>>
           but == Where \cup {"proto", "dport"}
<1>1. QueryRules(nft, v, ctx) = Both(all, list) \o logins
  BY DEF QueryRules
<1>2. /\ \A q : Fits(a, q, but) => q.sig = "54"
      /\ \A q : Fits(b, q, but) => q.sig \in v.STEAM_GROUP_SIGNATURES
  <2>1. "sig" \notin but
    BY DEF Where
  <2>2. SteamSignatures(nft, v) \subseteq v.STEAM_GROUP_SIGNATURES
    BY DEF SteamSignatures
  <2> HIDE DEF but
  <2> QED
    BY <2>1, <2>2, SignatureFits
<1>3. /\ a.to = "jump" /\ a.chain = <<ctx, "a2s_limit">> /\ b.to = "jump" /\ b.chain = <<ctx, "steam_group_limit">>
      /\ c.to = "jump" /\ c.chain = <<ctx, "login_limit">> /\ e.to = "jump" /\ e.chain = <<ctx, "login_limit">>
      /\ d.to = "drop"
  BY RuleIs, JumpIs
<1>4. \A q : Fits(c, q, Where) \/ Fits(e, q, Where) => q.sig = "71"
  <2>1. DOMAIN served = {"proto", "dport", "size"}
    <3>1. DOMAIN served = DOMAIN Udp(v.L4D2_GAMESERVER_UDP_PORTS) \cup DOMAIN Short
      BY Together
    <3>2. DOMAIN Short = {"size"}
      BY DEF Short
    <3> HIDE DEF served
    <3> QED
      BY <3>1, <3>2, UdpFields
  <2>2. DOMAIN Signature({"71"}) = {"sig"} /\ Signature({"71"})["sig"] = {"71"}
    BY DEF Signature
  <2> HIDE DEF served
  <2>3. "sig" \in DOMAIN login /\ login["sig"] = {"71"}
    BY <2>1, <2>2, Right
  <2>4. c.on = [verb |-> {"connect", "reserve"}] @@ login /\ e.on = login
    BY JumpIs
  <2> HIDE DEF login, c, e
  <2>5. DOMAIN [verb |-> {"connect", "reserve"}] = {"verb"}
    OBVIOUS
  <2>6. "sig" \in DOMAIN c.on /\ c.on["sig"] = {"71"}
    BY <2>3, <2>4, <2>5, Right
  <2> QED
    BY <2>3, <2>4, <2>6 DEF Fits, Where
<1>5. DOMAIN all = {"proto", "dport"}
  BY UdpFields
<1> HIDE DEF all, a, b, c, d, e
<1>6. IsList(list) /\ Members(list) \subseteq {a, b}
  <2>1. IsList(<<a>>) /\ Members(<<a>>) = {a} /\ IsList(more) /\ Members(more) \subseteq {b}
    BY OneList DEF Only
  <2> HIDE DEF more
  <2> QED
    BY <2>1, Joined
<1> HIDE DEF list
<1>7. IsList(logins) /\ Members(logins) \subseteq {c, d, e}
  BY OneList
<1> HIDE DEF logins
<1> DEFINE first == Both(all, list)
<1>8. IsList(first)
  BY <1>6, BothList
<1>9. Ends(first, k, says, Where, "accept") \/ Ends(logins, k, says, Where, "accept")
  <2> HIDE DEF first
  <2>1. Ends(first \o logins, k, says, Where, "accept")
    BY <1>1 DEF first
  <2> QED
    BY <2>1, <1>7, <1>8, EndsIn
<1>10. CASE Ends(first, k, says, Where, "accept")
  <2>1. PICK r \in Members(first) : Fits(r, k, Where) /\ VerdictOf(r, says) = "accept"
    BY <1>10, EndsBy
  <2>2. PICK q \in Members(list) : r.to = q.to /\ r.chain = q.chain /\ Fits(q, k, Where \cup DOMAIN all)
    BY <2>1, <1>6, Narrowed
  <2>3. VerdictOf(q, says) = "accept" /\ Fits(q, k, but) /\ q \in {a, b}
    BY <2>1, <2>2, <1>5, <1>6 DEF VerdictOf
  <2> QED
    BY <2>3, <1>2, <1>3 DEF VerdictOf
<1>11. CASE Ends(logins, k, says, Where, "accept")
  <2>1. PICK r \in {c, d, e} : Fits(r, k, Where) /\ VerdictOf(r, says) = "accept"
    BY <1>7, <1>11, EndsBy
  <2> QED
    BY <2>1, <1>3, <1>4 DEF VerdictOf
<1> QED
  BY <1>9, <1>10, <1>11

\* A packet its limit accepts; and none of a connection passes both of them.
LEMMA BaseEnds ==
  ASSUME NEW v, NEW ctx, NEW k, NEW says, Ends(BaseRules(v, ctx), k, says, Where, "accept")
  PROVE  \E x \in GameLimits : says[<<ctx, x>>] = "accept"
<1> DEFINE gs == v.L4D2_GAMESERVER_UDP_PORTS
           tv == v.L4D2_SOURCETV_UDP_PORTS
           old == [state |-> {"established"}]
           a == Jump(Udp(gs) @@ New, <<ctx, "udp_new_limit">>)
           b == Jump(Udp(tv) @@ New, <<ctx, "udp_new_limit_sourcetv">>)
           c == Jump(Udp(gs) @@ old, <<ctx, "udp_established_limit">>)
           d == Jump(Udp(tv) @@ old, <<ctx, "udp_established_limit">>)
<1>1. BaseRules(v, ctx) = <<a, b, c, d>>
  BY DEF BaseRules
<1>2. \A r \in {a, b, c, d} : r.to = "jump" /\ \E x \in GameLimits : r.chain = <<ctx, x>>
  BY JumpIs DEF GameLimits
<1> HIDE DEF a, b, c, d
<1>3. PICK r \in {a, b, c, d} : VerdictOf(r, says) = "accept"
  BY <1>1, EndsBy, OneList
<1> QED
  BY <1>2, <1>3 DEF VerdictOf

LEMMA BasePassed ==
  ASSUME NEW v, NEW ctx, NEW k, NEW says, ToGame(v, k), Passed(BaseRules(v, ctx), k, says),
         says[<<ctx, "udp_established_limit">>] # "return"
  PROVE  k.state # "established"
<1> DEFINE gs == v.L4D2_GAMESERVER_UDP_PORTS
           tv == v.L4D2_SOURCETV_UDP_PORTS
           old == [state |-> {"established"}]
           a == Jump(Udp(gs) @@ New, <<ctx, "udp_new_limit">>)
           b == Jump(Udp(tv) @@ New, <<ctx, "udp_new_limit_sourcetv">>)
           c == Jump(Udp(gs) @@ old, <<ctx, "udp_established_limit">>)
           d == Jump(Udp(tv) @@ old, <<ctx, "udp_established_limit">>)
<1>1. BaseRules(v, ctx) = <<a, b, c, d>>
  BY DEF BaseRules
<1>2. ASSUME NEW ports, k.state = "established", k.dport \in ports, k.proto = "udp"
      PROVE  Decides(Jump(Udp(ports) @@ old, <<ctx, "udp_established_limit">>), k, says)
  <2> DEFINE on == Udp(ports)
  <2>1. \A field \in DOMAIN on : k[field] \in on[field]
    BY <1>2, UdpFields
  <2>2. DOMAIN old = {"state"} /\ old["state"] = {"established"}
    OBVIOUS
  <2> HIDE DEF on, old
  <2>3. \A field \in DOMAIN (on @@ old) : k[field] \in (on @@ old)[field]
    BY <2>1, <2>2, <1>2 DEF @@
  <2> QED
    BY <2>3, JumpIs DEF Decides, Matches, on
<1>3. k.proto = "udp" /\ (k.dport \in gs \/ k.dport \in tv)
  BY DEF ToGame, AllGamePorts
<1>4. k.state = "established" => Decides(c, k, says) \/ Decides(d, k, says)
  BY <1>2, <1>3
<1> HIDE DEF a, b, c, d
<1>5. ~Decides(c, k, says) /\ ~Decides(d, k, says)
  BY <1>1, OneList DEF Passed
<1> QED
  BY <1>4, <1>5

(***************************************************************************)
(* The country filter                                                      *)
(***************************************************************************)
\* What the gate hands back comes from where the lists and the mode let in.
LEMMA GateReturns ==
  ASSUME NEW v, NEW geo, NEW k, NEW says, FirstOf(GeoGate(v, geo), k, says) = "return"
  PROVE  Passes(v, geo, k.src)
<1> DEFINE From(S, to) == Only(S # {}, <<Rule([src |-> S], to)>>)
<1>1. ASSUME NEW S, NEW to \in {"return", "drop"}
      PROVE  /\ IsList(From(S, to)) /\ (Passed(From(S, to), k, says) => k.src \notin S)
             /\ Ends(From(S, to), k, says, {}, "return") => to = "return" /\ k.src \in S
  <2> DEFINE r == Rule([src |-> S], to)
  <2>1. r.to = to /\ (Matches(r, k) <=> k.src \in S)
    BY RuleIs DEF Matches
  <2> HIDE DEF r
  <2>2. CASE S = {}
    <3>1. From(S, to) = <<>>
      BY <2>2 DEF Only
    <3> HIDE DEF From
    <3> QED
      BY <3>1, <2>2, OneList, EndsBy
  <2>3. CASE S # {}
    <3>1. From(S, to) = <<r>>
      BY <2>3 DEF Only, r
    <3> HIDE DEF From
    <3>2. IsList(From(S, to)) /\ Members(From(S, to)) = {r}
      BY <3>1, OneList
    <3>3. Passed(From(S, to), k, says) => k.src \notin S
      BY <3>2, <2>1 DEF Passed, Decides
    <3>4. ASSUME Ends(From(S, to), k, says, {}, "return") PROVE to = "return" /\ k.src \in S
      <4>1. Fits(r, k, {}) /\ VerdictOf(r, says) = "return"
        BY <3>2, <3>4, EndsBy
      <4> QED
        BY <4>1, <2>1 DEF Fits, Matches, VerdictOf
    <3> QED
      BY <3>2, <3>3, <3>4
  <2> QED
    BY <2>2, <2>3
<1>2. ASSUME NEW to \in {"return", "drop"}
      PROVE  /\ IsList(<<Rule(<<>>, to)>>) /\ ~Passed(<<Rule(<<>>, to)>>, k, says)
             /\ Ends(<<Rule(<<>>, to)>>, k, says, {}, "return") => to = "return"
  <2> DEFINE r == Rule(<<>>, to)
  <2>1. r.to = to /\ Matches(r, k)
    BY RuleIs, Always
  <2> HIDE DEF r
  <2>2. IsList(<<r>>) /\ Members(<<r>>) = {r}
    BY OneList
  <2>3. ~Passed(<<r>>, k, says)
    BY <2>1, <2>2 DEF Passed, Decides
  <2>4. Ends(<<r>>, k, says, {}, "return") => to = "return"
    BY <2>1, <2>2, EndsBy DEF VerdictOf
  <2> QED
    BY <2>2, <2>3, <2>4 DEF r
<1> DEFINE deny == From(geo.deny, "drop")
           allow == From(geo.allow, "return")
           listed == IF v.GEO_POLICY_MODE = "denylist" THEN From(geo.denied, "drop") ELSE From(geo.allowed, "return")
           rest == IF v.GEO_POLICY_MODE = "denylist" THEN <<Rule(<<>>, "return")>> ELSE <<Rule(<<>>, "drop")>>
<1>3. GeoGate(v, geo) = (deny \o allow) \o (listed \o rest)
  BY DEF GeoGate
<1>4. /\ IsList(deny) /\ (Passed(deny, k, says) => k.src \notin geo.deny) /\ ~Ends(deny, k, says, {}, "return")
      /\ IsList(allow) /\ (Passed(allow, k, says) => k.src \notin geo.allow)
      /\ Ends(allow, k, says, {}, "return") => k.src \in geo.allow
  <2> HIDE DEF From
  <2> QED
    BY <1>1
<1>5. /\ IsList(listed) /\ IsList(rest) /\ ~Passed(rest, k, says)
      /\ Ends(rest, k, says, {}, "return") => v.GEO_POLICY_MODE = "denylist"
      /\ v.GEO_POLICY_MODE = "denylist" => ~Ends(listed, k, says, {}, "return") /\ (Passed(listed, k, says) => k.src \notin geo.denied)
      /\ v.GEO_POLICY_MODE # "denylist" => (Ends(listed, k, says, {}, "return") => k.src \in geo.allowed)
  <2> HIDE DEF From
  <2>1. CASE v.GEO_POLICY_MODE = "denylist"
    BY <2>1, <1>1, <1>2
  <2>2. CASE v.GEO_POLICY_MODE # "denylist"
    BY <2>2, <1>1, <1>2
  <2> QED
    BY <2>1, <2>2
<1> HIDE DEF deny, allow, listed, rest
<1>6. IsList(deny \o allow) /\ IsList(listed \o rest)
  BY <1>4, <1>5, Joined
<1> DEFINE first == deny \o allow
           country == listed \o rest
<1>7. Ends(first, k, says, {}, "return") => k.src \notin geo.deny /\ k.src \in geo.allow
  BY <1>4, EndsIn
<1>8. Passed(first, k, says) => k.src \notin geo.deny /\ k.src \notin geo.allow
  BY <1>4, PassedIn
<1>9. ~Passed(country, k, says)
  BY <1>5, PassedIn
<1>10. Ends(country, k, says, {}, "return") =>
         IF v.GEO_POLICY_MODE = "denylist" THEN k.src \notin geo.denied ELSE k.src \in geo.allowed
  <2> SUFFICES ASSUME Ends(country, k, says, {}, "return")
               PROVE  IF v.GEO_POLICY_MODE = "denylist" THEN k.src \notin geo.denied ELSE k.src \in geo.allowed
    OBVIOUS
  <2>1. Ends(listed, k, says, {}, "return") \/ (Passed(listed, k, says) /\ Ends(rest, k, says, {}, "return"))
    BY <1>5, EndsIn
  <2> QED
    BY <2>1, <1>5
<1> HIDE DEF first, country
<1>11. IsList(first) /\ IsList(country) /\ IsList(first \o country) /\ GeoGate(v, geo) = first \o country
  BY <1>3, <1>6, Joined DEF first, country
<1>12. Passed(first \o country, k, says) \/ Ends(first \o country, k, says, {}, "return")
  BY <1>11, FirstEnds
<1>13. ~Passed(first \o country, k, says)
  BY <1>9, <1>11, PassedIn
<1>14. Ends(first, k, says, {}, "return") \/ (Passed(first, k, says) /\ Ends(country, k, says, {}, "return"))
  BY <1>11, <1>12, <1>13, EndsIn
<1> QED
  BY <1>7, <1>8, <1>10, <1>14 DEF Passes

LEMMA GeoPassed ==
  ASSUME NEW v, NEW names, NEW k, NEW says, Passed(GeoDeniesV6(v, names), k, says), Passed(GeoRules(v, names), k, says),
         GeoOn(v, names), GeoValid(v, names), ToGame(v, k), k.fam \in {4, 6},
         v.FAMILY_POLICY = "dual" \/ k.fam # 6
  PROVE  k.fam = 4 /\ says[Gate] = "return"
<1> DEFINE on == Udp(AllGamePorts(v))
           deny == Rule([fam |-> {6}] @@ on, "drop")
           gate == Jump([fam |-> {4}] @@ on, Gate)
<1>1. \A field \in DOMAIN on : k[field] \in on[field]
  BY UdpFields DEF ToGame
<1> HIDE DEF on
<1>2. ASSUME NEW n, k.fam = n PROVE \A field \in DOMAIN ([fam |-> {n}] @@ on) : k[field] \in ([fam |-> {n}] @@ on)[field]
  <2> DEFINE family == [fam |-> {n}]
  <2>1. \A field \in DOMAIN family : k[field] \in family[field]
    BY <1>2
  <2> HIDE DEF family
  <2>2. \A field \in DOMAIN (family @@ on) : k[field] \in (family @@ on)[field]
    BY <1>1, <2>1 DEF @@
  <2> QED
    BY <2>2 DEF family
<1>3. k.fam # 6
  <2> SUFFICES ASSUME k.fam = 6 PROVE FALSE
    OBVIOUS
  <2>1. GeoDeniesV6(v, names) = <<deny>>
    BY DEF GeoValid, GeoDeniesV6, Only, on
  <2>2. deny.to = "drop" /\ deny.on = [fam |-> {6}] @@ on
    BY RuleIs
  <2> HIDE DEF deny
  <2>3. Decides(deny, k, says)
    BY <2>2, <1>2 DEF Decides, Matches
  <2> QED
    BY <2>1, <2>3, OneList DEF Passed
<1>4. GeoRules(v, names) = <<gate>>
  BY DEF GeoRules, Only, Gate, on
<1>5. gate.to = "jump" /\ gate.chain = Gate /\ gate.on = [fam |-> {4}] @@ on
  BY JumpIs
<1> HIDE DEF gate
<1>6. Matches(gate, k)
  BY <1>2, <1>3, <1>5 DEF Matches
<1>7. ~Decides(gate, k, says)
  BY <1>4, OneList DEF Passed
<1> QED
  BY <1>3, <1>5, <1>6, <1>7 DEF Decides

\* The services of the host, in order: whatever of a game they accept, or leave to the rest
\* of the chain, passed the country filter and the validation; and a limit accepted it, or
\* it passed the limits.
LEMMA ServicesInOrder ==
  ASSUME NEW nft, NEW v, NEW names, Game \subseteq names, GameValid(v, names), NEW k, k.proto = "udp",
         "allowlist_ports" \in names => "BYPASS_UDP_PORTS" \in DOMAIN v,
         NEW says, GeoOn(v, names) => says[Gate] # "accept",
         Passed(Plain(nft, v, names), k, says) \/ Ends(Plain(nft, v, names), k, says, Where, "accept")
  PROVE  /\ Passed(GeoDeniesV6(v, names), k, says) /\ Passed(GeoRules(v, names), k, says)
         /\ Passed(ValidationRules(v), k, says)
         /\ Ends(Plain(nft, v, names), k, says, Where, "accept") =>
              \/ Ends(QueryRules(nft, v, Host), k, says, Where, "accept")
              \/ Ends(BaseRules(v, Host), k, says, Where, "accept")
         /\ Passed(Plain(nft, v, names), k, says) => Passed(BaseRules(v, Host), k, says)
<1> DEFINE tcp == TcpPart(nft, v, names)
           deny == GeoDeniesV6(v, names)
           gate == GeoRules(v, names)
           valid == ValidationRules(v)
           query == QueryRules(nft, v, Host)
           base == BaseRules(v, Host)
           plain == Plain(nft, v, names)
           Pass(s) == Passed(s, k, says)
           Accept(s) == Ends(s, k, says, Where, "accept")
           closed == {Gate}
<1>1. GameOf(nft, names, v) = (valid \o query) \o base
  BY DEF GameOf, Only, GameRules
<1>2. plain = tcp \o ((deny \o gate) \o ((valid \o query) \o base))
  BY <1>1 DEF Plain, UdpPart
<1>3. IsList(tcp) /\ ~Accept(tcp)
  BY TcpPartPasses, EndsBy
<1>4. IsList(deny) /\ IsList(gate) /\ \A r \in Members(deny) \cup Members(gate) : ~Opens(closed, r)
  BY GeoOpen
<1>5. IsList(valid) /\ IsList(query) /\ IsList(base) /\ \A r \in Members(valid) : ~Opens(closed, r)
  BY ValidationOpen, QueryOpen, BaseOpen
<1>6. ~Accept(deny) /\ ~Accept(gate)
  <2>1. CASE GeoOn(v, names)
    <3>1. \A r : VerdictOf(r, says) = "accept" => Opens(closed, r)
      BY <2>1 DEF VerdictOf, Opens
    <3> QED
      BY <3>1, <1>4, EndsBy
  <2>2. CASE ~GeoOn(v, names)
    <3>1. deny = <<>> /\ gate = <<>>
      BY <2>2 DEF GeoDeniesV6, GeoRules, Only
    <3> HIDE DEF deny, gate
    <3> QED
      BY <3>1, OneList, EndsBy
  <2> QED
    BY <2>1, <2>2
<1>7. ~Accept(valid)
  BY ValidationOpen, EndsBy DEF VerdictOf
<1> HIDE DEF tcp, deny, gate, valid, query, base, plain
<1> DEFINE games == (valid \o query) \o base
           geo == deny \o gate
           udp == geo \o games
<1>8. /\ IsList(valid \o query) /\ IsList(geo) /\ IsList(games) /\ IsList(udp)
  BY <1>4, <1>5, Joined
<1>9. Accept(games) => Pass(valid) /\ (Accept(query) \/ Accept(base))
  BY <1>5, <1>7, <1>8, EndsIn, PassedIn
<1>10. Pass(games) => Pass(valid) /\ Pass(base)
  BY <1>5, <1>8, PassedIn
<1>11. ~Accept(geo) /\ (Pass(geo) => Pass(deny) /\ Pass(gate))
  BY <1>4, <1>6, EndsIn, PassedIn
<1> HIDE DEF games, geo
<1>12. /\ Accept(udp) => Pass(geo) /\ Accept(games)
       /\ Pass(udp) => Pass(geo) /\ Pass(games)
  BY <1>8, <1>11, EndsIn, PassedIn
<1> HIDE DEF udp
<1>13. plain = tcp \o udp
  BY <1>2 DEF udp, geo, games
<1>14. /\ Accept(plain) => Accept(udp)
       /\ Pass(plain) => Pass(udp)
  BY <1>3, <1>8, <1>13, EndsIn, PassedIn
<1>15. Accept(plain) \/ Pass(plain)
  BY DEF plain
<1>16. /\ Pass(deny) /\ Pass(gate) /\ Pass(valid)
       /\ Accept(plain) => Accept(query) \/ Accept(base)
       /\ Pass(plain) => Pass(base)
  BY <1>9, <1>10, <1>11, <1>12, <1>14, <1>15
<1> QED
  BY <1>16 DEF deny, gate, valid, query, base, plain

\* What the input chain accepts of a game without an exemption was accepted by its
\* services, or passed them as a packet of a connection.
LEMMA InputInOrder ==
  ASSUME NEW p, NEW k, NEW says, Admissible(p.backend, p.config, p.selected), Enumerated(p.access),
         p.config.HOST_SERVICES, k.proto = "udp", ~Exempt(p, k),
         Ends(InputChain(p.backend = "nftables", p.config, p.selected, p.access), k, says, {}, "accept")
  PROVE  LET services == HostServices(p.backend = "nftables", p.config, p.selected) IN
         /\ p.config.FAMILY_POLICY = "ipv4-block-ipv6" => k.fam # 6
         /\ \/ Ends(services, k, says, {}, "accept")
            \/ Passed(services, k, says) /\ k.state \in {"established", "related"}
<1> DEFINE v == p.config
           names == p.selected
           nft == p.backend = "nftables"
           core == CoreInput(v)
           grants == HostGrants(p.access)
           bypass == Bypass(v)
           port == VpnPort(v, names)
           services == HostServices(nft, v, names)
           replies == EstablishedOnly
           Pass(s) == Passed(s, k, says)
           Accept(s) == Ends(s, k, says, {}, "accept")
           closed == {Gate}
<1>1. InputChain(nft, v, names, p.access) = ((((core \o grants) \o bypass) \o port) \o services) \o replies
  BY DEF InputChain, Only
<1>2. /\ IsFiniteSet(v.BYPASS_SOURCE_IPS) /\ IsFiniteSet(p.access.host)
      /\ "tcp_ssh" \in names => "SSH_PORT" \in DOMAIN v
  <2>1. "SSH_PORT" \in DOMAIN DefaultsOf("tcp_ssh")
    BY DEF DefaultsOf
  <2> QED
    BY <2>1 DEF Admissible, FiniteOptions, FiniteLists, Enumerated
<1>3. \A r : Fits(r, k, {}) => Matches(r, k)
  BY DEF Fits, Matches
<1>4. IsList(core) /\ (v.FAMILY_POLICY = "ipv4-block-ipv6" => Rule([fam |-> {6}], "drop") \in Members(core))
  BY CoreOpen
<1>5. ~Accept(core)
  <2> SUFFICES ASSUME NEW i \in DOMAIN core, Fits(core[i], k, {}), VerdictOf(core[i], says) = "accept" PROVE FALSE
    BY DEF Ends
  <2>1. core[i] \in Members(core) /\ Matches(core[i], k)
    BY <1>3 DEF Members
  <2>2. core[i].to = "accept"
    BY <2>1, CoreOpen DEF VerdictOf
  <2>3. CASE i = 1
    BY <2>1, <2>3, CoreOpen DEF Exempt
  <2>4. CASE i = 2
    BY <2>2, <2>4, CoreOpen, RuleIs
  <2>5. CASE i > 2
    BY <2>1, <2>2, <2>5, CoreOpen
  <2>6. i = 1 \/ i = 2 \/ i > 2
    BY <1>4, ListFacts DEF IsList
  <2> QED
    BY <2>3, <2>4, <2>5, <2>6
<1>6. IsList(grants) /\ ~Accept(grants)
  BY <1>2, <1>3, HostGrantsOpen, EndsBy DEF Exempt
<1>7. IsList(bypass) /\ ~Accept(bypass)
  BY <1>2, <1>3, BypassOpen, EndsBy DEF Exempt
<1>8. IsList(port) /\ ~Accept(port)
  BY <1>3, VpnPortOpen, EndsBy DEF Exempt
<1>9. IsList(services)
  BY <1>2, ServicesOpen
<1>10. IsList(replies) /\ (Accept(replies) => k.state \in {"established", "related"})
  <2>1. IsList(replies)
    BY EstablishedOpen
  <2>2. ASSUME Accept(replies) PROVE k.state \in {"established", "related"}
    <3>1. PICK r \in Members(replies) : Matches(r, k) /\ VerdictOf(r, says) = "accept"
      BY <2>2, <1>3, EndsBy
    <3>2. r.to = "accept"
      BY <3>1, OneList, RuleIs DEF EstablishedOnly, VerdictOf
    <3> QED
      BY <3>1, <3>2, EstablishedOpen DEF Opens
  <2> QED
    BY <2>1, <2>2
<1> HIDE DEF core, grants, bypass, port, services, replies
<1> DEFINE one == core \o grants
           two == one \o bypass
           three == two \o port
           four == three \o services
<1>11. IsList(one) /\ ~Accept(one) /\ (Pass(one) => Pass(core))
  BY <1>4, <1>5, <1>6, Joined, EndsIn, PassedIn
<1> HIDE DEF one
<1>12. IsList(two) /\ ~Accept(two) /\ (Pass(two) => Pass(core))
  BY <1>7, <1>11, Joined, EndsIn, PassedIn
<1> HIDE DEF two
<1>13. IsList(three) /\ ~Accept(three) /\ (Pass(three) => Pass(core))
  BY <1>8, <1>12, Joined, EndsIn, PassedIn
<1> HIDE DEF three
<1>14. IsList(four) /\ (Accept(four) => Pass(core) /\ Accept(services)) /\ (Pass(four) => Pass(core) /\ Pass(services))
  BY <1>9, <1>13, Joined, EndsIn, PassedIn
<1> HIDE DEF four
<1>15. Accept(four \o replies)
  BY <1>1 DEF four, three, two, one
<1>16. Accept(four) \/ (Pass(four) /\ Accept(replies))
  BY <1>10, <1>14, <1>15, EndsIn
<1>17. Pass(core) /\ (Accept(services) \/ (Pass(services) /\ k.state \in {"established", "related"}))
  BY <1>10, <1>14, <1>16
<1>18. ASSUME v.FAMILY_POLICY = "ipv4-block-ipv6", k.fam = 6 PROVE FALSE
  <2> DEFINE r == Rule([fam |-> {6}], "drop")
  <2>1. r.to = "drop" /\ Matches(r, k)
    BY <1>18, RuleIs DEF Matches
  <2>2. r \in Members(core)
    BY <1>4, <1>18
  <2> HIDE DEF r
  <2> QED
    BY <2>1, <2>2, <1>17 DEF Passed, Decides
<1> QED
  BY <1>17, <1>18 DEF services

\* What a policy accepts for a game without an exemption passed the controls.
Checked(p, f, k) ==
  /\ k.size \notin WrongSizes(p.config)
  /\ GeoOn(p.config, p.selected) => k.fam = 4 /\ Passes(p.config, GeoSets(p.config, f), k.src)
  /\ k.state \in {"new", "established"} => k.meter = "under" \/ Disabled(p.config, k)

LEMMA HostChecked ==
  ASSUME NEW p, NEW f, NEW k, Admissible(p.backend, p.config, p.selected), Enumerated(p.access),
         AsCompiled(p, f), Game \subseteq p.selected, p.config.HOST_SERVICES, ~TakenForSsh(p),
         k.fam \in {4, 6}, ToGame(p.config, k), Accepts(p, k), ~Exempt(p, k)
  PROVE  Checked(p, f, k)
<1> DEFINE v == p.config
           names == p.selected
           nft == p.backend = "nftables"
           nowhere == [c \in DOMAIN p.chains |-> "return"]
           inner == Says(p.chains, k, nowhere)
           says == Says(p.chains, k, inner)
           input == InputChain(nft, v, names, p.access)
           services == HostServices(nft, v, names)
<1>1. /\ <<Host, "input">> \in DOMAIN p.chains /\ p.chains[<<Host, "input">>] = input
      /\ GeoOn(v, names) => Gate \in DOMAIN p.chains /\ p.chains[Gate] = GeoGate(v, GeoSets(v, f))
  BY Furnished DEF AsCompiled
<1>2. /\ \A x \in GameLimits \cup QueryLimits : says[<<Host, x>>] = "accept" => SwitchedOff(v, x) \/ k.meter = "under"
      /\ says[<<Host, "udp_established_limit">>] # "return"
  <2>1. Host \notin DOMAIN p.access.containers
    BY DEF Enumerated, Host
  <2>2. p.chains = ChainsOf(nft, v, names, p.access, f)
    BY DEF AsCompiled
  <2> HIDE DEF inner
  <2> QED
    BY <2>1, <2>2, LimitsSay
<1>3. GeoOn(v, names) => says[Gate] = FirstOf(GeoGate(v, GeoSets(v, f)), k, inner)
  BY <1>1 DEF Says
<1>4. GeoOn(v, names) => says[Gate] # "accept" /\ (says[Gate] = "return" => Passes(v, GeoSets(v, f), k.src))
  BY <1>3, GateOpen, GateReturns
<1>5. IsList(input)
  <2>1. /\ IsFiniteSet(v.BYPASS_SOURCE_IPS) /\ IsFiniteSet(p.access.host)
        /\ "tcp_ssh" \in names => "SSH_PORT" \in DOMAIN v
    <3>1. "SSH_PORT" \in DOMAIN DefaultsOf("tcp_ssh")
      BY DEF DefaultsOf
    <3> QED
      BY <3>1 DEF Admissible, FiniteOptions, FiniteLists, Enumerated
  <2>2. After({Gate}, CoreInput(v), input, v, names, p.access)
    BY <2>1, InputOpen
  <2> QED
    BY <2>2 DEF After
<1>6. FirstOf(input, k, says) = "accept"
  BY <1>1 DEF Accepts, Walk
<1> HIDE DEF input, says
<1>7. Ends(input, k, says, {}, "accept")
  BY <1>5, <1>6, FirstEnds
<1>8. k.proto = "udp"
  BY DEF ToGame
<1>9. /\ v.FAMILY_POLICY = "ipv4-block-ipv6" => k.fam # 6
      /\ Ends(services, k, says, {}, "accept") \/ (Passed(services, k, says) /\ k.state \in {"established", "related"})
  BY <1>7, <1>8, InputInOrder DEF input
<1>10. "allowlist_ports" \in names => "BYPASS_UDP_PORTS" \in DOMAIN v
  <2>1. "BYPASS_UDP_PORTS" \in DOMAIN DefaultsOf("allowlist_ports")
    BY DEF DefaultsOf
  <2> QED
    BY <2>1 DEF Admissible
<1>11. Plainly(nft, v, names, k)
  <2>1. ~nft => k.fam = 4
    <3> SUFFICES ASSUME ~nft PROVE k.fam = 4
      OBVIOUS
    <3>1. names \cap Game # {}
      BY DEF Game
    <3> QED
      BY <3>1, <1>9 DEF Admissible, PayloadsValid
  <2>2. ~nft => ~GeoOn(v, names)
    BY DEF Admissible, GeoOn
  <2>3. ~nft /\ v.ADMIN_SOURCES # {} /\ "SSH_PORT" \in DOMAIN v => v.SSH_PORT \notin GameLists(v)
    BY DEF TakenForSsh, GameLists, Admissible
  <2>4. GameValid(v, names)
    BY DEF Admissible
  <2> HIDE DEF nft, v, names
  <2> QED
    BY <2>1, <2>2, <2>3, <2>4, <1>8, <1>10, ServicesPlain DEF names
<1> DEFINE plain == Plain(nft, v, names)
<1>12. Ends(plain, k, says, Where, "accept") \/ (Passed(plain, k, says) /\ k.state \in {"established", "related"})
  BY <1>9, <1>11, PlainVerdicts
<1> HIDE DEF plain, services
<1>13. GameValid(v, names) /\ GeoValid(v, names) /\ v.FAMILY_POLICY \in {"dual", "ipv4-block-ipv6"}
  BY DEF Admissible
<1>14. /\ Passed(GeoDeniesV6(v, names), k, says) /\ Passed(GeoRules(v, names), k, says)
       /\ Passed(ValidationRules(v), k, says)
       /\ Ends(plain, k, says, Where, "accept") =>
            \/ Ends(QueryRules(nft, v, Host), k, says, Where, "accept")
            \/ Ends(BaseRules(v, Host), k, says, Where, "accept")
       /\ Passed(plain, k, says) => Passed(BaseRules(v, Host), k, says)
  BY <1>4, <1>8, <1>10, <1>12, <1>13, ServicesInOrder DEF plain
<1>15. k.size \notin WrongSizes(v)
  BY <1>14, ValidationPassed
<1>16. GeoOn(v, names) => k.fam = 4 /\ Passes(v, GeoSets(v, f), k.src)
  <2> SUFFICES ASSUME GeoOn(v, names) PROVE k.fam = 4 /\ Passes(v, GeoSets(v, f), k.src)
    OBVIOUS
  <2>1. k.fam = 4 /\ says[Gate] = "return"
    BY <1>9, <1>13, <1>14, GeoPassed
  <2> QED
    BY <2>1, <1>4
<1>17. ASSUME k.state \in {"new", "established"} PROVE k.meter = "under" \/ Disabled(v, k)
  <2>1. CASE Ends(QueryRules(nft, v, Host), k, says, Where, "accept")
    <3>1. \/ k.sig = "54" /\ says[<<Host, "a2s_limit">>] = "accept"
          \/ k.sig \in v.STEAM_GROUP_SIGNATURES /\ says[<<Host, "steam_group_limit">>] = "accept"
          \/ k.sig = "71" /\ says[<<Host, "login_limit">>] = "accept"
      BY <2>1, QueryEnds
    <3>2. {"a2s_limit", "steam_group_limit", "login_limit"} \subseteq GameLimits \cup QueryLimits
      BY DEF QueryLimits
    <3> QED
      BY <3>1, <3>2, <1>2 DEF SwitchedOff, Disabled
  <2>2. CASE Ends(BaseRules(v, Host), k, says, Where, "accept")
    <3>1. PICK x \in GameLimits : says[<<Host, x>>] = "accept"
      BY <2>2, BaseEnds
    <3>2. ~SwitchedOff(v, x)
      BY DEF GameLimits, SwitchedOff
    <3> QED
      BY <3>1, <3>2, <1>2
  <2>3. CASE Passed(plain, k, says) /\ k.state \in {"established", "related"}
    <3>1. k.state = "established"
      BY <2>3, <1>17
    <3> QED
      BY <2>3, <3>1, <1>2, <1>14, BasePassed
  <2> QED
    BY <2>1, <2>2, <2>3, <1>12, <1>14
<1> QED
  BY <1>15, <1>16, <1>17 DEF Checked

\* No packet reaches a game around the country filter, the validation of sizes and the
\* limits without an exemption, for every set of options, grants and packets; the packets
\* to the host being of one of the two families.
THEOREM GameSafe == PolicySpec => []GameChecked
<1>1. RecordInv => GameChecked
  <2> SUFFICES ASSUME RecordInv, NEW p \in Compiled, Settled, Game \subseteq p.selected, p.config.HOST_SERVICES,
                      ~TakenForSsh(p), NEW k \in Arrivals, ToGame(p.config, k), Accepts(p, k), ~Exempt(p, k)
               PROVE  Checked(p, read, k)
    BY DEF GameChecked, Checked, WrongSizes
  <2>1. Kept(p, read) /\ p.schema # 1
    BY DEF RecordInv, Compiled
  <2>2. k.fam \in {4, 6}
    BY ArrivalsAssumption
  <2> QED
    BY <2>1, <2>2, HostChecked DEF Kept
<1> QED
  BY <1>1, RecordKept, PTL

(***************************************************************************)
(* Forwarding                                                              *)
(***************************************************************************)
\* Lists put one after the other.
LEMMA Flattened ==
  ASSUME NEW ss, IsList(ss), \A i \in DOMAIN ss : IsList(ss[i])
  PROVE  /\ IsList(SX!FlattenSeq(ss))
         /\ Members(SX!FlattenSeq(ss)) = UNION {Members(ss[i]) : i \in DOMAIN ss}
<1> DEFINE n == Len(ss)
           Step(f, i) == IF i = 1 THEN ss[i] ELSE f[i - 1] \o ss[i]
           Goes(f, m) == f = [i \in 1..m |-> Step(f, i)]
           Whole(m) == UNION {Members(ss[i]) : i \in 1..m}
           Holds(m) == m >= 1 => \E f : Goes(f, m)
<1>1. n \in Nat /\ DOMAIN ss = 1..n
  BY ListFacts DEF IsList
<1>2. CASE n = 0
  <2>1. ss = <<>>
    BY <1>1, <1>2 DEF IsList
  <2>2. SX!FlattenSeq(ss) = ss
    BY <1>2 DEF SX!FlattenSeq
  <2> QED
    BY <2>1, <2>2, OneList
<1>3. CASE n # 0
  <2>1. \E f : Goes(f, n)
    <3> DEFINE Some(m) == \E f : Goes(f, m)
               fails == {m \in Nat : m >= 1 /\ ~Some(m)}
    <3> SUFFICES ASSUME fails # {} PROVE FALSE
      <4>1. ~Some(n) => n \in fails
        BY <1>1, <1>3
      <4> QED
        BY <4>1
    <3>1. PICK m \in fails : \A j \in fails : m <= j
      BY Least
    <3>2. CASE m = 1
      <4>1. Goes([i \in 1..1 |-> ss[1]], 1)
        OBVIOUS
      <4> QED
        BY <4>1, <3>1, <3>2
    <3>3. CASE m > 1
      <4>1. m - 1 \in Nat /\ m - 1 >= 1 /\ m - 1 \notin fails
        <5> HIDE DEF Some
        <5>1. m \in Nat /\ ~(m <= m - 1)
          BY <3>1, <3>3
        <5> QED
          BY <5>1, <3>1, <3>3
      <4>2. PICK f : Goes(f, m - 1)
        BY <4>1
      <4> DEFINE g == [i \in 1..m |-> IF i = m THEN f[m - 1] \o ss[m] ELSE f[i]]
      <4>3. \A i \in 1..(m - 1) : f[i] = Step(f, i)
        BY <4>2
      <4>4. \A i \in 1..m : g[i] = Step(g, i)
        BY <3>3, <4>1, <4>3
      <4>5. Goes(g, m)
        BY <4>4, ZenonT(60)
      <4> QED
        BY <4>5, <3>1
    <3> QED
      BY <3>1, <3>2, <3>3
  <2> DEFINE f == CHOOSE f : Goes(f, n)
  <2>2. Goes(f, n)
    BY <2>1, ZenonT(60)
  <2>3. SX!FlattenSeq(ss) = f[n]
    BY <1>3 DEF SX!FlattenSeq
  <2> HIDE DEF f
  <2>4. \A i \in 1..n : f[i] = Step(f, i)
    BY <2>2
  <2>5. \A m \in 1..n : IsList(f[m]) /\ Members(f[m]) = Whole(m)
    <3> DEFINE fails == {m \in 1..n : ~(IsList(f[m]) /\ Members(f[m]) = Whole(m))}
    <3> SUFFICES ASSUME fails # {} PROVE FALSE
      OBVIOUS
    <3>1. PICK m \in fails : \A j \in fails : m <= j
      <4>1. fails \subseteq Nat
        BY <1>1
      <4> HIDE DEF fails
      <4> QED
        BY <4>1, Least
    <3>2. CASE m = 1
      <4>1. f[m] = ss[1] /\ Whole(m) = Members(ss[1])
        BY <2>4, <3>2
      <4> QED
        BY <4>1, <3>1, <3>2, <1>1
    <3>3. CASE m > 1
      <4>1. m - 1 \in 1..n /\ m \in 1..n /\ m - 1 \notin fails
        BY <1>1, <3>1, <3>3
      <4>2. IsList(f[m - 1]) /\ Members(f[m - 1]) = Whole(m - 1) /\ IsList(ss[m])
        BY <4>1, <1>1
      <4>3. f[m] = f[m - 1] \o ss[m]
        <5>1. m # 1 /\ f[m] = Step(f, m)
          BY <4>1, <2>4, <3>3
        <5> QED
          BY <5>1
      <4>4. Whole(m) = Whole(m - 1) \cup Members(ss[m])
        <5>1. 1..m = 1..(m - 1) \cup {m}
          BY <1>1, <3>3, <4>1
        <5> QED
          BY <5>1
      <4>5. IsList(f[m]) /\ Members(f[m]) = Members(f[m - 1]) \cup Members(ss[m])
        BY <4>2, <4>3, Joined
      <4> QED
        BY <4>2, <4>4, <4>5, <3>1
    <3> QED
      BY <1>1, <3>1, <3>2, <3>3
  <2> QED
    BY <1>1, <1>3, <2>3, <2>5
<1> QED
  BY <1>1, <1>2, <1>3

\* The packets of a grant, and the replies to them.
LEMMA GuardIs ==
  ASSUME NEW g, "output" \in DOMAIN g
  PROVE  LET own == [src |-> g.source, dst |-> g.destination, iif |-> {g.input}, proto |-> {g.protocol},
                     dport |-> g.ports]
         IN /\ DOMAIN Guard(g) = {"src", "dst", "iif", "proto", "dport", "fam", "oif"}
            /\ \A field \in DOMAIN own : Guard(g)[field] = own[field]
            /\ Guard(g)["oif"] = {g.output}
<1> DEFINE own == [src |-> g.source, dst |-> g.destination, iif |-> {g.input}, proto |-> {g.protocol},
                   dport |-> g.ports]
           family == InFamily(g.source)
           out == [oif |-> {g.output}]
<1>1. Guard(g) = (own @@ family) @@ out
  BY DEF Guard
<1>2. DOMAIN own = {"src", "dst", "iif", "proto", "dport"} /\ DOMAIN family = {"fam"} /\ DOMAIN out = {"oif"}
  BY DEF InFamily
<1>3. out["oif"] = {g.output}
  OBVIOUS
<1> HIDE DEF own, family, out
<1> DEFINE inner == own @@ family
<1>4. DOMAIN inner = DOMAIN own \cup DOMAIN family /\ \A field \in DOMAIN own : inner[field] = own[field]
  BY Together, Left
<1> HIDE DEF inner
<1>5. DOMAIN (inner @@ out) = DOMAIN inner \cup DOMAIN out
  BY Together
<1>6. \A field \in DOMAIN own : (inner @@ out)[field] = own[field]
  BY <1>4, Left
<1>7. (inner @@ out)["oif"] = out["oif"]
  BY <1>2, <1>4, Right
<1> QED
  BY <1>1, <1>2, <1>3, <1>4, <1>5, <1>6, <1>7 DEF own, inner

LEMMA GuardHolds ==
  ASSUME NEW g, "output" \in DOMAIN g, NEW k, \A field \in DOMAIN Guard(g) : k[field] \in Guard(g)[field]
  PROVE  ByForward(g, k)
<1> DEFINE guard == Guard(g)
<1>1. /\ DOMAIN guard = {"src", "dst", "iif", "proto", "dport", "fam", "oif"}
      /\ guard["src"] = g.source /\ guard["dst"] = g.destination /\ guard["iif"] = {g.input}
      /\ guard["proto"] = {g.protocol} /\ guard["dport"] = g.ports /\ guard["oif"] = {g.output}
  BY GuardIs
<1> HIDE DEF guard
<1>2. \A field \in DOMAIN guard : k[field] \in guard[field]
  BY DEF guard
<1> QED
  BY <1>1, <1>2 DEF ByForward, ByGrant

LEMMA ReplyGuardHolds ==
  ASSUME NEW g, NEW k, \A field \in DOMAIN ReplyGuard(g) : k[field] \in ReplyGuard(g)[field]
  PROVE  k.state # "new"
<1> DEFINE own == [src |-> g.destination, dst |-> g.source, iif |-> {g.output}, oif |-> {g.input},
                   proto |-> {g.protocol}, sport |-> g.ports, reply |-> {TRUE}]
           family == InFamily(g.source)
<1>1. ReplyGuard(g) = (own @@ Replies) @@ family
  BY DEF ReplyGuard
<1>2. "state" \notin DOMAIN own /\ "state" \in DOMAIN Replies /\ Replies["state"] = {"established", "related"}
  BY DEF Replies
<1> HIDE DEF own, family
<1> DEFINE inner == own @@ Replies
<1>3. "state" \in DOMAIN inner /\ inner["state"] = Replies["state"]
  BY <1>2, Right
<1> HIDE DEF inner
<1>4. "state" \in DOMAIN (inner @@ family) /\ (inner @@ family)["state"] = inner["state"]
  BY <1>3, Left
<1> QED
  BY <1>1, <1>2, <1>3, <1>4 DEF inner

\* Grants to forward.
LEMMA ForwardGrantsOpen ==
  ASSUME NEW access, IsFiniteSet(access.forward), \A g \in access.forward : Fields \subseteq DOMAIN g
  PROVE  /\ IsList(ForwardGrants(access)) /\ \A r \in Members(ForwardGrants(access)) : r.to = "accept"
         /\ \A r \in Members(ForwardGrants(access)) : \A k :
              Matches(r, k) => k.state # "new" \/ \E g \in access.forward : ByForward(g, k)
<1> DEFINE s == SX!SetToSeq(access.forward)
           grants == [i \in DOMAIN s |-> Rule(Guard(s[i]), "accept")]
           replies == [i \in DOMAIN s |-> Rule(ReplyGuard(s[i]), "accept")]
<1>1. IsList(s) /\ Members(s) = access.forward
  BY InOrder
<1>2. ForwardGrants(access) = grants \o replies
  BY DEF ForwardGrants, EachOf
<1> HIDE DEF s
<1>3. IsList(grants) /\ IsList(replies)
  BY <1>1, Mapped
<1>4. ASSUME NEW r \in Members(grants)
      PROVE  r.to = "accept" /\ \A k : Matches(r, k) => \E g \in access.forward : ByForward(g, k)
  <2>1. PICK i \in DOMAIN s : r = Rule(Guard(s[i]), "accept")
    BY DEF Members
  <2>2. s[i] \in access.forward /\ "output" \in DOMAIN s[i]
    BY <1>1 DEF Members, Fields
  <2>3. r.on = Guard(s[i]) /\ r.to = "accept"
    BY <2>1, RuleIs
  <2> QED
    BY <2>2, <2>3, GuardHolds DEF Matches
<1>5. ASSUME NEW r \in Members(replies) PROVE r.to = "accept" /\ \A k : Matches(r, k) => k.state # "new"
  <2>1. PICK i \in DOMAIN s : r = Rule(ReplyGuard(s[i]), "accept")
    BY DEF Members
  <2>2. r.on = ReplyGuard(s[i]) /\ r.to = "accept"
    BY <2>1, RuleIs
  <2> QED
    BY <2>2, ReplyGuardHolds DEF Matches
<1> HIDE DEF grants, replies
<1>6. IsList(grants \o replies) /\ Members(grants \o replies) = Members(grants) \cup Members(replies)
  BY <1>3, Joined
<1> QED
  BY <1>2, <1>4, <1>5, <1>6

\* What was published for a container.
LEMMA PublishedHolds ==
  ASSUME NEW g, "output" \in DOMAIN g, NEW published, DOMAIN published = {"dnat", "odst", "odport"}, NEW k,
         \A field \in DOMAIN (Guard(g) @@ published) : k[field] \in (Guard(g) @@ published)[field]
  PROVE  ByForward(g, k) /\ \A field \in DOMAIN published : k[field] \in published[field]
<1> DEFINE guard == Guard(g)
           on == guard @@ published
<1>1. DOMAIN guard = {"src", "dst", "iif", "proto", "dport", "fam", "oif"}
  BY GuardIs
<1>2. DOMAIN published = {"dnat", "odst", "odport"} /\ \A field \in DOMAIN on : k[field] \in on[field]
  OBVIOUS
<1>3. on = guard @@ published
  OBVIOUS
<1> HIDE DEF guard, on
<1>4. \A field \in DOMAIN guard : k[field] \in guard[field]
  <2>1. \A field \in DOMAIN guard : field \in DOMAIN on /\ on[field] = guard[field]
    BY ONLY <1>3, Left
  <2> QED
    BY <2>1, <1>2
<1>5. \A field \in DOMAIN published : k[field] \in published[field]
  <2>1. \A field \in DOMAIN published : field \in DOMAIN on /\ on[field] = published[field]
    BY ONLY <1>1, <1>2, <1>3, Right
  <2> QED
    BY <2>1, <1>2
<1>6. ByForward(g, k)
  BY <1>4, GuardHolds DEF guard
<1> QED
  BY <1>5, <1>6

\* The publications of the containers, range by range.
LEMMA EntriesOpen ==
  ASSUME NEW access, Enumerated(access)
  PROVE  /\ IsList(ContainerEntries(access)) /\ \A r \in Members(ContainerEntries(access)) : r.to \in {"jump", "accept"}
         /\ \A r \in Members(ContainerEntries(access)) :
              r.to = "jump" => \E i \in DOMAIN access.containers : r.chain = <<i, "service">>
         /\ \A r \in Members(ContainerEntries(access)) : \A k :
              Matches(r, k) => k.state # "new" \/ \E g \in Containers(access) : ByPublication(g, k)
<1> DEFINE Scoped(g, j) == [g EXCEPT !.ports = g.ports[j][1]..g.ports[j][2]]
           Published(g, j) == [dnat |-> {TRUE}, odst |-> {g.public}, odport |-> g.publicPorts[j][1]..g.publicPorts[j][2]]
           Pair(i, g, j) == <<Jump(Guard(Scoped(g, j)) @@ Published(g, j), <<i, "service">>),
                              Rule(ReplyGuard(Scoped(g, j)) @@ Published(g, j), "accept")>>
           Of(i) == [j \in DOMAIN access.containers[i].ports |-> Pair(i, access.containers[i], j)]
           all == [i \in DOMAIN access.containers |-> SX!FlattenSeq(Of(i))]
           Open(r) == /\ r.to \in {"jump", "accept"}
                      /\ r.to = "jump" => \E i \in DOMAIN access.containers : r.chain = <<i, "service">>
                      /\ \A k : Matches(r, k) => k.state # "new" \/ \E g \in Containers(access) : ByPublication(g, k)
<1>1. ContainerEntries(access) = SX!FlattenSeq(all)
  BY DEF ContainerEntries
<1>2. IsList(access.containers)
  BY ListFacts, SMTT(60) DEF Enumerated
<1>3. ASSUME NEW i \in DOMAIN access.containers
      PROVE  IsList(SX!FlattenSeq(Of(i))) /\ \A r \in Members(SX!FlattenSeq(Of(i))) : Open(r)
  <2> DEFINE g == access.containers[i]
             of == Of(i)
  <2>1. g \in Containers(access)
    BY DEF Containers
  <2>2. IsList(g.ports) /\ Fields \subseteq DOMAIN g
    BY <2>1, ListFacts DEF Enumerated
  <2>3. of = [j \in DOMAIN g.ports |-> Pair(i, g, j)]
    OBVIOUS
  <2> HIDE DEF g
  <2>4. IsList(of) /\ DOMAIN of = DOMAIN g.ports
    <3> HIDE DEF Pair
    <3> QED
      BY <2>2, <2>3, Mapped
  <2>5. ASSUME NEW j \in DOMAIN g.ports PROVE IsList(of[j]) /\ \A r \in Members(of[j]) : Open(r)
    <3> DEFINE entry == Jump(Guard(Scoped(g, j)) @@ Published(g, j), <<i, "service">>)
               reply == Rule(ReplyGuard(Scoped(g, j)) @@ Published(g, j), "accept")
    <3>1. of[j] = <<entry, reply>>
      BY <2>3, ZenonT(60)
    <3>2. Open(entry)
      <4>1. entry.to = "jump" /\ entry.on = Guard(Scoped(g, j)) @@ Published(g, j) /\ entry.chain = <<i, "service">>
        BY JumpIs
      <4>2. ASSUME NEW k, Matches(entry, k) PROVE ByPublication(g, k)
        <5> DEFINE ports == g.ports[j][1]..g.ports[j][2]
                   publicPorts == g.publicPorts[j][1]..g.publicPorts[j][2]
                   h == [g EXCEPT !.ports = ports]
                   published == [dnat |-> {TRUE}, odst |-> {g.public}, odport |-> publicPorts]
        <5>1. \A field \in DOMAIN (Guard(h) @@ published) : k[field] \in (Guard(h) @@ published)[field]
          BY <4>1, <4>2 DEF Matches
        <5> HIDE DEF ports
        <5>2. /\ "output" \in DOMAIN h /\ h.source = g.source /\ h.destination = g.destination /\ h.input = g.input
              /\ h.output = g.output /\ h.protocol = g.protocol /\ h.ports = ports
          BY <2>2 DEF Fields
        <5> HIDE DEF h, publicPorts
        <5>3. /\ DOMAIN published = {"dnat", "odst", "odport"} /\ published["dnat"] = {TRUE} /\ published["odst"] = {g.public}
              /\ published["odport"] = publicPorts
          OBVIOUS
        <5> HIDE DEF published
        <5>4. ByForward(h, k) /\ \A field \in DOMAIN published : k[field] \in published[field]
          BY <5>1, <5>2, <5>3, PublishedHolds
        <5>5. k["dnat"] = TRUE /\ k.odst = g.public /\ k.odport \in publicPorts /\ ByForward(h, k)
          BY <5>3, <5>4
        <5>6. \E x \in DOMAIN g.ports :
                k.odport \in g.publicPorts[x][1]..g.publicPorts[x][2] /\ k.dport \in g.ports[x][1]..g.ports[x][2]
          <6> WITNESS j \in DOMAIN g.ports
          <6> QED
            BY <5>2, <5>5 DEF ports, publicPorts, ByForward, ByGrant
        <5>7. /\ k.src \in g.source /\ k.dst \in g.destination /\ k.iif = g.input /\ k.oif = g.output
              /\ k.proto = g.protocol
          BY <5>2, <5>5 DEF ByForward, ByGrant
        <5> QED
          BY <5>5, <5>6, <5>7, Zenon DEF ByPublication
      <4> QED
        BY <4>1, <4>2, <2>1, ZenonT(60) DEF g
    <3>3. Open(reply)
      <4>1. reply.to = "accept" /\ reply.on = ReplyGuard(Scoped(g, j)) @@ Published(g, j)
        BY RuleIs
      <4>2. ASSUME NEW k, Matches(reply, k) PROVE k.state # "new"
        <5> DEFINE guard == ReplyGuard(Scoped(g, j))
        <5>1. \A field \in DOMAIN guard : k[field] \in guard[field]
          <6> DEFINE published == Published(g, j)
          <6>1. reply.on = guard @@ published
            BY <4>1
          <6> HIDE DEF guard, published, reply
          <6> QED
            BY <6>1, <4>2, Left DEF Matches
        <5> QED
          BY <5>1, ReplyGuardHolds
      <4> QED
        BY <4>1, <4>2
    <3> HIDE DEF entry, reply, Open, of
    <3> QED
      BY <3>1, <3>2, <3>3, OneList
  <2> HIDE DEF of, Open
  <2>6. IsList(SX!FlattenSeq(of)) /\ Members(SX!FlattenSeq(of)) = UNION {Members(of[j]) : j \in DOMAIN of}
    BY <2>4, <2>5, Flattened
  <2>7. IsList(SX!FlattenSeq(of)) /\ \A r \in Members(SX!FlattenSeq(of)) : Open(r)
    BY <2>4, <2>5, <2>6
  <2> QED
    BY <2>7, ZenonT(60) DEF of
<1> HIDE DEF Of, Open
<1>4. IsList(all) /\ DOMAIN all = DOMAIN access.containers
  BY <1>2, Mapped
<1>5. \A i \in DOMAIN all : all[i] = SX!FlattenSeq(Of(i))
  OBVIOUS
<1> HIDE DEF all
<1>6. IsList(SX!FlattenSeq(all)) /\ Members(SX!FlattenSeq(all)) = UNION {Members(all[i]) : i \in DOMAIN all}
  BY <1>3, <1>4, <1>5, Flattened
<1>7. \A r \in Members(SX!FlattenSeq(all)) : Open(r)
  BY <1>3, <1>4, <1>5, <1>6
<1> QED
  BY <1>1, <1>6, <1>7 DEF Open

\* What the core leaves of a packet to forward.
LEMMA CoreForwardOpen ==
  ASSUME NEW v
  PROVE  /\ IsList(CoreForward(v)) /\ \A r \in Members(CoreForward(v)) : r.to \in {"accept", "drop"}
         /\ \A r \in Members(CoreForward(v)) : \A k : r.to = "accept" /\ Matches(r, k) => k.state # "new"
<1> DEFINE block == Rule([fam |-> {6}], "drop")
           a == Rule([proto |-> {"icmp"}, state |-> {"related"}], "accept")
           b == Rule([state |-> {"invalid"}], "drop")
           first == Only(v.FAMILY_POLICY = "ipv4-block-ipv6", <<block>>)
<1>1. CoreForward(v) = first \o <<a, b>>
  BY DEF CoreForward
<1>2. block.to = "drop" /\ a.to = "accept" /\ b.to = "drop"
  BY RuleIs
<1>3. \A k : Matches(a, k) => k.state # "new"
  BY RuleIs DEF Matches
<1> HIDE DEF block, a, b
<1>4. IsList(first) /\ Members(first) \subseteq {block}
  BY OneList DEF Only
<1>5. IsList(<<a, b>>) /\ Members(<<a, b>>) = {a, b}
  BY OneList
<1> HIDE DEF first
<1> DEFINE rest == <<a, b>>
<1> HIDE DEF rest
<1>6. IsList(first \o rest) /\ Members(first \o rest) = Members(first) \cup Members(rest)
  BY <1>4, <1>5, Joined DEF rest
<1> QED
  BY <1>1, <1>2, <1>3, <1>4, <1>5, <1>6 DEF rest

\* What keeps everything else out of the bridges of the containers.
LEMMA TailIsolates ==
  ASSUME NEW v, NEW access, Enumerated(access), v.ROUTED_POLICY # "drop"
  PROVE  \E isolate :
           /\ ForwardTail(v, access) = isolate \o <<Rule(<<>>, "return")>>
           /\ IsList(isolate) /\ \A r \in Members(isolate) : r.to \in {"drop", "return"}
           /\ \A r \in Members(isolate) : \A k :
                r.to = "return" /\ Matches(r, k) => k.state # "new" \/ k.iif = k.oif
           /\ \A g \in Containers(access) : Rule([oif |-> {g.output}], "drop") \in Members(isolate)
<1> DEFINE bridges == {g.output : g \in Containers(access)}
           Inside(b) == Rule([iif |-> {b}, oif |-> {b}], "return")
           Back(b) == Rule([oif |-> {b}, reply |-> {TRUE}, dnat |-> {FALSE}] @@ Replies, "return")
           Into(b) == Rule([oif |-> {b}], "drop")
           From(b) == Rule([iif |-> {b}], "drop")
           Isolate(b) == IF v.CONTAINER_POLICY = "ingress" THEN <<Inside(b), Back(b), Into(b)>> ELSE <<Into(b), From(b)>>
           s == SX!SetToSeq(bridges)
           each == [i \in DOMAIN s |-> Isolate(s[i])]
           Shut(b, r) == /\ r.to \in {"drop", "return"}
                         /\ \A k : r.to = "return" /\ Matches(r, k) => k.state # "new" \/ k.iif = k.oif
<1>1. ForwardTail(v, access) = SX!FlattenSeq(each) \o <<Rule(<<>>, "return")>>
  BY DEF ForwardTail, EachOf
<1>2. IsFiniteSet(bridges)
  <2> DEFINE of == [i \in DOMAIN access.containers |-> access.containers[i].output]
  <2>1. DOMAIN access.containers = 1..Len(access.containers) /\ Len(access.containers) \in Nat
    BY ListFacts DEF Enumerated, IsList
  <2>2. IsFiniteSet(DOMAIN of)
    <3>1. DOMAIN of = 1..Len(access.containers) /\ 1 \in Int /\ Len(access.containers) \in Int
      BY <2>1
    <3>2. IsFiniteSet(1..Len(access.containers))
      BY <3>1, FS_Interval
    <3> QED
      BY <3>1, <3>2
  <2>3. bridges = {of[i] : i \in DOMAIN of}
    BY DEF Containers
  <2>4. of = [i \in DOMAIN of |-> of[i]]
    OBVIOUS
  <2> HIDE DEF of, bridges
  <2> QED
    BY <2>2, <2>3, <2>4, ImageFinite
<1>3. IsList(s) /\ Members(s) = bridges
  BY <1>2, InOrder
<1> HIDE DEF s
<1>4. IsList(each) /\ DOMAIN each = DOMAIN s
  <2> HIDE DEF Isolate
  <2> QED
    BY <1>3, Mapped
<1>5. ASSUME NEW b PROVE /\ IsList(Isolate(b)) /\ Into(b) \in Members(Isolate(b))
                         /\ \A r \in Members(Isolate(b)) : Shut(b, r)
  <2>1. Shut(b, Inside(b))
    <3>1. Inside(b).to = "return" /\ Inside(b).on = [iif |-> {b}, oif |-> {b}]
      BY RuleIs
    <3> HIDE DEF Inside
    <3> QED
      BY <3>1 DEF Matches
  <2>2. Shut(b, Back(b))
    <3> DEFINE own == [oif |-> {b}, reply |-> {TRUE}, dnat |-> {FALSE}]
    <3>1. Back(b).to = "return" /\ Back(b).on = own @@ Replies
      BY RuleIs
    <3>2. "state" \notin DOMAIN own /\ "state" \in DOMAIN Replies /\ Replies["state"] = {"established", "related"}
      BY DEF Replies
    <3> HIDE DEF own, Back
    <3>3. "state" \in DOMAIN Back(b).on /\ Back(b).on["state"] = {"established", "related"}
      BY <3>1, <3>2, Right
    <3> QED
      BY <3>1, <3>3 DEF Matches
  <2>3. Shut(b, Into(b)) /\ Shut(b, From(b))
    BY RuleIs
  <2> HIDE DEF Shut, Inside, Back, Into, From
  <2>4. CASE v.CONTAINER_POLICY = "ingress"
    BY <2>4, <2>1, <2>2, <2>3, OneList
  <2>5. CASE v.CONTAINER_POLICY # "ingress"
    BY <2>5, <2>3, OneList
  <2> QED
    BY <2>4, <2>5
<1>6. \A i \in DOMAIN each : each[i] = Isolate(s[i])
  BY <1>4
<1> HIDE DEF each, Isolate, Shut
<1> DEFINE isolate == SX!FlattenSeq(each)
<1>7. IsList(isolate) /\ Members(isolate) = UNION {Members(each[i]) : i \in DOMAIN each}
  BY <1>4, <1>5, <1>6, Flattened
<1> HIDE DEF isolate
<1>8. \A r \in Members(isolate) : \E b : Shut(b, r)
  BY <1>5, <1>6, <1>7
<1>9. ASSUME NEW g \in Containers(access) PROVE Into(g.output) \in Members(isolate)
  <2>1. PICK i \in DOMAIN s : s[i] = g.output
    BY <1>3 DEF Members
  <2> HIDE DEF Into
  <2> QED
    BY <2>1, <1>4, <1>5, <1>6, <1>7
<1>10. ForwardTail(v, access) = isolate \o <<Rule(<<>>, "return")>>
  BY <1>1 DEF isolate
<1>11. \A r \in Members(isolate) :
         /\ r.to \in {"drop", "return"}
         /\ \A k : r.to = "return" /\ Matches(r, k) => k.state # "new" \/ k.iif = k.oif
  BY <1>8 DEF Shut
<1> QED
  BY <1>7, <1>9, <1>10, <1>11

\* The grants of a tunnel, in Docker's chain.
LEMMA SharedOpen ==
  ASSUME NEW v, NEW names, FiniteOptions(v), "openvpn_sitetosite" \in names => Subnets \subseteq DOMAIN v
  PROVE  /\ IsList(SharedRules(v, names)) /\ \A r \in Members(SharedRules(v, names)) : r.to = "accept"
         /\ \A r \in Members(SharedRules(v, names)) : \A k : Matches(r, k) => k.state # "new" \/ ByLan(v, names, k)
<1> DEFINE pairs == {q \in v.OVPNS2S_REMOTE_SUBNETS \X v.OVPNS2S_LOCAL_SUBNETS : Family(q[1]) = Family(q[2])}
           own(q) == [iif |-> {v.OVPNS2S_INTERFACE}, oif |-> {v.OVPNS2S_LOCAL_INTERFACE}, src |-> q[1], dst |-> q[2]]
           back(q) == [iif |-> {v.OVPNS2S_LOCAL_INTERFACE}, oif |-> {v.OVPNS2S_INTERFACE}, src |-> q[2], dst |-> q[1],
                       reply |-> {TRUE}]
           In(q) == Rule(own(q) @@ InFamily(q[1]), "accept")
           Back(q) == Rule((back(q) @@ Replies) @@ InFamily(q[1]), "accept")
           s == SX!SetToSeq(pairs)
           ins == [i \in DOMAIN s |-> In(s[i])]
           backs == [i \in DOMAIN s |-> Back(s[i])]
           on == "openvpn_sitetosite" \in names /\ Get(v, "OVPNS2S_ALLOW_LAN", FALSE)
<1>1. SharedRules(v, names) = IF on THEN ins \o backs ELSE <<>>
  BY DEF SharedRules, EachOf
<1>2. CASE ~on
  <2>1. SharedRules(v, names) = <<>>
    BY <1>1, <1>2
  <2> QED
    BY <2>1, OneList
<1>3. CASE on
  <2>1. IsFiniteSet(pairs)
    <3>1. IsFiniteSet(v.OVPNS2S_REMOTE_SUBNETS) /\ IsFiniteSet(v.OVPNS2S_LOCAL_SUBNETS)
      BY <1>3 DEF FiniteOptions, FiniteLists, Subnets
    <3>2. IsFiniteSet(v.OVPNS2S_REMOTE_SUBNETS \X v.OVPNS2S_LOCAL_SUBNETS)
      BY <3>1, FS_Product
    <3> QED
      BY <3>2, FS_Subset
  <2>2. IsList(s) /\ Members(s) = pairs
    BY <2>1, InOrder
  <2> HIDE DEF s
  <2>3. IsList(ins) /\ IsList(backs)
    <3> HIDE DEF In, Back
    <3> QED
      BY <2>2, Mapped
  <2>4. ASSUME NEW r \in Members(ins) PROVE r.to = "accept" /\ \A k : Matches(r, k) => ByLan(v, names, k)
    <3>1. PICK i \in DOMAIN s : r = In(s[i])
      BY DEF Members
    <3> DEFINE q == s[i]
               mine == own(q)
               family == InFamily(q[1])
    <3>2. q \in v.OVPNS2S_REMOTE_SUBNETS \X v.OVPNS2S_LOCAL_SUBNETS
      BY <2>2 DEF Members
    <3>3. r.to = "accept" /\ r.on = mine @@ family
      BY <3>1, RuleIs
    <3> HIDE DEF q, family
    <3>4. /\ DOMAIN mine = {"iif", "oif", "src", "dst"} /\ mine["iif"] = {v.OVPNS2S_INTERFACE}
          /\ mine["oif"] = {v.OVPNS2S_LOCAL_INTERFACE} /\ mine["src"] = q[1] /\ mine["dst"] = q[2]
      OBVIOUS
    <3>5. q[1] \in v.OVPNS2S_REMOTE_SUBNETS /\ q[2] \in v.OVPNS2S_LOCAL_SUBNETS
      BY <3>2
    <3> HIDE DEF mine
    <3>6. ASSUME NEW k, Matches(r, k) PROVE \A field \in DOMAIN mine : k[field] \in mine[field]
      BY <3>3, <3>6, Left DEF Matches
    <3>7. ASSUME NEW k, Matches(r, k) PROVE ByLan(v, names, k)
      <4>1. \A field \in DOMAIN mine : k[field] \in mine[field]
        BY <3>6, <3>7
      <4>2. /\ k.iif = v.OVPNS2S_INTERFACE /\ k.oif = v.OVPNS2S_LOCAL_INTERFACE
            /\ k.src \in UNION v.OVPNS2S_REMOTE_SUBNETS /\ k.dst \in UNION v.OVPNS2S_LOCAL_SUBNETS
        BY <4>1, <3>4, <3>5
      <4> QED
        BY <4>2, <1>3 DEF ByLan
    <3> QED
      BY <3>3, <3>7
  <2>5. ASSUME NEW r \in Members(backs) PROVE r.to = "accept" /\ \A k : Matches(r, k) => k.state # "new"
    <3>1. PICK i \in DOMAIN s : r = Back(s[i])
      BY DEF Members
    <3> DEFINE mine == back(s[i])
               both == mine @@ Replies
               family == InFamily(s[i][1])
    <3>2. r.to = "accept" /\ r.on = both @@ family
      BY <3>1, RuleIs
    <3>3. "state" \notin DOMAIN mine /\ "state" \in DOMAIN Replies /\ Replies["state"] = {"established", "related"}
      BY DEF Replies
    <3> HIDE DEF mine, family
    <3>4. "state" \in DOMAIN both /\ both["state"] = Replies["state"]
      BY <3>3, Right
    <3> HIDE DEF both
    <3>5. "state" \in DOMAIN r.on /\ r.on["state"] = both["state"]
      BY <3>2, <3>4, Left
    <3> QED
      BY <3>2, <3>3, <3>4, <3>5 DEF Matches
  <2>6. SharedRules(v, names) = ins \o backs
    BY <1>1, <1>3
  <2> HIDE DEF ins, backs, on
  <2>7. IsList(ins \o backs) /\ Members(ins \o backs) = Members(ins) \cup Members(backs)
    BY <2>3, Joined
  <2> QED
    BY <2>4, <2>5, <2>6, <2>7
<1> QED
  BY <1>2, <1>3, Zenon

\* A chain hands a packet back by a rule that says so, or when none decides.
LEMMA Returned ==
  ASSUME NEW s, IsList(s), NEW k, NEW says, FirstOf(s, k, says) = "return"
  PROVE  \/ Passed(s, k, says)
         \/ \E i \in DOMAIN s : /\ Matches(s[i], k) /\ s[i].to = "return"
                                /\ \A j \in 1..(i - 1) : ~Decides(s[j], k, says)
<1> SUFFICES ASSUME ~Passed(s, k, says)
             PROVE  \E i \in DOMAIN s : /\ Matches(s[i], k) /\ s[i].to = "return"
                                        /\ \A j \in 1..(i - 1) : ~Decides(s[j], k, says)
  OBVIOUS
<1> DEFINE deciding == {i \in DOMAIN s : Decides(s[i], k, says)}
           First(i) == Decides(s[i], k, says) /\ \A j \in 1..(i - 1) : ~Decides(s[j], k, says)
<1>1. DOMAIN s = 1..Len(s) /\ Len(s) \in Nat /\ deciding \subseteq Nat
  BY ListFacts DEF IsList
<1>2. deciding # {}
  BY DEF Passed, Members
<1>3. PICK i \in deciding : \A j \in deciding : i <= j
  BY <1>1, <1>2, Least
<1>4. i \in DOMAIN s /\ First(i)
  BY <1>1, <1>3
<1> DEFINE n == CHOOSE x \in DOMAIN s : First(x)
<1>5. n \in DOMAIN s /\ First(n)
  BY <1>4
<1>6. FirstOf(s, k, says) = VerdictOf(s[n], says)
  BY <1>2 DEF FirstOf, VerdictOf
<1> HIDE DEF n
<1>7. s[n].to = "return"
  BY <1>5, <1>6 DEF VerdictOf, Decides
<1> QED
  BY <1>5, <1>7 DEF Decides

\* The other chains a packet to forward meets.
LEMMA ForwardFurnished ==
  ASSUME NEW nft, NEW v, NEW names, NEW access, NEW f
  PROVE  LET chains == ChainsOf(nft, v, names, access, f) IN
         /\ chains[<<Host, "forward">>] = ForwardChain(v, access)
         /\ chains[<<Host, "shared">>] = SharedRules(v, names)
<1> DEFINE input == <<Host, "input">>
           forward == <<Host, "forward">>
           shared == <<Host, "shared">>
           a == input :> InputChain(nft, v, names, access)
           b == forward :> ForwardChain(v, access)
           c == shared :> SharedRules(v, names)
           d == ContainerChains(nft, v, names, access)
           e == IF Game \subseteq names THEN GameChains(nft, v, Host) ELSE << >>
           g == IF GeoOn(v, names) THEN <<Host, "geo_country_gate_v4">> :> GeoGate(v, GeoSets(v, f)) ELSE << >>
<1>1. ChainsOf(nft, v, names, access, f) = ((((a @@ b) @@ c) @@ d) @@ e) @@ g
  BY DEF ChainsOf
<1>2. input # forward /\ input # shared /\ forward # shared
  OBVIOUS
<1>3. /\ DOMAIN a = {input} /\ DOMAIN b = {forward} /\ b[forward] = ForwardChain(v, access)
      /\ DOMAIN c = {shared} /\ c[shared] = SharedRules(v, names)
  BY DEF :>
<1> HIDE DEF a, b, c, d, e, g, input, forward, shared
<1> DEFINE ab == a @@ b
           abc == ab @@ c
           abcd == abc @@ d
           abcde == abcd @@ e
           all == abcde @@ g
<1>4. forward \in DOMAIN ab /\ ab[forward] = b[forward]
  BY <1>2, <1>3, Right
<1>5. shared \notin DOMAIN ab
  <2>1. DOMAIN ab = DOMAIN a \cup DOMAIN b
    BY Together
  <2> QED
    BY <2>1, <1>2, <1>3
<1> HIDE DEF ab
<1>6. /\ forward \in DOMAIN abc /\ abc[forward] = ab[forward]
      /\ shared \in DOMAIN abc /\ abc[shared] = c[shared]
  BY <1>3, <1>4, <1>5, Left, Right
<1> HIDE DEF abc
<1>7. /\ forward \in DOMAIN abcd /\ abcd[forward] = abc[forward]
      /\ shared \in DOMAIN abcd /\ abcd[shared] = abc[shared]
  BY <1>6, Left
<1> HIDE DEF abcd
<1>8. /\ forward \in DOMAIN abcde /\ abcde[forward] = abcd[forward]
      /\ shared \in DOMAIN abcde /\ abcde[shared] = abcd[shared]
  BY <1>7, Left
<1> HIDE DEF abcde
<1>9. all[forward] = abcde[forward] /\ all[shared] = abcde[shared]
  BY <1>8, Left
<1> HIDE DEF all
<1>10. ChainsOf(nft, v, names, access, f) = all
  BY <1>1 DEF all, abcde, abcd, abc, ab
<1> QED
  BY <1>3, <1>4, <1>6, <1>7, <1>8, <1>9, <1>10 DEF forward, shared

\* What comes before the isolation opens to the grants and the publications only, and
\* hands nothing back.
Granted(access, k) ==
  \/ \E g \in access.forward : ByForward(g, k)
  \/ \E g \in Containers(access) : ByPublication(g, k)

LEMMA FrontOpen ==
  ASSUME NEW v, NEW access, Enumerated(access)
  PROVE  LET front == (CoreForward(v) \o ForwardGrants(access)) \o ContainerEntries(access) IN
         /\ IsList(front) /\ \A r \in Members(front) : r.to \in {"accept", "drop", "jump"}
         /\ \A r \in Members(front) : \A k :
              r.to \in {"accept", "jump"} /\ Matches(r, k) => k.state # "new" \/ Granted(access, k)
<1> DEFINE a == CoreForward(v)
           b == ForwardGrants(access)
           c == ContainerEntries(access)
           Fine(r) == /\ r.to \in {"accept", "drop", "jump"}
                      /\ \A k : r.to \in {"accept", "jump"} /\ Matches(r, k) => k.state # "new" \/ Granted(access, k)
<1>1. IsList(a) /\ \A r \in Members(a) : Fine(r)
  BY CoreForwardOpen
<1>2. IsList(b) /\ \A r \in Members(b) : Fine(r)
  BY ForwardGrantsOpen DEF Enumerated, Granted
<1>3. IsList(c) /\ \A r \in Members(c) : Fine(r)
  BY EntriesOpen DEF Granted
<1> HIDE DEF a, b, c, Fine
<1> DEFINE ab == a \o b
<1>4. IsList(ab) /\ \A r \in Members(ab) : Fine(r)
  BY <1>1, <1>2, Joined
<1> HIDE DEF ab
<1> DEFINE abc == ab \o c
<1>5. IsList(abc) /\ \A r \in Members(abc) : Fine(r)
  BY <1>3, <1>4, Joined
<1> QED
  BY <1>5 DEF ab, a, b, c, Fine

LEMMA ForwardGranted ==
  ASSUME NEW p, NEW f, NEW k, Admissible(p.backend, p.config, p.selected), Enumerated(p.access),
         AsCompiled(p, f), k.state = "new"
  PROVE  /\ Forwards(p, k) = "accept" => Granted(p.access, k) \/ ByLan(p.config, p.selected, k)
         /\ Forwards(p, k) = "return" => \A g \in Containers(p.access) : k.oif = g.output => k.iif = g.output
<1> DEFINE v == p.config
           names == p.selected
           access == p.access
           nowhere == [c \in DOMAIN p.chains |-> "return"]
           says == Says(p.chains, k, Says(p.chains, k, nowhere))
           front == (CoreForward(v) \o ForwardGrants(access)) \o ContainerEntries(access)
           tail == ForwardTail(v, access)
           forward == front \o tail
           shared == SharedRules(v, names)
           final == <<Rule(<<>>, "return")>>
           Aside == \A g \in Containers(access) : k.oif = g.output => k.iif = g.output
<1>1. p.chains[<<Host, "forward">>] = forward /\ p.chains[<<Host, "shared">>] = shared
  <2>1. p.chains[<<Host, "forward">>] = ForwardChain(v, access) /\ p.chains[<<Host, "shared">>] = shared
    BY ForwardFurnished DEF AsCompiled
  <2> QED
    BY <2>1 DEF ForwardChain
<1>2. /\ Forwards(p, k) = "accept" => FirstOf(forward, k, says) = "accept" \/ FirstOf(shared, k, says) = "accept"
      /\ Forwards(p, k) = "return" => FirstOf(forward, k, says) = "return"
  BY <1>1 DEF Forwards, Walk
<1>3. IsList(shared) /\ \A r \in Members(shared) : r.to = "accept" /\ (Matches(r, k) => ByLan(v, names, k))
  BY SharedOpen DEF Admissible
<1>4. /\ IsList(front) /\ \A r \in Members(front) : r.to \in {"accept", "drop", "jump"}
      /\ \A r \in Members(front) : r.to \in {"accept", "jump"} /\ Matches(r, k) => Granted(access, k)
  BY FrontOpen
<1> HIDE DEF says, front, tail, shared
<1>5. ASSUME FirstOf(shared, k, says) = "accept" PROVE ByLan(v, names, k)
  <2>1. PICK i \in DOMAIN shared : Decides(shared[i], k, says)
    BY <1>3, <1>5, FirstDecides
  <2> QED
    BY <2>1, <1>3 DEF Decides, Members
<1>6. IsList(tail) /\ \A r \in Members(tail) : r.to \in {"drop", "return"}
  <2>1. CASE v.ROUTED_POLICY = "drop"
    <3>1. tail = <<Rule(<<>>, "drop")>>
      BY <2>1 DEF tail, ForwardTail
    <3> QED
      BY <3>1, OneList, RuleIs
  <2>2. CASE v.ROUTED_POLICY # "drop"
    <3>1. PICK isolate : /\ tail = isolate \o final
                         /\ IsList(isolate) /\ \A r \in Members(isolate) : r.to \in {"drop", "return"}
      BY <2>2, TailIsolates DEF tail
    <3>2. IsList(final) /\ \A r \in Members(final) : r.to = "return"
      BY OneList, RuleIs
    <3> HIDE DEF final
    <3> QED
      BY <3>1, <3>2, Joined
  <2> QED
    BY <2>1, <2>2
<1>7. /\ IsList(forward) /\ Members(forward) = Members(front) \cup Members(tail)
  BY <1>4, <1>6, Joined
<1>8. ASSUME FirstOf(forward, k, says) = "accept" PROVE Granted(access, k)
  <2> HIDE DEF forward
  <2>1. PICK i \in DOMAIN forward : Decides(forward[i], k, says) /\ VerdictOf(forward[i], says) = "accept"
    BY <1>7, <1>8, FirstDecides
  <2>2. forward[i] \in Members(front) \cup Members(tail) /\ forward[i].to \in {"accept", "jump"}
    BY <2>1, <1>7 DEF VerdictOf, Members
  <2> QED
    BY <2>1, <2>2, <1>4, <1>6 DEF Decides
<1>9. ASSUME FirstOf(forward, k, says) = "return" PROVE Aside
  <2>1. CASE v.ROUTED_POLICY = "drop"
    <3> DEFINE r == Rule(<<>>, "drop")
    <3>1. tail = <<r>> /\ Matches(r, k) /\ r.to = "drop"
      BY <2>1, RuleIs, Always DEF tail, ForwardTail
    <3> HIDE DEF r
    <3>2. Members(tail) = {r}
      BY <3>1, OneList
    <3> HIDE DEF forward
    <3>3. ~Passed(forward, k, says)
      BY <3>1, <3>2, <1>7 DEF Passed, Decides
    <3>4. PICK i \in DOMAIN forward : forward[i].to = "return"
      BY <3>3, <1>7, <1>9, Returned
    <3> QED
      BY <3>1, <3>2, <3>4, <1>4, <1>7 DEF Members
  <2>2. CASE v.ROUTED_POLICY # "drop"
    <3>1. PICK isolate :
            /\ tail = isolate \o final
            /\ IsList(isolate)
            /\ \A r \in Members(isolate) : \A q : r.to = "return" /\ Matches(r, q) => q.state # "new" \/ q.iif = q.oif
            /\ \A g \in Containers(access) : Rule([oif |-> {g.output}], "drop") \in Members(isolate)
      BY <2>2, TailIsolates DEF tail
    <3> DEFINE before == front \o isolate
    <3>2. /\ IsList(before) /\ Members(before) = Members(front) \cup Members(isolate)
          /\ IsList(final)
      BY <3>1, <1>4, Joined, OneList
    <3>3. forward = before \o final
      <4>1. /\ front \in Seq(Members(front) \cup Members(isolate) \cup Members(final))
            /\ isolate \in Seq(Members(front) \cup Members(isolate) \cup Members(final))
            /\ final \in Seq(Members(front) \cup Members(isolate) \cup Members(final))
        BY <3>1, <3>2, <1>4, ListFacts DEF IsList
      <4> HIDE DEF final
      <4> QED
        BY <4>1, <3>1, SMTT(60)
    <3> HIDE DEF before, forward, final
    <3>4. ASSUME Passed(before, k, says), NEW g \in Containers(access), k.oif = g.output PROVE FALSE
      <4> DEFINE r == Rule([oif |-> {g.output}], "drop")
      <4>1. r.to = "drop" /\ Matches(r, k)
        BY <3>4, RuleIs DEF Matches
      <4> HIDE DEF r
      <4>2. r \in Members(before)
        BY <3>1, <3>2 DEF r
      <4> QED
        BY <4>1, <4>2, <3>4 DEF Passed, Decides
    <3>5. CASE Passed(forward, k, says)
      <4>1. Passed(before, k, says)
        BY <3>2, <3>3, <3>5, PassedIn
      <4> QED
        BY <4>1, <3>4
    <3>6. CASE ~Passed(forward, k, says)
      <4>1. PICK i \in DOMAIN forward : /\ Matches(forward[i], k) /\ forward[i].to = "return"
                                        /\ \A j \in 1..(i - 1) : ~Decides(forward[j], k, says)
        BY <3>6, <1>7, <1>9, Returned
      <4>2. /\ Len(before) \in Nat /\ DOMAIN before = 1..Len(before) /\ \A j \in 1..Len(before) : forward[j] = before[j]
            /\ Len(forward) \in Nat /\ DOMAIN forward = 1..Len(forward)
        BY <3>2, <3>3, <1>7, Joined, ListFacts DEF IsList
      <4>3. CASE i \in DOMAIN before
        <5>1. before[i] \in Members(before) /\ before[i].to = "return" /\ Matches(before[i], k)
          BY <4>1, <4>2, <4>3 DEF Members
        <5>2. k.iif = k.oif
          BY <5>1, <3>1, <3>2, <1>4
        <5> QED
          BY <5>2
      <4>4. CASE i \notin DOMAIN before
        <5>1. \A j \in DOMAIN before : j \in 1..(i - 1)
          BY <4>1, <4>2, <4>4
        <5>2. Passed(before, k, says)
          BY <5>1, <4>1, <4>2 DEF Passed, Members
        <5> QED
          BY <5>2, <3>4
      <4> QED
        BY <4>3, <4>4
    <3> QED
      BY <3>5, <3>6
  <2> QED
    BY <2>1, <2>2
<1> QED
  BY <1>2, <1>5, <1>8, <1>9

\* Nothing new is forwarded, or let through to the bridges of the containers, but what a
\* grant, a publication or a tunnel accounts for, for every set of options, grants and packets.
THEOREM ForwardSafe == PolicySpec => []ForwardedIsGranted
<1>1. RecordInv => ForwardedIsGranted
  <2> SUFFICES ASSUME RecordInv, NEW p \in Compiled, Settled, NEW k \in Transits, k.state = "new"
               PROVE  /\ Forwards(p, k) = "accept" => Granted(p.access, k) \/ ByLan(p.config, p.selected, k)
                      /\ Forwards(p, k) = "return" =>
                           \A g \in Containers(p.access) : k.oif = g.output => k.iif = g.output
    BY DEF ForwardedIsGranted, Granted
  <2>1. Kept(p, read) /\ p.schema # 1
    BY DEF RecordInv, Compiled
  <2> QED
    BY <2>1, ForwardGranted DEF Kept
<1> QED
  BY <1>1, RecordKept, PTL
=============================================================================
