------------------------------ MODULE GeoTool -------------------------------
(***************************************************************************)
(* scripts/geoip/check_geo_policy_ip.py: what an administrator is told of  *)
(* an address or a CIDR, from a file of options and the prefixes on the    *)
(* disk now.  A target is the set of its addresses.                        *)
(***************************************************************************)
EXTENDS Compiler

\* The CIDRs that overlap the target are taken out of it one by one; whatever they
\* leave is not covered.
Coverage(target, nets) ==
  LET matches == {n \in nets : n \cap target # {}} IN
  IF matches = {} THEN "none" ELSE IF target \ UNION matches = {} THEN "full" ELSE "partial"

\* The prefixes of a file, of every country listed that has one, and the addresses
\* that may bypass the policy.
Listing(S) == {{a} : a \in S}
CountryNetworks(disk, countries) == UNION {Listing(disk.country[c]) : c \in countries \cap DOMAIN disk.country}
Whitelist(env, disk, resolve) ==
  {n \in Get(env, "BYPASS_SOURCE_IPS", {}) : Family(n) = 4}
  \cup IF resolve THEN Listing(V4 \cap UNION {disk.dns[d] : d \in Get(env, "BYPASS_SOURCE_DOMAINS", {})}) ELSE {}

Answer(coverage, full, none) == CASE coverage = "full" -> full [] coverage = "partial" -> "PARTIAL" [] OTHER -> none

\* Faulty variant: the addresses the administrator allows are asked first.
ByManualAllowFirst(disk, target, byCountry) ==
  Answer(Coverage(target, Listing(disk.manual.allow)), "ALLOW",
         Answer(Coverage(target, Listing(disk.manual.deny)), "DENY", byCountry))

\* The lists of the administrator, denied addresses first, then the countries.
ByManual(disk, target, byCountry) ==
  Answer(Coverage(target, Listing(disk.manual.deny)), "DENY",
         Answer(Coverage(target, Listing(disk.manual.allow)), "ALLOW", byCountry))

\* decide
Decide(env, disk, target, resolve) ==
  LET mode == Get(env, "GEO_POLICY_MODE", "off")
      allowed == Coverage(target, CountryNetworks(disk, Get(env, "GEO_POLICY_ALLOWED_COUNTRIES", {})))
      denied == Coverage(target, CountryNetworks(disk, Get(env, "GEO_POLICY_DENIED_COUNTRIES", {})))
      byCountry == IF mode = "denylist" THEN Answer(denied, "DENY", "ALLOW") ELSE Answer(allowed, "ALLOW", "DENY")
      byMode == CASE mode = "off" -> "ALLOW"
                  [] mode \in {"allowlist", "denylist"} -> ByManual(disk, target, byCountry) [] OTHER -> "UNKNOWN"
  IN Answer(Coverage(target, Whitelist(env, disk, resolve)), "ALLOW", byMode)
=============================================================================
