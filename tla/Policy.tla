------------------------------- MODULE Policy -------------------------------
(***************************************************************************)
(* The life of a confirmed policy (core/fw.py configuration, with          *)
(* core/schema.py and scripts/geoip): it is applied from a file of options *)
(* and a command line, or found in a record an older release wrote; later  *)
(* --partial and --remove compose the next one from the record, while the  *)
(* files it was once read from are edited and the country prefixes are     *)
(* replaced one file after another.  Every candidate is confirmed: what a  *)
(* transaction may do to it is in Transaction.tla.                         *)
(***************************************************************************)
EXTENDS Compiler

CONSTANTS
  Requests,        \* files of options with their command lines
  Updates,         \* --partial: [only, set]
  Removals,        \* --remove: [names, set]
  Disk,            \* the access files, country prefixes, manual lists and answers there at first
  Refreshed,       \* what the updater generates: country -> prefixes
  Edited,          \* an access file as an administrator leaves it
  MaxOperations    \* bound: operations on one policy

\* The lists that are compiled to a rule for each member, and what each of these has.
FiniteLists == {"BYPASS_SOURCE_IPS", "BYPASS_SOURCE_DOMAINS", "OVPNS2S_LOCAL_SUBNETS", "OVPNS2S_REMOTE_SUBNETS"}
FiniteOptions(v) == \A k \in FiniteLists \cap DOMAIN v : IsFiniteSet(v[k])
Fields == {"source", "destination", "protocol", "ports", "input", "output"}
Enumerated(access) ==
  /\ IsFiniteSet(access.host) /\ IsFiniteSet(access.forward)
  /\ access.containers \in Seq(Containers(access))
  /\ \A g \in access.forward \cup Containers(access) : Fields \subseteq DOMAIN g
  /\ \A g \in Containers(access) : g.ports \in Seq({g.ports[j] : j \in DOMAIN g.ports})
FiniteGrants(acl) == \A a \in DOMAIN acl : Enumerated(acl[a])

\* A request is not a record; what a file, a command line or an answer lists is finite; and a
\* grant has the fields of its kind.
ASSUME PolicyAssumption ==
  /\ {"access", "country", "manual", "dns"} \subseteq DOMAIN Disk
  /\ \A r \in Requests : ~r.normalized /\ FiniteOptions(r.supplied)
  /\ \A u \in Updates \cup Removals : FiniteOptions(u.set)
  /\ FiniteGrants(Disk.access) /\ FiniteGrants(Edited)
  /\ \A d \in DOMAIN Disk.dns : IsFiniteSet(Disk.dns[d])

VARIABLES
  record,      \* the policy bundle of the store: none, or one
  files,       \* the disk now
  read,        \* the disk as the policy of the record was compiled from it
  updating,    \* the countries whose prefixes the updater has still to replace
  last         \* the operation that wrote the record, and how many came before it
policyVars == <<record, files, read, updating, last>>

(***************************************************************************)
(* schema.py                                                               *)
(***************************************************************************)
Without(f, keys) == [k \in DOMAIN f \ keys |-> f[k]]
Dimensions == {"HOST_SERVICES", "CONTAINER_POLICY"}

\* Faulty variant: the old option wins over the fields that are its authority.
LegacyDimensionsOldWins(config) ==
  IF "TYPECHAIN" \in DOMAIN config
    THEN {Translation(config.TYPECHAIN) @@ Without(config, {"TYPECHAIN"})} ELSE {config}

\* Both fields are the authority where they are; TYPECHAIN stands in for both.
LegacyDimensions(config) ==
  LET present == Dimensions \cap DOMAIN config IN
  IF present = Dimensions THEN {Without(config, {"TYPECHAIN"})}
  ELSE IF "TYPECHAIN" \in DOMAIN config /\ present = {}
    THEN {Translation(config.TYPECHAIN) @@ Without(config, {"TYPECHAIN"})} ELSE {}

SharedWithSchema(bundle) ==
  (bundle.schema = 3) = (bundle.chains[<<Host, "shared">>] # <<>>) /\ (bundle.schema = 3 => bundle.backend = "nftables")
Migrated(bundle) ==
  IF ~SharedWithSchema(bundle) THEN {}
  ELSE IF bundle.schema = 1 THEN
    {[bundle EXCEPT !.config = [ACCESS_POLICY |-> ""] @@ config, !.schema = 2] :
       config \in {x \in LegacyDimensions(bundle.config) : x.BYPASS_SOURCE_DOMAINS = {}}}
  ELSE IF /\ "TYPECHAIN" \notin DOMAIN bundle.config
          /\ bundle.config.ACCESS_POLICY = "" /\ bundle.config.BYPASS_SOURCE_DOMAINS = {}
    THEN {bundle} ELSE {}
Current == UNION {Migrated(record[i]) : i \in DOMAIN record}

(***************************************************************************)
(* fw.py configuration                                                     *)
(***************************************************************************)
Reread(p, config, selected, access, set) ==
  Configured(Normalized(p.backend, config, selected, access, DOMAIN set), files)

\* The policy with the options of --set.  Its parsed grants are kept unless an
\* access file is named, which must be there; the file is not read again otherwise.
Merged(p, set) ==
  LET named == "ACCESS_POLICY" \in DOMAIN set
  IN IF named /\ set.ACCESS_POLICY \notin DOMAIN files.access THEN {}
     ELSE Reread(p, set @@ p.config, p.selected,
                 IF named THEN files.access[set.ACCESS_POLICY] ELSE p.access, set)

\* The named modules are validated as a configuration of their own, without grants.
Named(p, c, names, set) == Reread(p, c.config, names, NoAccess, set)

\* Faulty variant: any option may be set along with the modules.
PartialUnrestricted(p, u) ==
  {c \in Merged(p, u.set) : \E n \in Named(p, c, u.only, u.set) : n.selected \subseteq p.selected}

PartialConfiguration(p, u) ==
  {c \in Merged(p, u.set) : \E n \in Named(p, c, u.only, u.set) :
     /\ n.selected \subseteq p.selected
     /\ DOMAIN u.set \subseteq UNION {VarsOf(p.backend, m) : m \in n.selected}}

\* Faulty variant: the access file the policy was once read from is opened again.
RemoveReopensAccess(p, d) ==
  UNION {UNION {Reread(p, c.config, p.selected \ n.selected, files.access[Get(last.set, "ACCESS_POLICY", "")], d.set)
                : n \in Named(p, c, d.names, d.set)} : c \in Merged(p, d.set)}

RemoveConfiguration(p, d) ==
  UNION {UNION {LET remaining == p.selected \ n.selected IN
                IF remaining = {} THEN {} ELSE
                  {next \in Reread(p, c.config, remaining, c.access, d.set) :
                     \A g \in Containers(next.access) : g.service \in next.selected}
                : n \in Named(p, c, d.names, d.set)} : c \in Merged(p, d.set)}

Confirm(c, operation) ==
  /\ \E p \in Generated(c, files) : record' = <<p>>
  /\ read' = files
  /\ last' = [operation EXCEPT !.n = last.n + 1]
  /\ UNCHANGED <<files, updating>>
Operation(op, names, set) == [op |-> op, names |-> names, set |-> set, n |-> 0]

\* apply, from a file and a command line.
Apply(r) ==
  /\ last.n = 0 /\ record = <<>>      \* bound: once, first
  /\ \E c \in Configured(r, files) : Confirm(c, [Operation("apply", {}, << >>) EXCEPT !.set = r.supplied])
Partial(u) ==
  /\ last.n < MaxOperations
  /\ \E p \in Current : \E c \in PartialConfiguration(p, u) : Confirm(c, Operation("partial", u.only, u.set))
Remove(d) ==
  /\ last.n < MaxOperations
  /\ \E p \in Current : \E c \in RemoveConfiguration(p, d) : Confirm(c, Operation("remove", d.names, d.set))

(***************************************************************************)
(* The files under the policy                                              *)
(***************************************************************************)
\* Bound: the files change once, between the policy that is applied and the next operation.
Undisturbed == last.op = "apply" /\ files = Disk
EditAccess ==
  /\ Undisturbed
  /\ files' = [files EXCEPT !.access = Edited]
  /\ UNCHANGED <<record, read, updating, last>>

\* build_geo_country_sets.py: each country's file is replaced on its own, in the
\* order given.
UpdateStarts ==
  /\ Undisturbed /\ updating = <<>>
  /\ updating' = SX!SetToSeq(DOMAIN Refreshed)
  /\ UNCHANGED <<record, files, read, last>>
CountryReplaced ==
  /\ updating # <<>> /\ last.op = "apply"
  /\ files' = [files EXCEPT !.country[Head(updating)] = Refreshed[Head(updating)]]
  /\ updating' = Tail(updating)
  /\ UNCHANGED <<record, read, last>>

\* A record as an older release wrote it: schema 1, with TYPECHAIN beside the two
\* fields that replaced it, or in their place.
Older(p, typechain, dimensions) ==
  [p EXCEPT !.schema = 1,
            !.config = [TYPECHAIN |-> typechain, ACCESS_POLICY |-> "acl"] @@
                       Without(p.config, IF dimensions THEN {} ELSE Dimensions)]
OlderRecords ==
  LET policies == {p \in UNION {Generated(c, Disk) : c \in UNION {Configured(r, Disk) : r \in Requests}} :
                     p.schema = 2}
      Told(p) == {t \in {0, 1, 2} : \A k \in Dimensions : Translation(t)[k] = p.config[k]}
  IN {Older(p, 0, TRUE) : p \in policies} \cup UNION {{Older(p, t, FALSE) : t \in Told(p)} : p \in policies}

PolicyInit ==
  /\ record \in {<<>>} \cup {<<p>> : p \in OlderRecords}
  /\ files = Disk /\ read = Disk /\ updating = <<>>
  /\ last = Operation("none", {}, << >>)
PolicyNext ==
  \/ \E r \in Requests : Apply(r)
  \/ \E u \in Updates : Partial(u)
  \/ \E d \in Removals : Remove(d)
  \/ EditAccess \/ UpdateStarts \/ CountryReplaced
PolicySpec == PolicyInit /\ [][PolicyNext]_policyVars
=============================================================================
