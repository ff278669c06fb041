------------------------------ MODULE Dataset -------------------------------
(***************************************************************************)
(* How the dataset is built from its sources and what a lookup makes of it    *)
(* (src/internal/dataset: build.go, lookup.go, ofac.go).  The sources overlap   *)
(* and disagree; they are inserted one after the other, each in the order of a    *)
(* Go map or of a file, and later readers take the nearest prefix or all of them.   *)
(*                                                                          *)
(* A prefix is the set of its addresses.  A listing is one line of a source.      *)
(***************************************************************************)
EXTENDS Naturals, Sequences, FiniteSets

CONSTANTS
  Addr,
  Prefix,
  ASN, NoASN,
  OfacASN, PossibleOfacASN,   \* the operators of ofacASNFlags, by flag
  HostingASN,                 \* their GeoLite2 organization has a keyword of hosting
  GeoRecord,                  \* the records of GeoLite2 City
  Inputs                      \* what the sources may hold

(* Two prefixes are disjoint or one holds the other; an address has one of each length.  *)
ASSUME PrefixAssumption ==
  /\ Prefix \subseteq SUBSET Addr
  /\ \A a \in Addr : IsFiniteSet({p \in Prefix : a \in p})
  /\ \A p, q \in Prefix : p \cap q = {} \/ p \subseteq q \/ q \subseteq p

ASSUME AsnAssumption ==
  NoASN \notin ASN /\ OfacASN \cup PossibleOfacASN \cup HostingASN \subseteq ASN

(* country: one of the three lists, Ukraine or any other; area: ukraineRegionFlag's flag. *)
ASSUME GeoAssumption ==
  GeoRecord \subseteq [country : {"ofac", "sanctioned", "Ukraine", "other"},
                       registered : {"ofac", "other"},
                       area : {"OFAC", "PossibleOFAC", "none"}]

AsnSource    == {"ipverseMetadata", "umkus", "bountyyfi"}
BogonSource  == {"iana", "cymru"}
CloudSource  == {"rezmoss", "tobilg"}
PrefixSource == {"x4bnetVPN", "x4bnetDatacenter", "avastelPrefixes"} \cup CloudSource
AddrSource   == {"torFull", "torExit", "az0VPN", "avastelAddrs"}

(* One line of a source; of is the ASN of an address block or an ASN record, or the    *)
(* record of a city.  ipverseMetadata lists the ASNs whose name has a keyword.     *)
Line(sources, places) == [source : sources, at : places, of : {NoASN}]
Listing ==
  Line(AsnSource, ASN) \cup Line(BogonSource \cup PrefixSource, Prefix) \cup
  Line(AddrSource, Addr) \cup
  [source : {"ipverseBlocks"}, at : Prefix, of : ASN] \cup
  [source : {"asnReader"}, at : Addr, of : ASN] \cup
  [source : {"geoReader"}, at : Addr, of : GeoRecord]

(* The order of build *)
BuildOrder ==
  <<"geoReader", "asnReader", "ipverseMetadata", "umkus", "bountyyfi", "iana", "cymru",
    "x4bnetVPN", "x4bnetDatacenter", "rezmoss", "tobilg", "avastelPrefixes",
    "ipverseBlocks", "torFull", "torExit", "az0VPN", "avastelAddrs">>

(* The loaders refuse a duplicate; rezmoss keeps them, and build takes the first. An      *)
(* address block may be announced by several ASNs.                                *)
WellFormed(lines) ==
  \A x, y \in lines :
    x.source = y.source /\ x.at = y.at /\ x.source # "ipverseBlocks" => x = y

ASSUME InputsAssumption == \A lines \in Inputs : lines \subseteq Listing /\ WellFormed(lines)

VARIABLES
  input,       \* the sources' lines
  rest,        \* those not inserted yet
  readers,     \* the lines of the two MaxMind databases
  asns,        \* the facts of each ASN, a set
  bogons,      \* the kind of each prefix in the table, or "none"
  prefixes,    \* the entry of each prefix: flags, asn, and the line of its cloud, a set of one
  ips          \* the flags of each address

tables == <<readers, asns, bogons, prefixes, ips>>
vars   == <<input, rest, tables>>

Flag == {"VPN", "Datacenter", "PossibleDatacenter", "TorExit", "TorRelay", "ProxyHighConf",
         "ProxyLowConf", "HighRiskASN", "OFAC", "PossibleOFAC", "SanctionedCountry"}

NewEntry == [flags |-> {}, asn |-> NoASN, cloud |-> {}]

Init ==
  /\ input \in Inputs
  /\ rest = input
  /\ readers = {}
  /\ asns = [n \in ASN |-> {}]
  /\ bogons = [p \in Prefix |-> "none"]
  /\ prefixes = [p \in Prefix |-> NewEntry]
  /\ ips = [a \in Addr |-> {}]

(* A line of the first source that has any left, whichever comes next in its map.      *)
Position(source) == CHOOSE i \in DOMAIN BuildOrder : BuildOrder[i] = source

Take(line, sources) ==
  /\ line.source \in sources
  /\ \A other \in rest : Position(line.source) <= Position(other.source)
  /\ rest' = rest \ {line}
  /\ UNCHANGED input

AssignReader(line) ==
  /\ Take(line, {"geoReader", "asnReader"})
  /\ readers' = readers \cup {line}
  /\ UNCHANGED <<asns, bogons, prefixes, ips>>

(* buildASNMap *)
AsnFact == [ipverseMetadata |-> "PossibleDatacenter", umkus |-> "Datacenter",
            bountyyfi |-> "HighRiskASN"]

InsertASN(line) ==
  /\ Take(line, AsnSource)
  /\ asns' = [asns EXCEPT ![line.at] = @ \cup {AsnFact[line.source]}]
  /\ UNCHANGED <<readers, bogons, prefixes, ips>>

(* insertBogonSource *)
HasSupernet(prefix) == \E p \in Prefix : prefix \subseteq p /\ bogons[p] # "none"

InsertSpecial(line) ==
  /\ Take(line, {"iana"})
  /\ bogons' = [bogons EXCEPT ![line.at] = "SpecialUse"]
  /\ UNCHANGED <<readers, asns, prefixes, ips>>

InsertUnallocated(line) ==
  /\ Take(line, {"cymru"})
  /\ bogons' = IF HasSupernet(line.at) THEN bogons
               ELSE [bogons EXCEPT ![line.at] = "Unallocated"]
  /\ UNCHANGED <<readers, asns, prefixes, ips>>

(* A faulty variant: the last ones do.                                            *)
MergeNewest(old, new) ==
  [flags |-> old.flags \cup new.flags,
   asn   |-> IF new.asn = NoASN THEN old.asn ELSE new.asn,
   cloud |-> IF new.cloud = {} THEN old.cloud ELSE new.cloud]

(* mergePrefixEntry: the first ASN and the first cloud stay.                         *)
Merge(old, new) ==
  [flags |-> old.flags \cup new.flags,
   asn   |-> IF old.asn = NoASN THEN new.asn ELSE old.asn,
   cloud |-> IF old.cloud = {} THEN new.cloud ELSE old.cloud]

EntryOf(line) ==
  [flags |-> CASE line.source = "x4bnetVPN" -> {"VPN"}
               [] line.source \in {"x4bnetDatacenter"} \cup CloudSource -> {"Datacenter"}
               [] line.source = "avastelPrefixes" -> {"ProxyHighConf"}
               [] OTHER -> {},
   asn   |-> line.of,
   cloud |-> IF line.source \in CloudSource THEN {line} ELSE {}]

InsertPrefix(line) ==
  /\ Take(line, PrefixSource \cup {"ipverseBlocks"})
  /\ prefixes' = [prefixes EXCEPT ![line.at] = Merge(@, EntryOf(line))]
  /\ UNCHANGED <<readers, asns, bogons, ips>>

(* buildIPMap: an exit is no relay.                                             *)
IPFlag == [torFull |-> "TorRelay", torExit |-> "TorExit", az0VPN |-> "VPN",
           avastelAddrs |-> "ProxyLowConf"]

InsertIP(line) ==
  /\ Take(line, AddrSource)
  /\ ips' = [ips EXCEPT ![line.at] =
       (IF line.source = "torExit" THEN @ \ {"TorRelay"} ELSE @) \cup {IPFlag[line.source]}]
  /\ UNCHANGED <<readers, asns, bogons, prefixes>>

Next == \E line \in rest :
  \/ AssignReader(line) \/ InsertASN(line)
  \/ InsertSpecial(line) \/ InsertUnallocated(line)
  \/ InsertPrefix(line) \/ InsertIP(line)

Spec == Init /\ [][Next]_vars

-----------------------------------------------------------------------------
(* Lookup *)

Covering(a) == {p \in Prefix : a \in p}

(* The most specific of the prefixes that cover an address                          *)
Nearest(ps) == CHOOSE p \in ps : \A q \in ps : p \subseteq q

Record(source, a) == {line \in readers : line.source = source /\ line.at = a}

(* geoSanctionsFlags *)
GeoFlags(geo) ==
  (CASE geo.country = "ofac" -> {"OFAC"}
     [] geo.country = "sanctioned" -> {"SanctionedCountry"}
     [] geo.country = "Ukraine" -> {geo.area} \ {"none"}
     [] OTHER -> {})
  \cup (IF geo.registered = "ofac" THEN {"PossibleOFAC"} ELSE {})

OfacFlags(n) ==
  (IF n \in OfacASN THEN {"OFAC"} ELSE {}) \cup
  (IF n \in PossibleOfacASN THEN {"PossibleOFAC"} ELSE {})

(* strongestSanctionsFlag *)
Strongest(flags) ==
  flags \ CASE "OFAC" \in flags -> {"PossibleOFAC", "SanctionedCountry"}
            [] "OFAC" \notin flags /\ "PossibleOFAC" \in flags -> {"SanctionedCountry"}
            [] OTHER -> {}

(* A faulty variant: a relay that is no exit suppresses too.                          *)
SuppressForRelay(flags) ==
  flags \ ((IF "ProxyHighConf" \in flags THEN {"ProxyLowConf"} ELSE {}) \cup
           (IF flags \cap {"VPN", "TorExit", "TorRelay"} # {}
            THEN {"ProxyHighConf", "ProxyLowConf"} ELSE {}))

(* A low confidence gives way to a high one, and both to what the address is known to be. *)
Suppress(flags) ==
  flags \ ((IF "ProxyHighConf" \in flags THEN {"ProxyLowConf"} ELSE {}) \cup
           (IF flags \cap {"VPN", "TorExit"} # {} THEN {"ProxyHighConf", "ProxyLowConf"} ELSE {}))

WithASN(a)   == {p \in Covering(a) : prefixes[p].asn # NoASN}
WithCloud(a) == {p \in Covering(a) : prefixes[p].cloud # {}}
Announced(a) == IF WithASN(a) = {} THEN NoASN ELSE prefixes[Nearest(WithASN(a))].asn
CloudOf(a)   == IF WithCloud(a) = {} THEN {} ELSE prefixes[Nearest(WithCloud(a))].cloud

Facts(n) == IF n = NoASN THEN {} ELSE asns[n]

(* What the prefixes, their ASN and the address itself are listed for                *)
Listed(a) ==
  (UNION {prefixes[p].flags : p \in Covering(a)}) \cup Facts(Announced(a)) \cup ips[a]

(* GeoLite2 is read when no prefix has an ASN, or when the address is not known or thought to *)
(* be in a datacenter.                                                         *)
RecordedASN(a) ==
  IF Announced(a) = NoASN \/ Listed(a) \cap {"Datacenter", "PossibleDatacenter"} = {}
  THEN {line.of : line \in Record("asnReader", a)} ELSE {}

AsnOf(a) ==
  IF Announced(a) # NoASN \/ RecordedASN(a) = {} THEN Announced(a)
  ELSE CHOOSE n \in RecordedASN(a) : TRUE

Known(a) ==
  LET hosting == IF RecordedASN(a) \cap HostingASN # {} THEN {"PossibleDatacenter"} ELSE {}
      all     == Listed(a) \cup hosting \cup Facts(AsnOf(a))
  IN IF "Datacenter" \in all THEN all \ {"PossibleDatacenter"} ELSE all

GeoOf(a) == UNION {GeoFlags(line.of) : line \in Record("geoReader", a)}

RoutableResult(a) ==
  [kind  |-> "Routable", special |-> {}, asn |-> AsnOf(a), cloud |-> CloudOf(a),
   flags |-> Strongest(Suppress(Known(a)) \cup GeoOf(a) \cup OfacFlags(AsnOf(a)))]

Lookup(a) ==
  LET bogon == {p \in Covering(a) : bogons[p] # "none"}
      kind  == bogons[Nearest(bogon)]
  IN IF bogon = {} THEN RoutableResult(a)
     ELSE [kind |-> kind, asn |-> NoASN, cloud |-> {}, flags |-> {},
           special |-> IF kind = "SpecialUse" THEN {Nearest(bogon)} ELSE {}]

-----------------------------------------------------------------------------
(* Properties of a dataset that is complete, by what the sources say of an address *)

Says(source, a) == {line \in input : line.source = source /\ a \in line.at}
SaysOf(source, x) == {line \in input : line.source = source /\ line.at = x}

(* An address is of special use just when IANA lists it, whatever Cymru says of a wider or   *)
(* narrower prefix, and its use is that of the narrowest one; it is unallocated just when only *)
(* Cymru lists it.  Otherwise its cloud is that of the narrowest prefix with one, rezmoss's    *)
(* before tobilg's; its ASN is one that announces the narrowest prefix, and GeoLite2's if      *)
(* nobody does.                                                                *)
FactsAreNearest ==
  rest = {} => \A a \in Addr :
    LET special    == {line.at : line \in Says("iana", a)}
        clouds     == Says("rezmoss", a) \cup Says("tobilg", a)
        announced  == Says("ipverseBlocks", a)
        Narrowest(lines) == {x \in lines : \A y \in lines : x.at \subseteq y.at}
        result     == Lookup(a)
    IN /\ result.kind = IF special # {} THEN "SpecialUse"
                        ELSE IF Says("cymru", a) # {} THEN "Unallocated" ELSE "Routable"
       /\ result.special = {p \in special : \A q \in special : p \subseteq q}
       /\ result.kind = "Routable" =>
            /\ result.cloud = {x \in Narrowest(clouds) :
                                 x.source = "rezmoss" \/ \A y \in Narrowest(clouds) : x = y}
            /\ IF announced # {}
               THEN result.asn \in {line.of : line \in Narrowest(announced)}
               ELSE {result.asn} \ {NoASN} = {line.of : line \in SaysOf("asnReader", a)}

(* An address has a flag just when some source gives it that flag, through its prefixes, itself *)
(* or its ASN, and no stronger one does: an exit is no relay, a VPN or an exit no proxy, a   *)
(* proxy of high confidence none of low, and a datacenter no possible one.  Of sanctions it has  *)
(* the strongest that its place, its registration or its operator calls for.            *)
FlagsAreRight ==
  rest = {} => \A a \in {x \in Addr : Lookup(x).kind = "Routable"} :
    LET result == Lookup(a)
        Has(flag) == flag \in result.flags
        Prefixed(source) == Says(source, a) # {}
        Itself(source)   == SaysOf(source, a) # {}
        Its(source)      == SaysOf(source, result.asn) # {}
        tunnel == Has("VPN") \/ Has("TorExit")
        hosted == \E line \in SaysOf("asnReader", a) : line.of \in HostingASN
        places == {line.of : line \in SaysOf("geoReader", a)}
        Calls(flag) ==
          \/ \E g \in places : g.country = "Ukraine" /\ g.area = flag
          \/ flag = "OFAC" /\ (result.asn \in OfacASN \/ \E g \in places : g.country = "ofac")
          \/ flag = "PossibleOFAC" /\ (\/ result.asn \in PossibleOfacASN
                                      \/ \E g \in places : g.registered = "ofac")
          \/ flag = "SanctionedCountry" /\ \E g \in places : g.country = "sanctioned"
        stronger == [OFAC |-> {}, PossibleOFAC |-> {"OFAC"},
                     SanctionedCountry |-> {"OFAC", "PossibleOFAC"}]
    IN /\ Has("VPN") <=> Prefixed("x4bnetVPN") \/ Itself("az0VPN")
       /\ Has("TorExit") <=> Itself("torExit")
       /\ Has("TorRelay") <=> Itself("torFull") /\ ~Itself("torExit")
       /\ Has("ProxyHighConf") <=> Prefixed("avastelPrefixes") /\ ~tunnel
       /\ Has("ProxyLowConf") <=>
            Itself("avastelAddrs") /\ ~Prefixed("avastelPrefixes") /\ ~tunnel
       /\ Has("HighRiskASN") <=> Its("bountyyfi")
       /\ Has("Datacenter") <=>
            \/ \E source \in {"x4bnetDatacenter"} \cup CloudSource : Prefixed(source)
            \/ Its("umkus")
       /\ Has("PossibleDatacenter") <=> (Its("ipverseMetadata") \/ hosted) /\ ~Has("Datacenter")
       /\ \A f \in DOMAIN stronger : Has(f) <=> Calls(f) /\ \A g \in stronger[f] : ~Calls(g)
=============================================================================
