-------------------------- MODULE DatasetInvariant --------------------------
(***************************************************************************)
(* What the lines inserted so far have left in each table, in whatever order *)
(* the maps gave them, and the order between the sources that it rests on.     *)
(***************************************************************************)
EXTENDS Dataset

Inserted == input \ rest
From(source, x) == {line \in Inserted : line.source = source /\ line.at = x}

(* The types of the tables                                                     *)
Entry == [flags : SUBSET Flag, asn : ASN \cup {NoASN}, cloud : SUBSET Listing]

TypeOK ==
  /\ input \subseteq Listing /\ WellFormed(input)
  /\ rest \subseteq input
  /\ readers \subseteq Listing
  /\ asns \in [ASN -> SUBSET Flag]
  /\ bogons \in [Prefix -> {"none", "SpecialUse", "Unallocated"}]
  /\ prefixes \in [Prefix -> Entry]
  /\ ips \in [Addr -> SUBSET Flag]

(* No source is begun before the one before it is done.                            *)
InOrder ==
  \A done \in Inserted, left \in rest : Position(done.source) <= Position(left.source)

ReadersInv == readers = {line \in Inserted : line.source \in {"geoReader", "asnReader"}}

AsnsInv ==
  \A n \in ASN : asns[n] = {AsnFact[line.source] : line \in UNION {From(s, n) : s \in AsnSource}}

(* Cymru's prefixes are under one of a table that had all of IANA's, or in it, under none of     *)
(* IANA's.                                                                       *)
BogonsInv ==
  /\ \A p \in Prefix : bogons[p] = "SpecialUse" <=> From("iana", p) # {}
  /\ \A p \in Prefix : bogons[p] = "Unallocated" =>
       /\ From("cymru", p) # {}
       /\ \A q \in Prefix : p \subseteq q => bogons[q] # "SpecialUse"
  /\ \A p \in Prefix : From("cymru", p) # {} => HasSupernet(p)

(* An entry has the flags of all its lines, the ASN of one, and the first of its clouds.         *)
EntryInv(p) ==
  /\ \A f \in Flag :
       f \in prefixes[p].flags <=> \E line \in Inserted :
         /\ line.source \in PrefixSource
         /\ line.at = p
         /\ f \in EntryOf(line).flags
  /\ prefixes[p].asn = NoASN => From("ipverseBlocks", p) = {}
  /\ prefixes[p].asn # NoASN => \E line \in From("ipverseBlocks", p) : line.of = prefixes[p].asn
  /\ prefixes[p].cloud =
       IF From("rezmoss", p) # {} THEN From("rezmoss", p) ELSE From("tobilg", p)

PrefixesInv == \A p \in Prefix : EntryInv(p)

(* An exit is no relay, and nothing but its own lines flags an address.                      *)
IpsInv ==
  \A a \in Addr :
    /\ ips[a] \subseteq {"TorExit", "TorRelay", "VPN", "ProxyLowConf"}
    /\ "TorExit" \in ips[a] <=> From("torExit", a) # {}
    /\ "TorRelay" \in ips[a] <=> From("torFull", a) # {} /\ From("torExit", a) = {}
    /\ "VPN" \in ips[a] <=> From("az0VPN", a) # {}
    /\ "ProxyLowConf" \in ips[a] <=> From("avastelAddrs", a) # {}

DatasetInv == TypeOK /\ InOrder /\ ReadersInv /\ AsnsInv /\ BogonsInv /\ PrefixesInv /\ IpsInv
=============================================================================
