--------------------------- MODULE DatasetProofs ----------------------------
(***************************************************************************)
(* That a complete dataset answers by what its sources say, for any addresses, *)
(* prefixes and sources: the order of the sources and the order in a map make no *)
(* difference that a lookup would show.  And that a report tells of every        *)
(* address of a text by what a lookup answers.                                 *)
(***************************************************************************)
EXTENDS DatasetInvariant, Report, FiniteSetTheorems, TLAPS

-----------------------------------------------------------------------------
(* Prefixes *)

(* Some prefixes of an address have a narrowest, and Nearest is it.                    *)
LEMMA NarrowestExists ==
  ASSUME NEW a \in Addr, NEW ps, ps \subseteq Covering(a), ps # {}
  PROVE  /\ Nearest(ps) \in ps
         /\ \A q \in ps : Nearest(ps) \subseteq q
<1> DEFINE under(p) == {q \in ps : q \subseteq p}
           unders == {under(p) : p \in ps}
<1>1. IsFiniteSet(Covering(a))
  BY PrefixAssumption DEF Covering
<1>2. IsFiniteSet(ps)
  BY <1>1, FS_Subset
<1>3. unders \subseteq FiniteSubsetsOf(ps)
  <2>1. ASSUME NEW p \in ps PROVE IsFiniteSet(under(p)) /\ under(p) \subseteq ps
    BY <1>2, FS_Subset
  <2> QED
    BY <2>1 DEF FiniteSubsetsOf
<1>4. PICK w \in unders : \A x \in unders : <<x, w>> \notin StrictSubsetOrdering(ps)
  <2>1. unders # {}
    <3>1. PICK p \in ps : TRUE
      OBVIOUS
    <3>2. under(p) \in unders
      OBVIOUS
    <3> QED
      BY <3>2
  <2>2. IsWellFoundedOn(StrictSubsetOrdering(ps), FiniteSubsetsOf(ps))
    BY FS_StrictSubsetOrderingWellFounded
  <2> HIDE DEF unders
  <2> QED
    BY <1>3, <2>1, <2>2, WFMin
<1>5. PICK p \in ps : w = under(p)
  OBVIOUS
<1>6. ASSUME NEW q \in ps PROVE p \subseteq q
  <2>1. p \in Prefix /\ q \in Prefix /\ a \in p \cap q
    BY DEF Covering
  <2>2. p \subseteq q \/ q \subseteq p
    BY <2>1, PrefixAssumption
  <2>3. SUFFICES ASSUME q \subseteq p, p # q PROVE FALSE
    BY <2>2
  <2>4. under(q) \subseteq under(p) /\ p \in under(p) /\ p \notin under(q)
    BY <2>3
  <2>5. <<under(q), w>> \in StrictSubsetOrdering(ps)
    BY <2>4, <1>5 DEF StrictSubsetOrdering
  <2> QED
    BY <2>5, <1>4
<1> QED
  BY <1>6 DEF Nearest

-----------------------------------------------------------------------------
(* Sources *)

(* Where a source comes in the order of build.                                        *)
LEMMA PositionFacts ==
  /\ Position("iana") = 6
  /\ Position("cymru") = 7
  /\ Position("rezmoss") = 10
  /\ Position("tobilg") = 11
  /\ Position("torFull") = 14
  /\ Position("torExit") = 15
BY DEF Position, BuildOrder

(* What a line of each source lists, and what it says of it.                            *)
LEMMA LineFacts ==
  ASSUME NEW line \in Listing
  PROVE  /\ line.source \in AsnSource => line.at \in ASN
         /\ line.source \in BogonSource \cup PrefixSource => line.at \in Prefix
         /\ line.source \in PrefixSource => line.of = NoASN
         /\ line.source \in AddrSource => line.at \in Addr
         /\ line.source = "ipverseBlocks" => line.at \in Prefix /\ line.of \in ASN
         /\ line.source = "asnReader" => line.at \in Addr /\ line.of \in ASN
         /\ line.source = "geoReader" => line.at \in Addr /\ line.of \in GeoRecord
BY DEF Listing, Line, AsnSource, BogonSource, PrefixSource, CloudSource, AddrSource

-----------------------------------------------------------------------------
(* One line more *)

(* What taking a line does to the inserted ones, and what was inserted before it.             *)
LEMMA TakeFacts ==
  ASSUME DatasetInv, NEW line \in rest, NEW sources, Take(line, sources)
  PROVE  /\ line \in Listing /\ line \in input /\ line \notin Inserted
         /\ line.source \in sources
         /\ input' = input /\ rest' \subseteq input
         /\ Inserted' = Inserted \cup {line}
         /\ InOrder'
         /\ \A done \in Inserted : Position(done.source) <= Position(line.source)
<1>1. /\ line \in Listing /\ line \in input /\ line \notin Inserted
      /\ line.source \in sources
      /\ input' = input /\ rest' \subseteq input
      /\ Inserted' = Inserted \cup {line}
  BY DEF DatasetInv, TypeOK, Take, Inserted
<1>2. \A done \in Inserted : Position(done.source) <= Position(line.source)
  BY DEF DatasetInv, InOrder
<1>3. \A other \in rest : Position(line.source) <= Position(other.source)
  BY DEF Take
<1>4. rest' \subseteq rest
  BY DEF Take
<1>5. InOrder'
  BY <1>1, <1>2, <1>3, <1>4 DEF DatasetInv, InOrder
<1> QED
  BY <1>1, <1>2, <1>5

(* A line adds to the lines of its own source at its own place and to no others.              *)
LEMMA FromAfter ==
  ASSUME NEW line, Inserted' = Inserted \cup {line}, NEW source, NEW x
  PROVE  /\ line.source = source /\ line.at = x => From(source, x)' = From(source, x) \cup {line}
         /\ ~(line.source = source /\ line.at = x) => From(source, x)' = From(source, x)
BY DEF From

(* No source but ipverse's blocks lists anything twice.                                  *)
LEMMA OnlyOnce ==
  ASSUME DatasetInv, NEW line \in rest, line.source # "ipverseBlocks"
  PROVE  From(line.source, line.at) = {}
BY DEF DatasetInv, TypeOK, WellFormed, From, Inserted

(* A line of another source leaves what a table is by its own sources as it was.              *)
LEMMA ReadersKept ==
  ASSUME DatasetInv, NEW line, Inserted' = Inserted \cup {line}, UNCHANGED readers,
         line.source \notin {"geoReader", "asnReader"}
  PROVE  ReadersInv'
BY DEF DatasetInv, ReadersInv

LEMMA AsnsKept ==
  ASSUME DatasetInv, NEW line, Inserted' = Inserted \cup {line}, UNCHANGED asns,
         line.source \notin AsnSource
  PROVE  AsnsInv'
<1> SUFFICES ASSUME NEW n \in ASN
             PROVE  asns'[n] = {AsnFact[l.source] : l \in UNION {From(s, n)' : s \in AsnSource}}
  BY DEF AsnsInv
<1>1. \A s \in AsnSource : From(s, n)' = From(s, n)
  BY FromAfter
<1>2. UNION {From(s, n)' : s \in AsnSource} = UNION {From(s, n) : s \in AsnSource}
  BY <1>1
<1> QED
  BY <1>2 DEF DatasetInv, AsnsInv

LEMMA BogonsKept ==
  ASSUME DatasetInv, NEW line, Inserted' = Inserted \cup {line}, UNCHANGED bogons,
         line.source \notin BogonSource
  PROVE  BogonsInv'
<1>1. \A p \in Prefix : From("iana", p)' = From("iana", p) /\ From("cymru", p)' = From("cymru", p)
  BY FromAfter DEF BogonSource
<1> QED
  BY <1>1 DEF DatasetInv, BogonsInv, HasSupernet

LEMMA PrefixesKept ==
  ASSUME DatasetInv, NEW line, Inserted' = Inserted \cup {line}, UNCHANGED prefixes,
         line.source \notin PrefixSource \cup {"ipverseBlocks"}
  PROVE  PrefixesInv'
<1>1. \A s \in PrefixSource \cup {"ipverseBlocks"}, p \in Prefix : From(s, p)' = From(s, p)
  BY FromAfter
<1> SUFFICES ASSUME NEW p \in Prefix
             PROVE  EntryInv(p)'
  BY DEF PrefixesInv
<1>2. EntryInv(p)
  BY DEF DatasetInv, PrefixesInv
<1>3. ASSUME NEW f \in Flag
      PROVE  (f \in prefixes[p].flags <=> \E l \in Inserted :
                l.source \in PrefixSource /\ l.at = p /\ f \in EntryOf(l).flags)'
  BY <1>2 DEF EntryInv
<1>4. /\ From("ipverseBlocks", p)' = From("ipverseBlocks", p)
      /\ From("rezmoss", p)' = From("rezmoss", p)
      /\ From("tobilg", p)' = From("tobilg", p)
  BY <1>1 DEF PrefixSource, CloudSource
<1> QED
  BY <1>2, <1>3, <1>4 DEF EntryInv

LEMMA IpsKept ==
  ASSUME DatasetInv, NEW line, Inserted' = Inserted \cup {line}, UNCHANGED ips,
         line.source \notin AddrSource
  PROVE  IpsInv'
<1>1. \A s \in AddrSource, a \in Addr : From(s, a)' = From(s, a)
  BY FromAfter
<1> QED
  BY <1>1 DEF DatasetInv, IpsInv, AddrSource

-----------------------------------------------------------------------------
(* Inserting a line *)

(* A line of the MaxMind databases.                                               *)
LEMMA AssignReaderStep ==
  ASSUME DatasetInv, NEW line \in rest, AssignReader(line)
  PROVE  DatasetInv'
<1>1. Take(line, {"geoReader", "asnReader"}) /\ UNCHANGED <<asns, bogons, prefixes, ips>>
  BY DEF AssignReader
<1>2. /\ line \in Listing /\ input' = input /\ rest' \subseteq input
      /\ Inserted' = Inserted \cup {line} /\ InOrder'
      /\ line.source \in {"geoReader", "asnReader"}
  BY <1>1, TakeFacts
<1>3. TypeOK'
  BY <1>1, <1>2 DEF DatasetInv, TypeOK, AssignReader
<1>4. ReadersInv'
  BY <1>2 DEF DatasetInv, ReadersInv, AssignReader
<1>5. AsnsInv'
  BY <1>1, <1>2, AsnsKept DEF AsnSource
<1>6. BogonsInv'
  BY <1>1, <1>2, BogonsKept DEF BogonSource
<1>7. PrefixesInv'
  BY <1>1, <1>2, PrefixesKept DEF PrefixSource, CloudSource
<1>8. IpsInv'
  BY <1>1, <1>2, IpsKept DEF AddrSource
<1> QED
  BY <1>2, <1>3, <1>4, <1>5, <1>6, <1>7, <1>8 DEF DatasetInv

(* A line about an ASN.                                                            *)
LEMMA InsertASNStep ==
  ASSUME DatasetInv, NEW line \in rest, InsertASN(line)
  PROVE  DatasetInv'
<1>1. Take(line, AsnSource) /\ UNCHANGED <<readers, bogons, prefixes, ips>>
  BY DEF InsertASN
<1>2. /\ line \in Listing /\ input' = input /\ rest' \subseteq input
      /\ Inserted' = Inserted \cup {line} /\ InOrder'
      /\ line.source \in AsnSource
  BY <1>1, TakeFacts
<1>3. line.at \in ASN /\ AsnFact[line.source] \in Flag
  BY <1>2, LineFacts DEF AsnSource, AsnFact, Flag
<1>4. asns' = [asns EXCEPT ![line.at] = asns[line.at] \cup {AsnFact[line.source]}]
  BY DEF InsertASN
<1>5. TypeOK'
  BY <1>1, <1>2, <1>3, <1>4 DEF DatasetInv, TypeOK
<1>6. AsnsInv'
  <2> SUFFICES ASSUME NEW n \in ASN
               PROVE  asns'[n] = {AsnFact[l.source] : l \in UNION {From(s, n)' : s \in AsnSource}}
    BY DEF AsnsInv
  <2> DEFINE old == UNION {From(s, n) : s \in AsnSource}
             new == UNION {From(s, n)' : s \in AsnSource}
  <2>1. asns[n] = {AsnFact[l.source] : l \in old}
    BY DEF DatasetInv, AsnsInv
  <2>2. CASE n = line.at
    <3>1. new = old \cup {line}
      BY <1>2, <2>2 DEF From
    <3>2. asns'[n] = asns[n] \cup {AsnFact[line.source]}
      BY <1>3, <1>4, <2>2 DEF DatasetInv, TypeOK
    <3> HIDE DEF old, new
    <3>3. asns'[n] = {AsnFact[l.source] : l \in new}
      BY <2>1, <3>1, <3>2
    <3> QED
      BY <3>3 DEF new
  <2>3. CASE n # line.at
    <3>1. new = old
      BY <1>2, <2>3 DEF From
    <3>2. asns'[n] = asns[n]
      BY <1>3, <1>4, <2>3 DEF DatasetInv, TypeOK
    <3> QED
      BY <2>1, <3>1, <3>2
  <2> QED
    BY <2>2, <2>3
<1>7. ReadersInv'
  BY <1>1, <1>2, ReadersKept DEF AsnSource
<1>8. BogonsInv'
  BY <1>1, <1>2, BogonsKept DEF BogonSource, AsnSource
<1>9. PrefixesInv'
  BY <1>1, <1>2, PrefixesKept DEF PrefixSource, CloudSource, AsnSource
<1>10. IpsInv'
  BY <1>1, <1>2, IpsKept DEF AddrSource, AsnSource
<1> QED
  BY <1>2, <1>5, <1>6, <1>7, <1>8, <1>9, <1>10 DEF DatasetInv

(* A prefix of IANA's: none of Cymru's is in the table yet.                               *)
LEMMA InsertSpecialStep ==
  ASSUME DatasetInv, NEW line \in rest, InsertSpecial(line)
  PROVE  DatasetInv'
<1>1. Take(line, {"iana"}) /\ UNCHANGED <<readers, asns, prefixes, ips>>
  BY DEF InsertSpecial
<1>2. /\ line \in Listing /\ input' = input /\ rest' \subseteq input
      /\ Inserted' = Inserted \cup {line} /\ InOrder'
      /\ line.source = "iana"
      /\ \A done \in Inserted : Position(done.source) <= Position(line.source)
  BY <1>1, TakeFacts
<1>3. line.at \in Prefix
  BY <1>2, LineFacts DEF BogonSource
<1>4. bogons' = [bogons EXCEPT ![line.at] = "SpecialUse"]
  BY DEF InsertSpecial
<1>5. TypeOK'
  BY <1>1, <1>2, <1>3, <1>4 DEF DatasetInv, TypeOK
<1>6. BogonsInv'
  <2>1. \A p \in Prefix : From("cymru", p) = {}
    BY <1>2, PositionFacts DEF From
  <2>2. \A p \in Prefix : From("cymru", p)' = {}
    BY <1>2, <2>1, FromAfter
  <2>3. \A p \in Prefix : bogons[p] # "Unallocated"
    BY <2>1 DEF DatasetInv, BogonsInv
  <2>4. ASSUME NEW p \in Prefix
        PROVE  /\ bogons'[p] = "SpecialUse" <=> From("iana", p)' # {}
               /\ bogons'[p] # "Unallocated"
    <3>1. bogons[p] = "SpecialUse" <=> From("iana", p) # {}
      BY DEF DatasetInv, BogonsInv
    <3>2. CASE p = line.at
      BY <1>2, <1>3, <1>4, <3>2, FromAfter DEF DatasetInv, TypeOK
    <3>3. CASE p # line.at
      <4>1. bogons'[p] = bogons[p]
        BY <1>3, <1>4, <3>3 DEF DatasetInv, TypeOK
      <4>2. From("iana", p)' = From("iana", p)
        BY <1>2, <3>3, FromAfter
      <4> QED
        BY <2>3, <3>1, <4>1, <4>2
    <3> QED
      BY <3>2, <3>3
  <2> QED
    BY <2>2, <2>4 DEF BogonsInv
<1>7. ReadersInv'
  BY <1>1, <1>2, ReadersKept
<1>8. AsnsInv'
  BY <1>1, <1>2, AsnsKept DEF AsnSource
<1>9. PrefixesInv'
  BY <1>1, <1>2, PrefixesKept DEF PrefixSource, CloudSource
<1>10. IpsInv'
  BY <1>1, <1>2, IpsKept DEF AddrSource
<1> QED
  BY <1>2, <1>5, <1>6, <1>7, <1>8, <1>9, <1>10 DEF DatasetInv

(* A prefix of Cymru's: it is left out when it is under one of the table.                     *)
LEMMA InsertUnallocatedStep ==
  ASSUME DatasetInv, NEW line \in rest, InsertUnallocated(line)
  PROVE  DatasetInv'
<1>1. Take(line, {"cymru"}) /\ UNCHANGED <<readers, asns, prefixes, ips>>
  BY DEF InsertUnallocated
<1>2. /\ line \in Listing /\ input' = input /\ rest' \subseteq input
      /\ Inserted' = Inserted \cup {line} /\ InOrder'
      /\ line.source = "cymru"
  BY <1>1, TakeFacts
<1>3. line.at \in Prefix
  BY <1>2, LineFacts DEF BogonSource
<1>4. bogons \in [Prefix -> {"none", "SpecialUse", "Unallocated"}]
  BY DEF DatasetInv, TypeOK
<1>5. TypeOK'
  BY <1>1, <1>2, <1>3 DEF DatasetInv, TypeOK, InsertUnallocated
<1>6. \A p \in Prefix :
        /\ From("iana", p)' = From("iana", p)
        /\ p = line.at => From("cymru", p)' # {}
        /\ p # line.at => From("cymru", p)' = From("cymru", p)
  BY <1>2, FromAfter
<1>7. BogonsInv'
  <2>1. CASE HasSupernet(line.at)
    <3>1. bogons' = bogons
      BY <2>1 DEF InsertUnallocated
    <3>2. \A p \in Prefix : From("cymru", p) # {} => From("cymru", p)' # {}
      BY <1>6
    <3> QED
      BY <1>6, <2>1, <3>1, <3>2 DEF DatasetInv, BogonsInv, HasSupernet
  <2>2. CASE ~HasSupernet(line.at)
    <3>1. bogons' = [bogons EXCEPT ![line.at] = "Unallocated"]
      BY <2>2 DEF InsertUnallocated
    <3>2. \A q \in Prefix : line.at \subseteq q => bogons[q] = "none"
      BY <2>2 DEF HasSupernet
    <3>3. /\ bogons[line.at] = "none" /\ bogons'[line.at] = "Unallocated"
          /\ \A q \in Prefix : q # line.at => bogons'[q] = bogons[q]
      BY <1>3, <1>4, <3>1, <3>2
    <3>4. ASSUME NEW p \in Prefix
          PROVE  bogons'[p] = "SpecialUse" <=> From("iana", p)' # {}
      BY <1>6, <3>3 DEF DatasetInv, BogonsInv
    <3>5. ASSUME NEW p \in Prefix, bogons'[p] = "Unallocated"
          PROVE  /\ From("cymru", p)' # {}
                 /\ \A q \in Prefix : p \subseteq q => bogons'[q] # "SpecialUse"
      <4>1. CASE p = line.at
        BY <1>6, <3>2, <3>3, <4>1
      <4>2. CASE p # line.at
        BY <1>6, <3>3, <3>5, <4>2 DEF DatasetInv, BogonsInv
      <4> QED
        BY <4>1, <4>2
    <3>6. ASSUME NEW p \in Prefix, From("cymru", p)' # {}
          PROVE  HasSupernet(p)'
      <4>1. CASE p = line.at
        BY <1>3, <3>3, <4>1 DEF HasSupernet
      <4>2. CASE p # line.at
        <5>1. PICK q \in Prefix : p \subseteq q /\ bogons[q] # "none"
          BY <1>6, <3>6, <4>2 DEF DatasetInv, BogonsInv, HasSupernet
        <5>2. bogons'[q] # "none"
          BY <3>3, <5>1
        <5> QED
          BY <5>1, <5>2 DEF HasSupernet
      <4> QED
        BY <4>1, <4>2
    <3> QED
      BY <3>4, <3>5, <3>6 DEF BogonsInv
  <2> QED
    BY <2>1, <2>2
<1>8. ReadersInv'
  BY <1>1, <1>2, ReadersKept
<1>9. AsnsInv'
  BY <1>1, <1>2, AsnsKept DEF AsnSource
<1>10. PrefixesInv'
  BY <1>1, <1>2, PrefixesKept DEF PrefixSource, CloudSource
<1>11. IpsInv'
  BY <1>1, <1>2, IpsKept DEF AddrSource
<1> QED
  BY <1>2, <1>5, <1>7, <1>8, <1>9, <1>10, <1>11 DEF DatasetInv

(* What a line makes of an entry: the entry of its own line alone.                          *)
LEMMA EntryOfFacts ==
  ASSUME NEW line \in Listing, line.source \in PrefixSource \cup {"ipverseBlocks"}
  PROVE  /\ EntryOf(line) \in Entry
         /\ EntryOf(line).asn = line.of
         /\ EntryOf(line).cloud = IF line.source \in CloudSource THEN {line} ELSE {}
         /\ line.source = "ipverseBlocks" => EntryOf(line).flags = {}
<1>1. line.of \in ASN \cup {NoASN}
  BY LineFacts
<1>2. EntryOf(line).flags \subseteq Flag
  BY DEF EntryOf, Flag
<1> QED
  BY <1>1, <1>2 DEF EntryOf, Entry, PrefixSource, CloudSource, Flag

(* A prefix with flags, an ASN or a cloud: the first ASN and the first cloud stay.                  *)
LEMMA InsertPrefixStep ==
  ASSUME DatasetInv, NEW line \in rest, InsertPrefix(line)
  PROVE  DatasetInv'
<1>1. /\ Take(line, PrefixSource \cup {"ipverseBlocks"})
      /\ UNCHANGED <<readers, asns, bogons, ips>>
  BY DEF InsertPrefix
<1>2. /\ line \in Listing /\ input' = input /\ rest' \subseteq input
      /\ Inserted' = Inserted \cup {line} /\ InOrder'
      /\ line.source \in PrefixSource \cup {"ipverseBlocks"}
      /\ \A done \in Inserted : Position(done.source) <= Position(line.source)
  BY <1>1, TakeFacts
<1>3. line.at \in Prefix
  BY <1>2, LineFacts
<1> DEFINE old == prefixes[line.at]
           new == Merge(old, EntryOf(line))
<1>4. prefixes' = [prefixes EXCEPT ![line.at] = new]
  BY DEF InsertPrefix
<1>5. old \in Entry /\ EntryOf(line) \in Entry
  BY <1>2, <1>3, EntryOfFacts DEF DatasetInv, TypeOK
<1>6. /\ new \in Entry
      /\ new.flags = old.flags \cup EntryOf(line).flags
      /\ new.asn = IF old.asn = NoASN THEN line.of ELSE old.asn
      /\ new.cloud = IF old.cloud = {} THEN EntryOf(line).cloud ELSE old.cloud
  BY <1>2, <1>5, EntryOfFacts DEF Merge, Entry
<1> HIDE DEF old, new
<1>7. /\ prefixes'[line.at] = new
      /\ \A p \in Prefix : p # line.at => prefixes'[p] = prefixes[p]
  BY <1>3, <1>4 DEF DatasetInv, TypeOK
<1>8. TypeOK'
  BY <1>1, <1>2, <1>3, <1>4, <1>6 DEF DatasetInv, TypeOK
<1>9. PrefixesInv'
  <2> SUFFICES ASSUME NEW p \in Prefix
               PROVE  EntryInv(p)'
    BY DEF PrefixesInv
  <2>1. EntryInv(p)
    BY DEF DatasetInv, PrefixesInv
  <2>2. CASE p # line.at
    <3>1. \A s \in PrefixSource \cup {"ipverseBlocks"} : From(s, p)' = From(s, p)
      BY <1>2, <2>2, FromAfter
    <3>2. ASSUME NEW f \in Flag
          PROVE  (f \in prefixes[p].flags <=> \E l \in Inserted :
                    l.source \in PrefixSource /\ l.at = p /\ f \in EntryOf(l).flags)'
      BY <1>2, <1>7, <2>1, <2>2 DEF EntryInv
    <3>3. /\ From("ipverseBlocks", p)' = From("ipverseBlocks", p)
          /\ From("rezmoss", p)' = From("rezmoss", p)
          /\ From("tobilg", p)' = From("tobilg", p)
      BY <3>1 DEF PrefixSource, CloudSource
    <3> QED
      BY <1>7, <2>1, <2>2, <3>2, <3>3 DEF EntryInv
  <2>3. CASE p = line.at
    <3>1. ASSUME NEW f \in Flag
          PROVE  (f \in prefixes[p].flags <=> \E l \in Inserted :
                    l.source \in PrefixSource /\ l.at = p /\ f \in EntryOf(l).flags)'
      <4>1. f \in prefixes[p].flags <=> \E l \in Inserted :
              l.source \in PrefixSource /\ l.at = p /\ f \in EntryOf(l).flags
        BY <2>1 DEF EntryInv
      <4>2. prefixes'[p].flags = prefixes[p].flags \cup EntryOf(line).flags
        BY <1>6, <1>7, <2>3 DEF old
      <4>3. line.source \notin PrefixSource => EntryOf(line).flags = {}
        BY <1>2, EntryOfFacts
      <4> QED
        BY <1>2, <2>3, <4>1, <4>2, <4>3
    <3>2. /\ prefixes'[p].asn = NoASN => From("ipverseBlocks", p)' = {}
          /\ prefixes'[p].asn # NoASN =>
               \E l \in From("ipverseBlocks", p)' : l.of = prefixes'[p].asn
      <4>1. CASE line.source = "ipverseBlocks"
        <5>1. From("ipverseBlocks", p)' = From("ipverseBlocks", p) \cup {line} /\ line.of # NoASN
          BY <1>2, <2>3, <4>1, FromAfter, LineFacts, AsnAssumption
        <5> QED
          BY <1>6, <1>7, <2>1, <2>3, <5>1 DEF EntryInv, old
      <4>2. CASE line.source # "ipverseBlocks"
        <5>1. From("ipverseBlocks", p)' = From("ipverseBlocks", p) /\ line.of = NoASN
          BY <1>2, <4>2, FromAfter, LineFacts
        <5> QED
          BY <1>6, <1>7, <2>1, <2>3, <5>1 DEF EntryInv, old
      <4> QED
        BY <4>1, <4>2
    <3>3. prefixes'[p].cloud =
            IF From("rezmoss", p)' # {} THEN From("rezmoss", p)' ELSE From("tobilg", p)'
      <4>1. prefixes[p].cloud =
              IF From("rezmoss", p) # {} THEN From("rezmoss", p) ELSE From("tobilg", p)
        BY <2>1 DEF EntryInv
      <4>2. prefixes'[p].cloud =
              IF prefixes[p].cloud = {} THEN EntryOf(line).cloud ELSE prefixes[p].cloud
        BY <1>6, <1>7, <2>3 DEF old
      <4>3. CASE line.source = "rezmoss"
        <5>1. From("rezmoss", p) = {} /\ EntryOf(line).cloud = {line}
          BY <1>2, <2>3, <4>3, OnlyOnce, EntryOfFacts DEF CloudSource
        <5>2. From("tobilg", p) = {}
          BY <1>2, <4>3, PositionFacts DEF From
        <5>3. From("rezmoss", p)' = {line}
          BY <1>2, <2>3, <4>3, <5>1, FromAfter
        <5> QED
          BY <4>1, <4>2, <5>1, <5>2, <5>3
      <4>4. CASE line.source = "tobilg"
        <5>1. From("tobilg", p) = {} /\ EntryOf(line).cloud = {line}
          BY <1>2, <2>3, <4>4, OnlyOnce, EntryOfFacts DEF CloudSource
        <5>2. From("rezmoss", p)' = From("rezmoss", p) /\ From("tobilg", p)' = {line}
          BY <1>2, <2>3, <4>4, <5>1, FromAfter
        <5> QED
          BY <4>1, <4>2, <5>1, <5>2
      <4>5. CASE line.source \notin CloudSource
        <5>1. EntryOf(line).cloud = {}
          BY <1>2, <4>5, EntryOfFacts
        <5>2. From("rezmoss", p)' = From("rezmoss", p) /\ From("tobilg", p)' = From("tobilg", p)
          BY <1>2, <4>5, FromAfter DEF CloudSource
        <5> QED
          BY <4>1, <4>2, <5>1, <5>2
      <4> QED
        BY <4>3, <4>4, <4>5 DEF CloudSource
    <3> QED
      BY <3>1, <3>2, <3>3 DEF EntryInv
  <2> QED
    BY <2>2, <2>3
<1>10. ReadersInv'
  BY <1>1, <1>2, ReadersKept DEF PrefixSource, CloudSource
<1>11. AsnsInv'
  BY <1>1, <1>2, AsnsKept DEF AsnSource, PrefixSource, CloudSource
<1>12. BogonsInv'
  BY <1>1, <1>2, BogonsKept DEF BogonSource, PrefixSource, CloudSource
<1>13. IpsInv'
  BY <1>1, <1>2, IpsKept DEF AddrSource, PrefixSource, CloudSource
<1> QED
  BY <1>2, <1>8, <1>9, <1>10, <1>11, <1>12, <1>13 DEF DatasetInv

(* A line about an address: all of torFull's come before torExit's.                           *)
LEMMA InsertIPStep ==
  ASSUME DatasetInv, NEW line \in rest, InsertIP(line)
  PROVE  DatasetInv'
<1>1. Take(line, AddrSource) /\ UNCHANGED <<readers, asns, bogons, prefixes>>
  BY DEF InsertIP
<1>2. /\ line \in Listing /\ input' = input /\ rest' \subseteq input
      /\ Inserted' = Inserted \cup {line} /\ InOrder'
      /\ line.source \in AddrSource
      /\ \A done \in Inserted : Position(done.source) <= Position(line.source)
  BY <1>1, TakeFacts
<1>3. line.at \in Addr
  BY <1>2, LineFacts
<1> DEFINE new == (IF line.source = "torExit" THEN ips[line.at] \ {"TorRelay"} ELSE ips[line.at])
                  \cup {IPFlag[line.source]}
<1>4. ips' = [ips EXCEPT ![line.at] = new]
  BY DEF InsertIP
<1>5. ips[line.at] \subseteq {"TorExit", "TorRelay", "VPN", "ProxyLowConf"}
  BY <1>3 DEF DatasetInv, IpsInv
<1>6. new \subseteq {"TorExit", "TorRelay", "VPN", "ProxyLowConf"}
  BY <1>2, <1>5 DEF AddrSource, IPFlag
<1>7. /\ ips'[line.at] = new
      /\ \A a \in Addr : a # line.at => ips'[a] = ips[a]
  BY <1>3, <1>4 DEF DatasetInv, TypeOK
<1>8. TypeOK'
  <2>1. new \in SUBSET Flag
    BY <1>6 DEF Flag
  <2> HIDE DEF new
  <2> QED
    BY <1>1, <1>2, <1>3, <1>4, <2>1 DEF DatasetInv, TypeOK
<1>9. IpsInv'
  <2> SUFFICES ASSUME NEW a \in Addr
               PROVE  /\ ips'[a] \subseteq {"TorExit", "TorRelay", "VPN", "ProxyLowConf"}
                      /\ "TorExit" \in ips'[a] <=> From("torExit", a)' # {}
                      /\ "TorRelay" \in ips'[a] <=>
                           From("torFull", a)' # {} /\ From("torExit", a)' = {}
                      /\ "VPN" \in ips'[a] <=> From("az0VPN", a)' # {}
                      /\ "ProxyLowConf" \in ips'[a] <=> From("avastelAddrs", a)' # {}
    BY DEF IpsInv
  <2>1. /\ ips[a] \subseteq {"TorExit", "TorRelay", "VPN", "ProxyLowConf"}
        /\ "TorExit" \in ips[a] <=> From("torExit", a) # {}
        /\ "TorRelay" \in ips[a] <=> From("torFull", a) # {} /\ From("torExit", a) = {}
        /\ "VPN" \in ips[a] <=> From("az0VPN", a) # {}
        /\ "ProxyLowConf" \in ips[a] <=> From("avastelAddrs", a) # {}
    BY DEF DatasetInv, IpsInv
  <2>2. \A s \in AddrSource :
          From(s, a)' = IF line.source = s /\ line.at = a THEN From(s, a) \cup {line} ELSE From(s, a)
    BY <1>2, FromAfter
  <2>3. CASE a # line.at
    BY <1>7, <2>1, <2>2, <2>3 DEF AddrSource
  <2>4. CASE a = line.at
    <3>1. CASE line.source = "torFull"
      <4>1. From("torExit", a) = {}
        BY <1>2, <3>1, PositionFacts DEF From
      <4>2. ips'[a] = ips[a] \cup {"TorRelay"}
        BY <1>7, <2>4, <3>1 DEF IPFlag
      <4>3. From("torFull", a)' # {}
        BY <2>2, <2>4, <3>1 DEF AddrSource
      <4>4. \A s \in AddrSource \ {"torFull"} : From(s, a)' = From(s, a)
        BY <2>2, <3>1
      <4> QED
        BY <2>1, <4>1, <4>2, <4>3, <4>4 DEF AddrSource
    <3>2. CASE line.source = "torExit"
      <4>1. ips'[a] = (ips[a] \ {"TorRelay"}) \cup {"TorExit"}
        BY <1>7, <2>4, <3>2 DEF IPFlag
      <4>2. From("torExit", a)' # {}
        BY <2>2, <2>4, <3>2 DEF AddrSource
      <4>3. \A s \in AddrSource \ {"torExit"} : From(s, a)' = From(s, a)
        BY <2>2, <3>2
      <4> QED
        BY <2>1, <4>1, <4>2, <4>3 DEF AddrSource
    <3>3. CASE line.source = "az0VPN"
      <4>1. ips'[a] = ips[a] \cup {"VPN"}
        BY <1>7, <2>4, <3>3 DEF IPFlag
      <4>2. From("az0VPN", a)' # {}
        BY <2>2, <2>4, <3>3 DEF AddrSource
      <4>3. \A s \in AddrSource \ {"az0VPN"} : From(s, a)' = From(s, a)
        BY <2>2, <3>3
      <4> QED
        BY <2>1, <4>1, <4>2, <4>3 DEF AddrSource
    <3>4. CASE line.source = "avastelAddrs"
      <4>1. ips'[a] = ips[a] \cup {"ProxyLowConf"}
        BY <1>7, <2>4, <3>4 DEF IPFlag
      <4>2. From("avastelAddrs", a)' # {}
        BY <2>2, <2>4, <3>4 DEF AddrSource
      <4>3. \A s \in AddrSource \ {"avastelAddrs"} : From(s, a)' = From(s, a)
        BY <2>2, <3>4
      <4> QED
        BY <2>1, <4>1, <4>2, <4>3 DEF AddrSource
    <3> QED
      BY <1>2, <3>1, <3>2, <3>3, <3>4 DEF AddrSource
  <2> QED
    BY <2>3, <2>4
<1>10. ReadersInv'
  BY <1>1, <1>2, ReadersKept DEF AddrSource
<1>11. AsnsInv'
  BY <1>1, <1>2, AsnsKept DEF AsnSource, AddrSource
<1>12. BogonsInv'
  BY <1>1, <1>2, BogonsKept DEF BogonSource, AddrSource
<1>13. PrefixesInv'
  BY <1>1, <1>2, PrefixesKept DEF AddrSource, PrefixSource, CloudSource
<1> QED
  BY <1>2, <1>8, <1>9, <1>10, <1>11, <1>12, <1>13 DEF DatasetInv

-----------------------------------------------------------------------------
(* The tables of a dataset hold what the lines inserted so far say, in every state.          *)
THEOREM TablesHoldInserted == Spec => []DatasetInv
<1>1. Init => DatasetInv
  <2> SUFFICES ASSUME Init PROVE DatasetInv
    OBVIOUS
  <2>1. Inserted = {} /\ \A s, x : From(s, x) = {}
    BY DEF Init, Inserted, From
  <2>2. TypeOK
    BY InputsAssumption DEF Init, TypeOK, NewEntry, Entry
  <2>3. InOrder /\ ReadersInv
    BY <2>1 DEF InOrder, ReadersInv, Init
  <2>4. AsnsInv
    BY <2>1 DEF AsnsInv, Init
  <2>5. BogonsInv
    BY <2>1 DEF BogonsInv, Init
  <2>6. PrefixesInv
    BY <2>1 DEF PrefixesInv, EntryInv, Init, NewEntry
  <2>7. IpsInv
    BY <2>1 DEF IpsInv, Init
  <2> QED
    BY <2>2, <2>3, <2>4, <2>5, <2>6, <2>7 DEF DatasetInv
<1>2. DatasetInv /\ [Next]_vars => DatasetInv'
  <2> SUFFICES ASSUME DatasetInv, [Next]_vars PROVE DatasetInv'
    OBVIOUS
  <2>1. CASE Next
    <3>1. PICK line \in rest :
            \/ AssignReader(line) \/ InsertASN(line)
            \/ InsertSpecial(line) \/ InsertUnallocated(line)
            \/ InsertPrefix(line) \/ InsertIP(line)
      BY <2>1 DEF Next
    <3> QED
      BY <3>1, AssignReaderStep, InsertASNStep, InsertSpecialStep, InsertUnallocatedStep,
         InsertPrefixStep, InsertIPStep
  <2>2. CASE UNCHANGED vars
    <3>1. UNCHANGED <<input, rest, readers, asns, bogons, prefixes, ips>>
      BY <2>2 DEF vars, tables
    <3>2. Inserted' = Inserted
      BY <3>1 DEF Inserted
    <3>3. TypeOK' /\ InOrder' /\ ReadersInv'
      BY <3>1, <3>2 DEF DatasetInv, TypeOK, InOrder, ReadersInv
    <3>4. AsnsInv'
      BY <3>1, <3>2 DEF DatasetInv, AsnsInv, From
    <3>5. BogonsInv'
      BY <3>1, <3>2 DEF DatasetInv, BogonsInv, From, HasSupernet
    <3>6. PrefixesInv'
      BY <3>1, <3>2 DEF DatasetInv, PrefixesInv, EntryInv, From
    <3>7. IpsInv'
      BY <3>1, <3>2 DEF DatasetInv, IpsInv, From
    <3> QED
      BY <3>3, <3>4, <3>5, <3>6, <3>7 DEF DatasetInv
  <2> QED
    BY <2>1, <2>2
<1> QED
  BY <1>1, <1>2, PTL DEF Spec

-----------------------------------------------------------------------------
(* A complete dataset *)

(* All lines are inserted when none is left.                                          *)
LEMMA CompleteFacts ==
  ASSUME DatasetInv, rest = {}
  PROVE  /\ Inserted = input
         /\ \A source, x : From(source, x) = SaysOf(source, x)
         /\ \A source \in {"geoReader", "asnReader"} : \A x : Record(source, x) = SaysOf(source, x)
<1>1. Inserted = input
  BY DEF Inserted
<1>2. \A source, x : From(source, x) = SaysOf(source, x)
  BY <1>1 DEF From, SaysOf
<1>3. \A source \in {"geoReader", "asnReader"} : \A x : Record(source, x) = SaysOf(source, x)
  BY <1>1 DEF DatasetInv, ReadersInv, Record, SaysOf
<1> QED
  BY <1>1, <1>2, <1>3

(* What a source of prefixes says of an address is what it says of the prefixes that cover it.     *)
LEMMA SaysFacts ==
  ASSUME DatasetInv, rest = {}, NEW a \in Addr,
         NEW source \in BogonSource \cup PrefixSource \cup {"ipverseBlocks"}
  PROVE  /\ \A line \in Says(source, a) :
              line.at \in Covering(a) /\ line \in From(source, line.at)
         /\ \A p \in Covering(a) : From(source, p) \subseteq Says(source, a)
<1>1. ASSUME NEW line \in Says(source, a)
      PROVE  line.at \in Covering(a) /\ line \in From(source, line.at)
  <2>1. line \in input /\ line.source = source /\ a \in line.at
    BY DEF Says
  <2>2. line.at \in Prefix
    BY <2>1, LineFacts DEF DatasetInv, TypeOK
  <2> QED
    BY <2>1, <2>2, CompleteFacts DEF Covering, SaysOf
<1>2. \A p \in Covering(a) : From(source, p) \subseteq Says(source, a)
  BY CompleteFacts DEF Covering, SaysOf, Says
<1> QED
  BY <1>1, <1>2

(* No source but ipverse's blocks says two things of one place.                            *)
LEMMA SaidOnce ==
  ASSUME DatasetInv, rest = {}, NEW source, source # "ipverseBlocks", NEW at,
         NEW x \in From(source, at), NEW y \in From(source, at)
  PROVE  x = y
BY CompleteFacts DEF SaysOf, DatasetInv, TypeOK, WellFormed

(* The prefixes of the table that cover an address.                                       *)
Bogons(a) == {p \in Covering(a) : bogons[p] # "none"}

(* The table of special and unallocated prefixes: IANA's are all there, and one of Cymru's is    *)
(* there, or under one that is.                                                     *)
LEMMA BogonFacts ==
  ASSUME DatasetInv, rest = {}, NEW a \in Addr
  PROVE  /\ {line.at : line \in Says("iana", a)} = {p \in Covering(a) : bogons[p] = "SpecialUse"}
         /\ Bogons(a) = {} <=> Says("iana", a) = {} /\ Says("cymru", a) = {}
         /\ Bogons(a) # {} =>
              /\ Nearest(Bogons(a)) \in Bogons(a)
              /\ \A q \in Bogons(a) : Nearest(Bogons(a)) \subseteq q
              /\ bogons[Nearest(Bogons(a))] =
                   IF Says("iana", a) # {} THEN "SpecialUse" ELSE "Unallocated"
<1> DEFINE special == {p \in Covering(a) : bogons[p] = "SpecialUse"}
           nearest == Nearest(Bogons(a))
<1>1. {line.at : line \in Says("iana", a)} = special
  <2>1. ASSUME NEW line \in Says("iana", a) PROVE line.at \in special
    BY SaysFacts DEF BogonSource, DatasetInv, BogonsInv, Covering
  <2>2. ASSUME NEW p \in special PROVE p \in {line.at : line \in Says("iana", a)}
    <3>1. From("iana", p) # {}
      BY DEF DatasetInv, BogonsInv, Covering
    <3>2. PICK line \in Says("iana", a) : line.at = p
      BY <3>1, SaysFacts DEF BogonSource, From
    <3> QED
      BY <3>2
  <2> QED
    BY <2>1, <2>2
<1>2. Says("iana", a) # {} <=> special # {}
  BY <1>1
<1>3. ASSUME NEW line \in Says("cymru", a) PROVE Bogons(a) # {}
  <2>1. line.at \in Covering(a) /\ From("cymru", line.at) # {}
    BY SaysFacts DEF BogonSource
  <2>2. PICK q \in Prefix : line.at \subseteq q /\ bogons[q] # "none"
    BY <2>1 DEF DatasetInv, BogonsInv, HasSupernet, Covering
  <2>3. q \in Bogons(a)
    BY <2>1, <2>2 DEF Covering, Bogons
  <2> QED
    BY <2>3
<1>4. ASSUME NEW p \in Bogons(a), bogons[p] # "SpecialUse"
      PROVE  bogons[p] = "Unallocated" /\ Says("cymru", a) # {}
  <2>1. p \in Covering(a) /\ p \in Prefix /\ bogons[p] = "Unallocated"
    BY <1>4 DEF Bogons, Covering, DatasetInv, TypeOK
  <2>2. From("cymru", p) # {}
    BY <2>1 DEF DatasetInv, BogonsInv
  <2> QED
    BY <2>1, <2>2, SaysFacts DEF BogonSource
<1>5. special \subseteq Bogons(a)
  BY DEF Bogons
<1>6. Bogons(a) = {} <=> Says("iana", a) = {} /\ Says("cymru", a) = {}
  <2>1. Bogons(a) = {} => Says("iana", a) = {} /\ Says("cymru", a) = {}
    BY <1>2, <1>3, <1>5
  <2>2. Bogons(a) # {} => Says("iana", a) # {} \/ Says("cymru", a) # {}
    BY <1>2, <1>4 DEF Bogons
  <2> QED
    BY <2>1, <2>2
<1>7. ASSUME Bogons(a) # {}
      PROVE  /\ nearest \in Bogons(a)
             /\ \A q \in Bogons(a) : nearest \subseteq q
             /\ bogons[nearest] = IF Says("iana", a) # {} THEN "SpecialUse" ELSE "Unallocated"
  <2>1. nearest \in Bogons(a) /\ \A q \in Bogons(a) : nearest \subseteq q
    BY <1>7, NarrowestExists DEF Bogons
  <2> HIDE DEF nearest
  <2>2. nearest \in Covering(a) /\ nearest \in Prefix
    BY <2>1 DEF Bogons, Covering
  <2>3. CASE Says("iana", a) # {}
    <3>1. PICK q \in special : TRUE
      BY <1>2, <2>3
    <3>2. q \in Prefix /\ nearest \subseteq q /\ bogons[q] = "SpecialUse"
      BY <1>5, <2>1 DEF Covering
    <3>3. bogons[nearest] # "Unallocated"
      BY <2>2, <3>2 DEF DatasetInv, BogonsInv
    <3> QED
      BY <1>4, <2>1, <2>3, <3>3
  <2>4. CASE Says("iana", a) = {}
    <3>1. bogons[nearest] # "SpecialUse"
      BY <1>2, <2>2, <2>4
    <3> QED
      BY <1>4, <2>1, <2>4, <3>1
  <2> QED
    BY <2>1, <2>3, <2>4
<1> QED
  BY <1>1, <1>6, <1>7

(* What a lookup says first: of special use, unallocated or routable.                         *)
LEMMA KindFacts ==
  ASSUME DatasetInv, rest = {}, NEW a \in Addr
  PROVE  /\ Lookup(a).kind = IF Says("iana", a) # {} THEN "SpecialUse"
                             ELSE IF Says("cymru", a) # {} THEN "Unallocated" ELSE "Routable"
         /\ Lookup(a).special = {p \in {line.at : line \in Says("iana", a)} :
                                   \A q \in {line.at : line \in Says("iana", a)} : p \subseteq q}
         /\ Lookup(a).kind = "Routable" => Lookup(a) = RoutableResult(a)
<1> DEFINE special == {line.at : line \in Says("iana", a)}
           nearest == Nearest(Bogons(a))
           found == [kind |-> bogons[nearest], asn |-> NoASN, cloud |-> {}, flags |-> {},
                     special |-> IF bogons[nearest] = "SpecialUse" THEN {nearest} ELSE {}]
<1>1. Lookup(a) = IF Bogons(a) = {} THEN RoutableResult(a) ELSE found
  BY DEF Lookup, Bogons
<1>2. special = {p \in Covering(a) : bogons[p] = "SpecialUse"}
  BY BogonFacts
<1>3. Says("iana", a) # {} <=> special # {}
  OBVIOUS
<1>4. CASE Bogons(a) = {}
  <2>1. Says("iana", a) = {} /\ Says("cymru", a) = {} /\ Lookup(a) = RoutableResult(a)
    BY <1>1, <1>4, BogonFacts
  <2>2. RoutableResult(a).kind = "Routable" /\ RoutableResult(a).special = {}
    BY DEF RoutableResult
  <2> QED
    BY <2>1, <2>2
<1>5. CASE Bogons(a) # {}
  <2>1. /\ nearest \in Bogons(a)
        /\ \A q \in Bogons(a) : nearest \subseteq q
        /\ bogons[nearest] = IF Says("iana", a) # {} THEN "SpecialUse" ELSE "Unallocated"
        /\ Says("iana", a) # {} \/ Says("cymru", a) # {}
    BY <1>5, BogonFacts
  <2> HIDE DEF nearest, special
  <2>2. /\ Lookup(a).kind = bogons[nearest]
        /\ Lookup(a).special = IF bogons[nearest] = "SpecialUse" THEN {nearest} ELSE {}
    BY <1>1, <1>5
  <2>3. special \subseteq Bogons(a)
    BY <1>2 DEF Bogons
  <2>4. Lookup(a).special = {p \in special : \A q \in special : p \subseteq q}
    <3>1. CASE Says("iana", a) = {}
      BY <1>3, <2>1, <2>2, <3>1
    <3>2. CASE Says("iana", a) # {}
      <4>1. nearest \in special
        BY <1>2, <2>1, <3>2 DEF Bogons
      <4>2. \A q \in special : nearest \subseteq q
        BY <2>1, <2>3
      <4>3. \A p \in special : p \subseteq nearest => p = nearest
        BY <4>2
      <4>4. {p \in special : \A q \in special : p \subseteq q} = {nearest}
        BY <4>1, <4>2, <4>3
      <4> QED
        BY <2>1, <2>2, <3>2, <4>4
    <3> QED
      BY <3>1, <3>2
  <2> QED
    BY <2>1, <2>2, <2>4 DEF special
<1> QED
  BY <1>4, <1>5

(* The narrowest of some lines about an address.                                       *)
Narrowest(lines) == {x \in lines : \A y \in lines : x.at \subseteq y.at}

(* The cloud of an address is that of its narrowest prefix with one, rezmoss's before tobilg's.    *)
LEMMA CloudFacts ==
  ASSUME DatasetInv, rest = {}, NEW a \in Addr
  PROVE  LET clouds == Says("rezmoss", a) \cup Says("tobilg", a)
         IN CloudOf(a) = {x \in Narrowest(clouds) :
                            x.source = "rezmoss" \/ \A y \in Narrowest(clouds) : x = y}
<1> DEFINE clouds == Says("rezmoss", a) \cup Says("tobilg", a)
           nearest == Nearest(WithCloud(a))
<1>1. {"rezmoss", "tobilg"} \subseteq BogonSource \cup PrefixSource \cup {"ipverseBlocks"}
  BY DEF PrefixSource, CloudSource
<1>2. ASSUME NEW p \in Covering(a)
      PROVE  /\ prefixes[p].cloud =
                  IF From("rezmoss", p) # {} THEN From("rezmoss", p) ELSE From("tobilg", p)
             /\ p \in WithCloud(a) <=> From("rezmoss", p) # {} \/ From("tobilg", p) # {}
  BY DEF DatasetInv, PrefixesInv, EntryInv, Covering, WithCloud
<1>3. ASSUME NEW x \in clouds
      PROVE  /\ x.at \in WithCloud(a)
             /\ x \in From("rezmoss", x.at) \cup From("tobilg", x.at)
  BY <1>1, <1>2, SaysFacts
<1>4. ASSUME NEW p \in Covering(a)
      PROVE  From("rezmoss", p) \cup From("tobilg", p) \subseteq clouds
  BY <1>1, SaysFacts
<1> HIDE DEF clouds
<1>5. CASE WithCloud(a) = {}
  <2>1. clouds = {}
    BY <1>3, <1>5
  <2> QED
    BY <1>5, <2>1 DEF CloudOf, Narrowest, clouds
<1>6. CASE WithCloud(a) # {}
  <2>1. nearest \in WithCloud(a) /\ \A q \in WithCloud(a) : nearest \subseteq q
    BY <1>6, NarrowestExists DEF WithCloud
  <2>2. CloudOf(a) = prefixes[nearest].cloud
    BY <1>6 DEF CloudOf
  <2> HIDE DEF nearest
  <2>3. nearest \in Covering(a)
    BY <2>1 DEF WithCloud
  <2>4. PICK l \in From("rezmoss", nearest) \cup From("tobilg", nearest) : TRUE
    BY <1>2, <2>1, <2>3
  <2>5. l \in clouds /\ l.at = nearest
    BY <1>4, <2>3, <2>4 DEF From
  <2>6. Narrowest(clouds) = From("rezmoss", nearest) \cup From("tobilg", nearest)
    <3>1. ASSUME NEW x \in Narrowest(clouds)
          PROVE  x \in From("rezmoss", nearest) \cup From("tobilg", nearest)
      <4>1. x \in clouds /\ x.at \subseteq nearest
        BY <2>5 DEF Narrowest
      <4>2. nearest \subseteq x.at
        BY <1>3, <2>1, <4>1
      <4>3. x.at = nearest
        BY <4>1, <4>2
      <4> QED
        BY <1>3, <4>1, <4>3
    <3>2. ASSUME NEW x \in From("rezmoss", nearest) \cup From("tobilg", nearest)
          PROVE  x \in Narrowest(clouds)
      <4>1. x \in clouds /\ x.at = nearest
        BY <1>4, <2>3 DEF From
      <4>2. \A y \in clouds : nearest \subseteq y.at
        BY <1>3, <2>1
      <4> QED
        BY <4>1, <4>2 DEF Narrowest
    <3> QED
      BY <3>1, <3>2
  <2> DEFINE chosen == {x \in Narrowest(clouds) :
                          x.source = "rezmoss" \/ \A y \in Narrowest(clouds) : x = y}
  <2>7. \A x \in From("rezmoss", nearest) : x.source = "rezmoss"
    BY DEF From
  <2>8. \A x \in From("tobilg", nearest) : x.source = "tobilg"
    BY DEF From
  <2>9. CASE From("rezmoss", nearest) # {}
    <3>1. chosen = From("rezmoss", nearest)
      BY <2>6, <2>7, <2>8, <2>9
    <3> QED
      BY <1>2, <2>2, <2>3, <2>9, <3>1 DEF clouds
  <2>10. CASE From("rezmoss", nearest) = {}
    <3>1. \A x, y \in From("tobilg", nearest) : x = y
      BY SaidOnce
    <3>2. chosen = From("tobilg", nearest)
      BY <2>6, <2>10, <3>1
    <3> QED
      BY <1>2, <2>2, <2>3, <2>10, <3>2 DEF clouds
  <2> QED
    BY <2>9, <2>10
<1> QED
  BY <1>5, <1>6

(* The ASN of the nearest prefix that has one is one that announces the narrowest.              *)
LEMMA AnnouncedFacts ==
  ASSUME DatasetInv, rest = {}, NEW a \in Addr
  PROVE  /\ Says("ipverseBlocks", a) # {} =>
              /\ Announced(a) # NoASN
              /\ Announced(a) \in {line.of : line \in Narrowest(Says("ipverseBlocks", a))}
         /\ Says("ipverseBlocks", a) = {} => Announced(a) = NoASN
         /\ Announced(a) \in ASN \cup {NoASN}
<1> DEFINE nearest == Nearest(WithASN(a))
<1>1. ASSUME NEW p \in Covering(a)
      PROVE  /\ p \in WithASN(a) <=> From("ipverseBlocks", p) # {}
             /\ prefixes[p].asn \in ASN \cup {NoASN}
             /\ prefixes[p].asn # NoASN =>
                  \E line \in From("ipverseBlocks", p) : line.of = prefixes[p].asn
  BY DEF DatasetInv, TypeOK, Entry, PrefixesInv, EntryInv, Covering, WithASN
<1>2. \A x \in Says("ipverseBlocks", a) : x.at \in WithASN(a)
  BY <1>1, SaysFacts
<1>3. ASSUME NEW p \in Covering(a)
      PROVE  From("ipverseBlocks", p) \subseteq Says("ipverseBlocks", a)
  BY SaysFacts
<1>4. CASE WithASN(a) = {}
  BY <1>2, <1>4 DEF Announced
<1>5. CASE WithASN(a) # {}
  <2>1. nearest \in WithASN(a) /\ \A q \in WithASN(a) : nearest \subseteq q
    BY <1>5, NarrowestExists DEF WithASN
  <2>2. Announced(a) = prefixes[nearest].asn
    BY <1>5 DEF Announced
  <2> HIDE DEF nearest
  <2>3. nearest \in Covering(a) /\ prefixes[nearest].asn # NoASN
    BY <2>1 DEF WithASN
  <2>4. PICK line \in From("ipverseBlocks", nearest) : line.of = Announced(a)
    BY <1>1, <2>2, <2>3
  <2>5. line \in Says("ipverseBlocks", a) /\ line.at = nearest
    BY <1>3, <2>3 DEF From
  <2>6. line \in Narrowest(Says("ipverseBlocks", a))
    BY <1>2, <2>1, <2>5 DEF Narrowest
  <2> QED
    BY <1>1, <2>2, <2>3, <2>4, <2>5, <2>6
<1> QED
  BY <1>4, <1>5

(* The ASN of an address: announced, or GeoLite2's if nobody announces a prefix of it.           *)
LEMMA AsnOfFacts ==
  ASSUME DatasetInv, rest = {}, NEW a \in Addr
  PROVE  /\ Announced(a) # NoASN => AsnOf(a) = Announced(a)
         /\ Announced(a) = NoASN =>
              {AsnOf(a)} \ {NoASN} = {line.of : line \in SaysOf("asnReader", a)}
         /\ AsnOf(a) \in ASN \cup {NoASN}
<1> DEFINE recorded == {line.of : line \in SaysOf("asnReader", a)}
<1>1. recorded \subseteq ASN
  BY LineFacts DEF SaysOf, DatasetInv, TypeOK
<1>2. \A x, y \in recorded : x = y
  <2>1. \A x, y \in SaysOf("asnReader", a) : x = y
    BY SaidOnce, CompleteFacts
  <2> QED
    BY <2>1
<1>3. Announced(a) = NoASN => RecordedASN(a) = recorded
  BY CompleteFacts DEF RecordedASN
<1>4. Announced(a) \in ASN \cup {NoASN}
  BY AnnouncedFacts
<1> HIDE DEF recorded
<1>5. CASE Announced(a) # NoASN
  BY <1>4, <1>5 DEF AsnOf
<1>6. CASE Announced(a) = NoASN /\ recorded = {}
  BY <1>3, <1>6 DEF AsnOf, recorded
<1>7. CASE Announced(a) = NoASN /\ recorded # {}
  <2>1. AsnOf(a) \in recorded
    BY <1>3, <1>7 DEF AsnOf
  <2>2. recorded = {AsnOf(a)}
    BY <1>2, <2>1
  <2> QED
    BY <1>1, <1>7, <2>1, <2>2, AsnAssumption DEF recorded
<1> QED
  BY <1>5, <1>6, <1>7

-----------------------------------------------------------------------------
(* What a lookup in a complete dataset says of the kind, the cloud and the ASN of an address is *)
(* what the narrowest of the prefixes that the sources list it under says.                    *)
THEOREM LookupIsNearest == Spec => []FactsAreNearest
<1>1. DatasetInv => FactsAreNearest
  <2> SUFFICES ASSUME DatasetInv, rest = {}
               PROVE  FactsAreNearest
    BY DEF FactsAreNearest
  <2>1. ASSUME NEW a \in Addr
        PROVE  Lookup(a).kind = IF {line.at : line \in Says("iana", a)} # {} THEN "SpecialUse"
                 ELSE IF Says("cymru", a) # {} THEN "Unallocated" ELSE "Routable"
    <3>1. {line.at : line \in Says("iana", a)} # {} <=> Says("iana", a) # {}
      OBVIOUS
    <3> QED
      BY <3>1, KindFacts
  <2>2. ASSUME NEW a \in Addr
        PROVE  Lookup(a).special = {p \in {line.at : line \in Says("iana", a)} :
                                      \A q \in {line.at : line \in Says("iana", a)} : p \subseteq q}
    BY KindFacts
  <2>3. ASSUME NEW a \in Addr, Lookup(a).kind = "Routable"
        PROVE  Lookup(a).cloud = CloudOf(a) /\ Lookup(a).asn = AsnOf(a)
    <3>1. Lookup(a) = RoutableResult(a)
      BY <2>3, KindFacts
    <3> QED
      BY <3>1 DEF RoutableResult
  <2>4. ASSUME NEW a \in Addr, Lookup(a).kind = "Routable"
        PROVE  LET clouds == Says("rezmoss", a) \cup Says("tobilg", a)
               IN  Lookup(a).cloud = {x \in Narrowest(clouds) :
                     x.source = "rezmoss" \/ \A y \in Narrowest(clouds) : x = y}
    BY <2>3, <2>4, CloudFacts
  <2>5. ASSUME NEW a \in Addr, Lookup(a).kind = "Routable"
        PROVE  IF Says("ipverseBlocks", a) # {}
               THEN Lookup(a).asn \in {line.of : line \in Narrowest(Says("ipverseBlocks", a))}
               ELSE {Lookup(a).asn} \ {NoASN} = {line.of : line \in SaysOf("asnReader", a)}
    <3>1. Lookup(a).asn = AsnOf(a)
      BY <2>3, <2>5
    <3>2. CASE Says("ipverseBlocks", a) # {}
      BY <3>1, <3>2, AnnouncedFacts, AsnOfFacts
    <3>3. CASE Says("ipverseBlocks", a) = {}
      BY <3>1, <3>3, AnnouncedFacts, AsnOfFacts
    <3> QED
      BY <3>2, <3>3
  <2> QED
    BY <2>1, <2>2, <2>4, <2>5 DEF FactsAreNearest, Narrowest
<1> QED
  BY <1>1, TablesHoldInserted, PTL

-----------------------------------------------------------------------------
(* Flags *)

PrefixFlags(a) == UNION {prefixes[p].flags : p \in Covering(a)}

SanctionFlag == {"OFAC", "PossibleOFAC", "SanctionedCountry"}

(* What the prefixes of an address flag it with.                                       *)
LEMMA PrefixFlagsFacts ==
  ASSUME DatasetInv, rest = {}, NEW a \in Addr
  PROVE  /\ PrefixFlags(a) \subseteq {"VPN", "Datacenter", "ProxyHighConf"}
         /\ "VPN" \in PrefixFlags(a) <=> Says("x4bnetVPN", a) # {}
         /\ "ProxyHighConf" \in PrefixFlags(a) <=> Says("avastelPrefixes", a) # {}
         /\ "Datacenter" \in PrefixFlags(a) <=>
              \E source \in {"x4bnetDatacenter"} \cup CloudSource : Says(source, a) # {}
<1>1. ASSUME NEW f \in Flag
      PROVE  f \in PrefixFlags(a) <=>
               \E line \in input : /\ line.source \in PrefixSource
                                   /\ a \in line.at
                                   /\ f \in EntryOf(line).flags
  <2>1. ASSUME NEW p \in Covering(a)
        PROVE  f \in prefixes[p].flags <=> \E line \in input :
                 line.source \in PrefixSource /\ line.at = p /\ f \in EntryOf(line).flags
    <3>1. p \in Prefix
      BY DEF Covering
    <3> QED
      BY <3>1, CompleteFacts DEF DatasetInv, PrefixesInv, EntryInv
  <2>2. ASSUME NEW line \in input, line.source \in PrefixSource, a \in line.at
        PROVE  line.at \in Covering(a)
    BY <2>2, LineFacts DEF DatasetInv, TypeOK, Covering
  <2>3. \A p \in Covering(a) : a \in p
    BY DEF Covering
  <2> QED
    BY <2>1, <2>2, <2>3 DEF PrefixFlags
<1>2. PrefixFlags(a) \subseteq Flag
  BY DEF PrefixFlags, DatasetInv, TypeOK, Entry, Covering
<1>3. ASSUME NEW line \in input, line.source \in PrefixSource
      PROVE  EntryOf(line).flags =
               CASE line.source = "x4bnetVPN" -> {"VPN"}
                 [] line.source \in {"x4bnetDatacenter"} \cup CloudSource -> {"Datacenter"}
                 [] line.source = "avastelPrefixes" -> {"ProxyHighConf"}
                 [] OTHER -> {}
  BY DEF EntryOf
<1>4. ASSUME NEW line \in input, line.source \in PrefixSource
      PROVE  /\ EntryOf(line).flags \subseteq {"VPN", "Datacenter", "ProxyHighConf"}
             /\ "VPN" \in EntryOf(line).flags <=> line.source = "x4bnetVPN"
             /\ "ProxyHighConf" \in EntryOf(line).flags <=> line.source = "avastelPrefixes"
             /\ "Datacenter" \in EntryOf(line).flags <=>
                  line.source \in {"x4bnetDatacenter"} \cup CloudSource
  BY <1>3, <1>4 DEF PrefixSource, CloudSource
<1>5. {"VPN", "Datacenter", "ProxyHighConf"} \subseteq Flag
  BY DEF Flag
<1>6. PrefixFlags(a) \subseteq {"VPN", "Datacenter", "ProxyHighConf"}
  BY <1>1, <1>2, <1>4
<1>7. "VPN" \in PrefixFlags(a) <=> Says("x4bnetVPN", a) # {}
  BY <1>1, <1>4, <1>5 DEF Says, PrefixSource
<1>8. "ProxyHighConf" \in PrefixFlags(a) <=> Says("avastelPrefixes", a) # {}
  BY <1>1, <1>4, <1>5 DEF Says, PrefixSource
<1>9. "Datacenter" \in PrefixFlags(a) <=>
        \E source \in {"x4bnetDatacenter"} \cup CloudSource : Says(source, a) # {}
  BY <1>1, <1>4, <1>5 DEF Says, PrefixSource
<1> QED
  BY <1>6, <1>7, <1>8, <1>9

(* What the sources of ASNs say of one.                                               *)
LEMMA FactsFacts ==
  ASSUME DatasetInv, rest = {}, NEW n \in ASN \cup {NoASN}
  PROVE  /\ Facts(n) \subseteq {"PossibleDatacenter", "Datacenter", "HighRiskASN"}
         /\ "PossibleDatacenter" \in Facts(n) <=> SaysOf("ipverseMetadata", n) # {}
         /\ "Datacenter" \in Facts(n) <=> SaysOf("umkus", n) # {}
         /\ "HighRiskASN" \in Facts(n) <=> SaysOf("bountyyfi", n) # {}
<1>1. CASE n = NoASN
  <2>1. \A line \in input : line.source \in AsnSource => line.at # NoASN
    BY LineFacts, AsnAssumption DEF DatasetInv, TypeOK
  <2> QED
    BY <1>1, <2>1 DEF Facts, SaysOf, AsnSource
<1>2. CASE n # NoASN
  <2>1. Facts(n) = {AsnFact[line.source] : line \in UNION {SaysOf(s, n) : s \in AsnSource}}
    BY <1>2, CompleteFacts DEF Facts, DatasetInv, AsnsInv
  <2>2. \A f : f \in Facts(n) <=> \E s \in AsnSource : SaysOf(s, n) # {} /\ f = AsnFact[s]
    BY <2>1 DEF SaysOf
  <2>3. /\ AsnFact["ipverseMetadata"] = "PossibleDatacenter"
        /\ AsnFact["umkus"] = "Datacenter"
        /\ AsnFact["bountyyfi"] = "HighRiskASN"
    BY DEF AsnFact
  <2>4. \A f : f \in Facts(n) <=>
          \/ f = "PossibleDatacenter" /\ SaysOf("ipverseMetadata", n) # {}
          \/ f = "Datacenter" /\ SaysOf("umkus", n) # {}
          \/ f = "HighRiskASN" /\ SaysOf("bountyyfi", n) # {}
    <3> HIDE DEF AsnFact
    <3> QED
      BY <2>2, <2>3 DEF AsnSource
  <2> QED
    BY <2>4
<1> QED
  BY <1>1, <1>2

(* What is known of an address before the confidence of proxies and sanctions are weighed.        *)
LEMMA KnownFacts ==
  ASSUME DatasetInv, rest = {}, NEW a \in Addr
  PROVE  LET listed == PrefixFlags(a) \cup ips[a] \cup Facts(AsnOf(a))
         IN /\ Known(a) \subseteq listed \cup {"PossibleDatacenter"}
            /\ listed \ {"PossibleDatacenter"} \subseteq Known(a)
            /\ "PossibleDatacenter" \in Known(a) <=>
                 /\ \/ SaysOf("ipverseMetadata", AsnOf(a)) # {}
                    \/ \E line \in SaysOf("asnReader", a) : line.of \in HostingASN
                 /\ "Datacenter" \notin listed
<1> DEFINE listed == PrefixFlags(a) \cup ips[a] \cup Facts(AsnOf(a))
           hosted == \E line \in SaysOf("asnReader", a) : line.of \in HostingASN
           read == RecordedASN(a) \cap HostingASN # {}
<1>1. Listed(a) \cup Facts(AsnOf(a)) = listed
  <2>1. Announced(a) # NoASN => AsnOf(a) = Announced(a)
    BY AsnOfFacts
  <2>2. Facts(NoASN) = {}
    BY DEF Facts
  <2> QED
    BY <2>1, <2>2 DEF Listed, PrefixFlags
<1>2. AsnOf(a) \in ASN \cup {NoASN}
  BY AsnOfFacts
<1>3. "PossibleDatacenter" \in listed <=> SaysOf("ipverseMetadata", AsnOf(a)) # {}
  <2>1. "PossibleDatacenter" \notin PrefixFlags(a)
    BY PrefixFlagsFacts
  <2>2. "PossibleDatacenter" \notin ips[a]
    BY DEF DatasetInv, IpsInv
  <2> QED
    BY <1>2, <2>1, <2>2, FactsFacts
<1>4. read => hosted
  BY CompleteFacts DEF RecordedASN
<1>5. hosted => read \/ listed \cap {"Datacenter", "PossibleDatacenter"} # {}
  <2> SUFFICES ASSUME hosted, listed \cap {"Datacenter", "PossibleDatacenter"} = {}
               PROVE  read
    OBVIOUS
  <2>1. Listed(a) \cap {"Datacenter", "PossibleDatacenter"} = {}
    BY <1>1
  <2>2. RecordedASN(a) = {line.of : line \in SaysOf("asnReader", a)}
    BY <2>1, CompleteFacts DEF RecordedASN
  <2> QED
    BY <2>2
<1> HIDE DEF hosted, listed
<1>6. LET all == listed \cup (IF read THEN {"PossibleDatacenter"} ELSE {})
      IN Known(a) = IF "Datacenter" \in all THEN all \ {"PossibleDatacenter"} ELSE all
  BY <1>1 DEF Known
<1>7. /\ Known(a) \subseteq listed \cup {"PossibleDatacenter"}
      /\ listed \ {"PossibleDatacenter"} \subseteq Known(a)
      /\ "PossibleDatacenter" \in Known(a) <=>
           ("PossibleDatacenter" \in listed \/ read) /\ "Datacenter" \notin listed
  BY <1>6
<1>8. "PossibleDatacenter" \in Known(a) <=>
        ("PossibleDatacenter" \in listed \/ hosted) /\ "Datacenter" \notin listed
  BY <1>4, <1>5, <1>7
<1> QED
  BY <1>3, <1>7, <1>8 DEF hosted, listed

(* The sets that the sanctions of an address are taken from.                               *)
Calls(a, flag) ==
  LET places == {line.of : line \in SaysOf("geoReader", a)}
  IN \/ \E g \in places : g.country = "Ukraine" /\ g.area = flag
     \/ flag = "OFAC" /\ (AsnOf(a) \in OfacASN \/ \E g \in places : g.country = "ofac")
     \/ flag = "PossibleOFAC" /\ (\/ AsnOf(a) \in PossibleOfacASN
                                  \/ \E g \in places : g.registered = "ofac")
     \/ flag = "SanctionedCountry" /\ \E g \in places : g.country = "sanctioned"

(* What an address calls for by its place, its registration or its operator.                  *)
LEMMA CallsFacts ==
  ASSUME DatasetInv, rest = {}, NEW a \in Addr
  PROVE  /\ GeoOf(a) \cup OfacFlags(AsnOf(a)) \subseteq SanctionFlag
         /\ \A flag \in SanctionFlag :
              flag \in GeoOf(a) \cup OfacFlags(AsnOf(a)) <=> Calls(a, flag)
<1> DEFINE places == {line.of : line \in SaysOf("geoReader", a)}
<1>1. \A flag : flag \in GeoOf(a) <=> \E g \in places : flag \in GeoFlags(g)
  <2>1. Record("geoReader", a) = SaysOf("geoReader", a)
    BY CompleteFacts
  <2> QED
    BY <2>1 DEF GeoOf
<1>2. ASSUME NEW g \in places
      PROVE  /\ GeoFlags(g) \subseteq SanctionFlag
             /\ "OFAC" \in GeoFlags(g) <=>
                  g.country = "ofac" \/ (g.country = "Ukraine" /\ g.area = "OFAC")
             /\ "PossibleOFAC" \in GeoFlags(g) <=>
                  g.registered = "ofac" \/ (g.country = "Ukraine" /\ g.area = "PossibleOFAC")
             /\ "SanctionedCountry" \in GeoFlags(g) <=> g.country = "sanctioned"
             /\ g.area # "SanctionedCountry"
  <2>1. g \in GeoRecord
    BY LineFacts DEF SaysOf, DatasetInv, TypeOK
  <2>2. /\ g.country \in {"ofac", "sanctioned", "Ukraine", "other"}
        /\ g.registered \in {"ofac", "other"}
        /\ g.area \in {"OFAC", "PossibleOFAC", "none"}
    BY <2>1, GeoAssumption
  <2>3. CASE g.country = "ofac"
    BY <2>2, <2>3 DEF GeoFlags, SanctionFlag
  <2>4. CASE g.country = "sanctioned"
    BY <2>2, <2>4 DEF GeoFlags, SanctionFlag
  <2>5. CASE g.country = "Ukraine"
    BY <2>2, <2>5 DEF GeoFlags, SanctionFlag
  <2>6. CASE g.country = "other"
    BY <2>2, <2>6 DEF GeoFlags, SanctionFlag
  <2> QED
    BY <2>2, <2>3, <2>4, <2>5, <2>6
<1>3. /\ OfacFlags(AsnOf(a)) \subseteq SanctionFlag
      /\ "OFAC" \in OfacFlags(AsnOf(a)) <=> AsnOf(a) \in OfacASN
      /\ "PossibleOFAC" \in OfacFlags(AsnOf(a)) <=> AsnOf(a) \in PossibleOfacASN
      /\ "SanctionedCountry" \notin OfacFlags(AsnOf(a))
  BY DEF OfacFlags, SanctionFlag
<1> HIDE DEF places
<1>4. GeoOf(a) \cup OfacFlags(AsnOf(a)) \subseteq SanctionFlag
  BY <1>1, <1>2, <1>3
<1>5. "OFAC" \in GeoOf(a) \cup OfacFlags(AsnOf(a)) <=> Calls(a, "OFAC")
  BY <1>1, <1>2, <1>3 DEF Calls, places
<1>6. "PossibleOFAC" \in GeoOf(a) \cup OfacFlags(AsnOf(a)) <=> Calls(a, "PossibleOFAC")
  BY <1>1, <1>2, <1>3 DEF Calls, places
<1>7. "SanctionedCountry" \in GeoOf(a) \cup OfacFlags(AsnOf(a)) <=> Calls(a, "SanctionedCountry")
  BY <1>1, <1>2, <1>3 DEF Calls, places
<1> QED
  BY <1>4, <1>5, <1>6, <1>7 DEF SanctionFlag

(* A routable address has the flags it is known by, without the weaker, and the strongest       *)
(* sanction it calls for.                                                          *)
LEMMA ResultFlags ==
  ASSUME DatasetInv, rest = {}, NEW a \in Addr, Lookup(a).kind = "Routable"
  PROVE  /\ Lookup(a).asn = AsnOf(a)
         /\ \A flag \in Flag \ SanctionFlag :
              flag \in Lookup(a).flags <=> flag \in Suppress(Known(a))
         /\ "OFAC" \in Lookup(a).flags <=> Calls(a, "OFAC")
         /\ "PossibleOFAC" \in Lookup(a).flags <=>
              Calls(a, "PossibleOFAC") /\ ~Calls(a, "OFAC")
         /\ "SanctionedCountry" \in Lookup(a).flags <=>
              Calls(a, "SanctionedCountry") /\ ~Calls(a, "OFAC") /\ ~Calls(a, "PossibleOFAC")
<1> DEFINE called == GeoOf(a) \cup OfacFlags(AsnOf(a))
           all == Suppress(Known(a)) \cup called
<1>1. Lookup(a).flags = Strongest(all) /\ Lookup(a).asn = AsnOf(a)
  <2>1. Lookup(a) = RoutableResult(a)
    BY KindFacts
  <2>2. Suppress(Known(a)) \cup GeoOf(a) \cup OfacFlags(AsnOf(a)) = all
    OBVIOUS
  <2> QED
    BY <2>1, <2>2 DEF RoutableResult
<1>2. Known(a) \cap SanctionFlag = {}
  <2>1. Known(a) \subseteq
          PrefixFlags(a) \cup ips[a] \cup Facts(AsnOf(a)) \cup {"PossibleDatacenter"}
    BY KnownFacts
  <2>2. Facts(AsnOf(a)) \subseteq {"PossibleDatacenter", "Datacenter", "HighRiskASN"}
    BY AsnOfFacts, FactsFacts
  <2>3. ips[a] \subseteq {"TorExit", "TorRelay", "VPN", "ProxyLowConf"}
    BY DEF DatasetInv, IpsInv
  <2> QED
    BY <2>1, <2>2, <2>3, PrefixFlagsFacts DEF SanctionFlag
<1>3. Suppress(Known(a)) \cap SanctionFlag = {}
  BY <1>2 DEF Suppress
<1>4. called \subseteq SanctionFlag /\ \A flag \in SanctionFlag : flag \in called <=> Calls(a, flag)
  BY CallsFacts
<1> HIDE DEF called
<1>5. \A flag \in SanctionFlag : flag \in all <=> Calls(a, flag)
  BY <1>3, <1>4
<1>6. \A flag \in Flag \ SanctionFlag : flag \in all <=> flag \in Suppress(Known(a))
  BY <1>4
<1> HIDE DEF all
<1>7. /\ "OFAC" \in Strongest(all) <=> "OFAC" \in all
      /\ "PossibleOFAC" \in Strongest(all) <=> "PossibleOFAC" \in all /\ "OFAC" \notin all
      /\ "SanctionedCountry" \in Strongest(all) <=>
           "SanctionedCountry" \in all /\ "OFAC" \notin all /\ "PossibleOFAC" \notin all
      /\ \A flag \in Flag \ SanctionFlag : flag \in Strongest(all) <=> flag \in all
  <2>1. CASE "OFAC" \in all
    BY <2>1 DEF Strongest, SanctionFlag
  <2>2. CASE "OFAC" \notin all /\ "PossibleOFAC" \in all
    BY <2>2 DEF Strongest, SanctionFlag
  <2>3. CASE "OFAC" \notin all /\ "PossibleOFAC" \notin all
    BY <2>3 DEF Strongest, SanctionFlag
  <2> QED
    BY <2>1, <2>2, <2>3
<1> QED
  BY <1>1, <1>5, <1>6, <1>7 DEF SanctionFlag

(* What is left of some flags when the weaker have given way.                              *)
LEMMA SuppressFacts ==
  ASSUME NEW flags
  PROVE  /\ \A f : f \notin {"ProxyHighConf", "ProxyLowConf"} =>
              (f \in Suppress(flags) <=> f \in flags)
         /\ "ProxyHighConf" \in Suppress(flags) <=>
              "ProxyHighConf" \in flags /\ "VPN" \notin flags /\ "TorExit" \notin flags
         /\ "ProxyLowConf" \in Suppress(flags) <=>
              /\ "ProxyLowConf" \in flags
              /\ "ProxyHighConf" \notin flags /\ "VPN" \notin flags /\ "TorExit" \notin flags
<1>1. flags \cap {"VPN", "TorExit"} # {} <=> "VPN" \in flags \/ "TorExit" \in flags
  OBVIOUS
<1> QED
  BY <1>1 DEF Suppress

(* What each flag but the sanctions comes from.                                          *)
LEMMA KnownFlags ==
  ASSUME DatasetInv, rest = {}, NEW a \in Addr
  PROVE  /\ "VPN" \in Known(a) <=> Says("x4bnetVPN", a) # {} \/ SaysOf("az0VPN", a) # {}
         /\ "TorExit" \in Known(a) <=> SaysOf("torExit", a) # {}
         /\ "TorRelay" \in Known(a) <=> SaysOf("torFull", a) # {} /\ SaysOf("torExit", a) = {}
         /\ "ProxyHighConf" \in Known(a) <=> Says("avastelPrefixes", a) # {}
         /\ "ProxyLowConf" \in Known(a) <=> SaysOf("avastelAddrs", a) # {}
         /\ "HighRiskASN" \in Known(a) <=> SaysOf("bountyyfi", AsnOf(a)) # {}
         /\ "Datacenter" \in Known(a) <=>
              \/ \E source \in {"x4bnetDatacenter"} \cup CloudSource : Says(source, a) # {}
              \/ SaysOf("umkus", AsnOf(a)) # {}
         /\ "PossibleDatacenter" \in Known(a) <=>
              /\ \/ SaysOf("ipverseMetadata", AsnOf(a)) # {}
                 \/ \E line \in SaysOf("asnReader", a) : line.of \in HostingASN
              /\ "Datacenter" \notin Known(a)
<1> DEFINE listed == PrefixFlags(a) \cup ips[a] \cup Facts(AsnOf(a))
<1>1. \A f : f # "PossibleDatacenter" => (f \in Known(a) <=> f \in listed)
  BY KnownFacts
<1>2. "PossibleDatacenter" \in Known(a) <=>
        /\ \/ SaysOf("ipverseMetadata", AsnOf(a)) # {}
           \/ \E line \in SaysOf("asnReader", a) : line.of \in HostingASN
        /\ "Datacenter" \notin listed
  BY KnownFacts
<1>3. /\ Facts(AsnOf(a)) \subseteq {"PossibleDatacenter", "Datacenter", "HighRiskASN"}
      /\ "Datacenter" \in Facts(AsnOf(a)) <=> SaysOf("umkus", AsnOf(a)) # {}
      /\ "HighRiskASN" \in Facts(AsnOf(a)) <=> SaysOf("bountyyfi", AsnOf(a)) # {}
  BY AsnOfFacts, FactsFacts
<1>4. /\ ips[a] \subseteq {"TorExit", "TorRelay", "VPN", "ProxyLowConf"}
      /\ "TorExit" \in ips[a] <=> SaysOf("torExit", a) # {}
      /\ "TorRelay" \in ips[a] <=> SaysOf("torFull", a) # {} /\ SaysOf("torExit", a) = {}
      /\ "VPN" \in ips[a] <=> SaysOf("az0VPN", a) # {}
      /\ "ProxyLowConf" \in ips[a] <=> SaysOf("avastelAddrs", a) # {}
  BY CompleteFacts DEF DatasetInv, IpsInv
<1>5. /\ PrefixFlags(a) \subseteq {"VPN", "Datacenter", "ProxyHighConf"}
      /\ "VPN" \in PrefixFlags(a) <=> Says("x4bnetVPN", a) # {}
      /\ "ProxyHighConf" \in PrefixFlags(a) <=> Says("avastelPrefixes", a) # {}
      /\ "Datacenter" \in PrefixFlags(a) <=>
           \E source \in {"x4bnetDatacenter"} \cup CloudSource : Says(source, a) # {}
  BY PrefixFlagsFacts
<1>6. \A f : f \in listed <=> f \in PrefixFlags(a) \/ f \in ips[a] \/ f \in Facts(AsnOf(a))
  OBVIOUS
<1> HIDE DEF listed
<1>7. /\ "VPN" \in listed <=> "VPN" \in PrefixFlags(a) \/ "VPN" \in ips[a]
      /\ "TorExit" \in listed <=> "TorExit" \in ips[a]
      /\ "TorRelay" \in listed <=> "TorRelay" \in ips[a]
      /\ "ProxyHighConf" \in listed <=> "ProxyHighConf" \in PrefixFlags(a)
      /\ "ProxyLowConf" \in listed <=> "ProxyLowConf" \in ips[a]
      /\ "HighRiskASN" \in listed <=> "HighRiskASN" \in Facts(AsnOf(a))
      /\ "Datacenter" \in listed <=> "Datacenter" \in PrefixFlags(a) \/ "Datacenter" \in Facts(AsnOf(a))
  BY <1>3, <1>4, <1>5, <1>6
<1>8. "Datacenter" \in listed <=> "Datacenter" \in Known(a)
  BY <1>1
<1> QED
  BY <1>1, <1>2, <1>3, <1>4, <1>5, <1>7, <1>8

(* In a complete dataset an address has a flag just when some source gives it that flag, and no   *)
(* stronger one does.                                                               *)
THEOREM LookupFlagsAreRight == Spec => []FlagsAreRight
<1>1. DatasetInv => FlagsAreRight
  <2> SUFFICES ASSUME DatasetInv, rest = {}
               PROVE  FlagsAreRight
    BY DEF FlagsAreRight
  <2> DEFINE Has(a, flag) == flag \in Lookup(a).flags
             Tunnel(a) == Has(a, "VPN") \/ Has(a, "TorExit")
  <2>1. ASSUME NEW a \in Addr, Lookup(a).kind = "Routable"
        PROVE  /\ Has(a, "VPN") <=> Says("x4bnetVPN", a) # {} \/ SaysOf("az0VPN", a) # {}
               /\ Has(a, "TorExit") <=> SaysOf("torExit", a) # {}
               /\ Has(a, "TorRelay") <=> SaysOf("torFull", a) # {} /\ ~(SaysOf("torExit", a) # {})
               /\ Has(a, "ProxyHighConf") <=> Says("avastelPrefixes", a) # {} /\ ~Tunnel(a)
               /\ Has(a, "ProxyLowConf") <=>
                    /\ SaysOf("avastelAddrs", a) # {}
                    /\ ~(Says("avastelPrefixes", a) # {}) /\ ~Tunnel(a)
               /\ Has(a, "HighRiskASN") <=> SaysOf("bountyyfi", Lookup(a).asn) # {}
               /\ Has(a, "Datacenter") <=>
                    \/ \E source \in {"x4bnetDatacenter"} \cup CloudSource : Says(source, a) # {}
                    \/ SaysOf("umkus", Lookup(a).asn) # {}
               /\ Has(a, "PossibleDatacenter") <=>
                    /\ \/ SaysOf("ipverseMetadata", Lookup(a).asn) # {}
                       \/ \E line \in SaysOf("asnReader", a) : line.of \in HostingASN
                    /\ ~Has(a, "Datacenter")
    <3>1. Lookup(a).asn = AsnOf(a)
      BY <2>1, ResultFlags
    <3>2. \A flag \in Flag \ SanctionFlag : Has(a, flag) <=> flag \in Suppress(Known(a))
      BY <2>1, ResultFlags
    <3>3. {"VPN", "TorExit", "TorRelay", "ProxyHighConf", "ProxyLowConf", "HighRiskASN",
           "Datacenter", "PossibleDatacenter"} \subseteq Flag \ SanctionFlag
      BY DEF Flag, SanctionFlag
    <3> HIDE DEF Has
    <3>4. /\ Has(a, "VPN") <=> "VPN" \in Known(a)
          /\ Has(a, "TorExit") <=> "TorExit" \in Known(a)
          /\ Has(a, "TorRelay") <=> "TorRelay" \in Known(a)
          /\ Has(a, "HighRiskASN") <=> "HighRiskASN" \in Known(a)
          /\ Has(a, "Datacenter") <=> "Datacenter" \in Known(a)
          /\ Has(a, "PossibleDatacenter") <=> "PossibleDatacenter" \in Known(a)
      BY <3>2, <3>3, SuppressFacts
    <3>5. /\ Has(a, "ProxyHighConf") <=>
               "ProxyHighConf" \in Known(a) /\ "VPN" \notin Known(a) /\ "TorExit" \notin Known(a)
          /\ Has(a, "ProxyLowConf") <=>
               /\ "ProxyLowConf" \in Known(a) /\ "ProxyHighConf" \notin Known(a)
               /\ "VPN" \notin Known(a) /\ "TorExit" \notin Known(a)
      BY <3>2, <3>3, SuppressFacts
    <3> QED
      BY <3>1, <3>4, <3>5, KnownFlags
  <2>2. ASSUME NEW a \in Addr, Lookup(a).kind = "Routable"
        PROVE  LET stronger == [OFAC |-> {}, PossibleOFAC |-> {"OFAC"},
                                SanctionedCountry |-> {"OFAC", "PossibleOFAC"}]
               IN  \A f \in DOMAIN stronger :
                     Has(a, f) <=> Calls(a, f) /\ \A g \in stronger[f] : ~Calls(a, g)
    <3> DEFINE stronger == [OFAC |-> {}, PossibleOFAC |-> {"OFAC"},
                            SanctionedCountry |-> {"OFAC", "PossibleOFAC"}]
    <3>1. /\ DOMAIN stronger = {"OFAC", "PossibleOFAC", "SanctionedCountry"}
          /\ stronger["OFAC"] = {} /\ stronger["PossibleOFAC"] = {"OFAC"}
          /\ stronger["SanctionedCountry"] = {"OFAC", "PossibleOFAC"}
      OBVIOUS
    <3> HIDE DEF stronger
    <3>2. \A f \in DOMAIN stronger :
            Has(a, f) <=> Calls(a, f) /\ \A g \in stronger[f] : ~Calls(a, g)
      BY <2>2, <3>1, ResultFlags
    <3> QED
      BY <3>2 DEF stronger
  <2>3. \A a \in Addr : Lookup(a).kind = "Routable" => Lookup(a).asn = AsnOf(a)
    BY ResultFlags
  <2> QED
    BY <2>1, <2>2, <2>3 DEF FlagsAreRight, Calls
<1> QED
  BY <1>1, TablesHoldInserted, PTL

-----------------------------------------------------------------------------
(* Reports *)

(* Induction in the form of sets: a set of naturals that is not empty has a least element. *)
LEMMA LeastNatural ==
  ASSUME NEW S, S \subseteq Nat, S # {}
  PROVE  \E m \in S : \A k \in S : m <= k
<1> DEFINE below == {0..k : k \in S}
<1>1. below \subseteq FiniteSubsetsOf(Nat)
  <2>1. ASSUME NEW k \in Nat PROVE IsFiniteSet(0..k) /\ 0..k \subseteq Nat
    <3>1. 0 \in Int /\ k \in Int
      OBVIOUS
    <3> QED
      BY <3>1, FS_Interval
  <2> QED
    BY <2>1 DEF FiniteSubsetsOf
<1>2. PICK w \in below : \A x \in below : <<x, w>> \notin StrictSubsetOrdering(Nat)
  <2>1. below # {}
    OBVIOUS
  <2> HIDE DEF below
  <2>2. IsWellFoundedOn(StrictSubsetOrdering(Nat), FiniteSubsetsOf(Nat))
    BY FS_StrictSubsetOrderingWellFounded
  <2> QED
    BY <1>1, <2>1, <2>2, WFMin
<1>3. PICK m \in S : w = 0..m
  OBVIOUS
<1>4. ASSUME NEW k \in S, k < m PROVE FALSE
  <2>1. k \in Nat /\ m \in Nat /\ m \in 0..m /\ m \notin 0..k
    BY <1>4
  <2>2. 0..k \subseteq 0..m /\ 0..k # 0..m
    BY <1>4, <2>1
  <2>3. <<0..k, 0..m>> \in StrictSubsetOrdering(Nat)
    BY <2>2 DEF StrictSubsetOrdering
  <2> QED
    BY <1>2, <1>3, <2>3
<1> QED
  BY <1>4

(* So a set with 0 and with the successor of each of its elements has every natural. *)
LEMMA SetInduction ==
  ASSUME NEW S, 0 \in S, \A n \in Nat : n \in S => n + 1 \in S
  PROVE  Nat \subseteq S
<1> SUFFICES ASSUME Nat \ S # {} PROVE FALSE
  OBVIOUS
<1>1. PICK m \in Nat \ S : \A k \in Nat \ S : m <= k
  BY LeastNatural
<1>2. m # 0 /\ m - 1 \in Nat /\ m - 1 < m
  BY <1>1
<1>3. m - 1 \in S
  BY <1>1, <1>2
<1> QED
  BY <1>1, <1>2, <1>3

(* A turn of the loop that Subsequence is.                                        *)
Turn(pieces, places, old, n) ==
  IF n \in places THEN Append(old, pieces[n]) ELSE old

(* The loop comes to its end: its turns, one after the other, are a function.            *)
LEMMA KeptTurns ==
  ASSUME NEW A, NEW pieces \in Seq(A), NEW places
  PROVE  \E kept : /\ kept[0] = <<>>
                   /\ \A n \in 1..Len(pieces) : kept[n] = Turn(pieces, places, kept[n - 1], n)
                   /\ Subsequence(pieces, places) = kept[Len(pieces)]
<1> DEFINE N == Len(pieces)
           next(old, n) == Turn(pieces, places, old, n)
           Runs(g, n) == /\ DOMAIN g = 0..n
                         /\ g[0] = <<>> /\ \A i \in 1..n : g[i] = next(g[i - 1], i)
           runs == {n \in Nat : \E g : Runs(g, n)}
           Kept(f) == f = [n \in 0..Len(pieces) |->
                             IF n = 0 THEN <<>>
                             ELSE IF n \in places THEN Append(f[n - 1], pieces[n])
                             ELSE f[n - 1]]
<1>1. N \in Nat
  OBVIOUS
<1> HIDE DEF next
<1>2. 0 \in runs
  <2>1. Runs([i \in 0..0 |-> <<>>], 0)
    OBVIOUS
  <2> QED
    BY <2>1
<1>3. ASSUME NEW n \in Nat, n \in runs PROVE n + 1 \in runs
  <2>1. PICK g : Runs(g, n)
    BY <1>3
  <2> DEFINE h == [i \in 0..(n + 1) |-> IF i = n + 1 THEN next(g[n], i) ELSE g[i]]
  <2>2. DOMAIN h = 0..(n + 1) /\ h[0] = <<>>
    BY <2>1
  <2>3. ASSUME NEW i \in 1..(n + 1) PROVE h[i] = next(h[i - 1], i)
    <3>1. CASE i = n + 1
      BY <3>1
    <3>2. CASE i \in 1..n
      BY <2>1, <3>2
    <3> QED
      BY <3>1, <3>2
  <2> HIDE DEF h
  <2> QED
    BY <2>2, <2>3
<1>4. PICK g : Runs(g, N)
  <2> HIDE DEF runs, N
  <2>1. N \in runs
    BY <1>1, <1>2, <1>3, SetInduction
  <2> QED
    BY <2>1 DEF runs
<1> DEFINE whole == [n \in 0..N |-> g[n]]
<1>5. ASSUME NEW n \in 0..N
      PROVE  whole[n] = IF n = 0 THEN <<>>
                        ELSE IF n \in places THEN Append(whole[n - 1], pieces[n])
                        ELSE whole[n - 1]
  <2>1. CASE n = 0
    BY <1>4, <2>1
  <2>2. CASE n # 0
    <3>1. n \in 1..N /\ n - 1 \in 0..N
      BY <1>1, <2>2
    <3>2. g[n] = Turn(pieces, places, g[n - 1], n)
      BY <1>4, <3>1 DEF next
    <3>3. whole[n] = g[n] /\ whole[n - 1] = g[n - 1]
      BY <3>1
    <3> QED
      BY <2>2, <3>2, <3>3 DEF Turn
  <2> QED
    BY <2>1, <2>2
<1>6. Kept(whole)
  <2>1. whole = [n \in 0..N |-> whole[n]]
    OBVIOUS
  <2> HIDE DEF whole
  <2> QED
    BY <1>5, <2>1
<1> DEFINE kept == CHOOSE f : Kept(f)
<1>7. Kept(kept)
  <2> HIDE DEF Kept, whole
  <2> QED
    BY <1>6
<1>8. Subsequence(pieces, places) = kept[Len(pieces)]
  BY DEF Subsequence
<1> HIDE DEF kept
<1>9. kept[0] = <<>> /\ \A n \in 1..N : kept[n] = Turn(pieces, places, kept[n - 1], n)
  <2>1. ASSUME NEW n \in 0..N
        PROVE  kept[n] = IF n = 0 THEN <<>>
                         ELSE IF n \in places THEN Append(kept[n - 1], pieces[n])
                         ELSE kept[n - 1]
    BY <1>7
  <2>2. 0 \in 0..N /\ \A n \in 1..N : n \in 0..N /\ n # 0
    BY <1>1
  <2> HIDE DEF Kept
  <2> QED
    BY <2>1, <2>2 DEF Turn
<1> HIDE DEF Kept
<1> QED
  BY <1>8, <1>9

(* The places that a sequence t of pieces is from: one after the other, all of them.          *)
Picks(e, pieces, places, t) ==
  /\ e \in [1..Len(t) -> places]
  /\ \A k \in 1..Len(t) : t[k] = pieces[e[k]]
  /\ \A j, k \in 1..Len(t) : j < k => e[j] < e[k]
  /\ \A i \in places : \E k \in 1..Len(t) : e[k] = i

(* One turn more                                                                   *)
LEMMA PicksMore ==
  ASSUME NEW A, NEW pieces \in Seq(A), NEW places \in SUBSET (1..Len(pieces)),
         NEW n \in 1..Len(pieces), NEW t \in Seq(A),
         NEW e, Picks(e, pieces, places \cap (1..(n - 1)), t)
  PROVE  /\ Turn(pieces, places, t, n) \in Seq(A)
         /\ \E f : Picks(f, pieces, places \cap (1..n), Turn(pieces, places, t, n))
<1> DEFINE before == places \cap (1..(n - 1))
           upTo == places \cap (1..n)
<1>1. CASE n \notin places
  <2>1. upTo = before /\ Turn(pieces, places, t, n) = t
    BY <1>1 DEF Turn
  <2> QED
    BY <2>1
<1>2. CASE n \in places
  <2> DEFINE m == Len(t)
             u == Append(t, pieces[n])
             f == [k \in 1..(m + 1) |-> IF k = m + 1 THEN n ELSE e[k]]
  <2>1. /\ Turn(pieces, places, t, n) = u /\ u \in Seq(A) /\ m \in Nat /\ Len(u) = m + 1
        /\ u[m + 1] = pieces[n] /\ \A k \in 1..m : u[k] = t[k]
    BY <1>2 DEF Turn
  <2>2. upTo = before \cup {n} /\ \A i \in before : i \in Nat /\ i < n
    BY <1>2
  <2>3. ASSUME NEW k \in 1..m PROVE e[k] \in before /\ f[k] = e[k]
    <3>1. e[k] \in before
      BY DEF Picks
    <3>2. k \in 1..(m + 1) /\ k # m + 1
      BY <2>1
    <3> QED
      BY <3>1, <3>2
  <2>4. f[m + 1] = n
    BY <2>1
  <2>5. \A k \in 1..(m + 1) : k = m + 1 \/ k \in 1..m
    BY <2>1
  <2>6. f \in [1..(m + 1) -> upTo]
    BY <2>2, <2>3, <2>5
  <2> HIDE DEF f, m, u, before
  <2>7. \A k \in 1..(m + 1) : u[k] = pieces[f[k]]
    BY <2>1, <2>3, <2>4, <2>5 DEF Picks, m, before
  <2>8. ASSUME NEW j \in 1..(m + 1), NEW k \in 1..(m + 1), j < k PROVE f[j] < f[k]
    <3>1. j \in 1..m
      BY <2>1, <2>8
    <3>2. CASE k = m + 1
      BY <2>2, <2>3, <2>4, <3>1, <3>2
    <3>3. CASE k \in 1..m
      BY <2>3, <2>8, <3>1, <3>3 DEF Picks, m
    <3> QED
      BY <2>5, <3>2, <3>3
  <2>9. ASSUME NEW i \in upTo PROVE \E k \in 1..(m + 1) : f[k] = i
    <3>1. CASE i = n
      BY <2>1, <2>4, <3>1
    <3>2. CASE i \in before
      <4>1. PICK k \in 1..m : e[k] = i
        BY <3>2 DEF Picks, m, before
      <4>2. k \in 1..(m + 1)
        BY <2>1
      <4> QED
        BY <2>3, <4>1, <4>2
    <3> QED
      BY <2>2, <3>1, <3>2
  <2>10. Picks(f, pieces, upTo, u)
    BY <2>1, <2>6, <2>7, <2>8, <2>9 DEF Picks
  <2> QED
    BY <2>1, <2>10
<1> QED
  BY <1>1, <1>2

(* What a loop keeps is what is at its places, in their order.                             *)
LEMMA SubsequencePicks ==
  ASSUME NEW A, NEW pieces \in Seq(A), NEW places \in SUBSET (1..Len(pieces))
  PROVE  /\ Subsequence(pieces, places) \in Seq(A)
         /\ \E e : Picks(e, pieces, places, Subsequence(pieces, places))
<1>1. PICK kept : /\ kept[0] = <<>>
                  /\ \A n \in 1..Len(pieces) : kept[n] = Turn(pieces, places, kept[n - 1], n)
                  /\ Subsequence(pieces, places) = kept[Len(pieces)]
  BY KeptTurns
<1> DEFINE N == Len(pieces)
           Right(n) == /\ kept[n] \in Seq(A)
                       /\ \E e : Picks(e, pieces, places \cap (1..n), kept[n])
           right == {n \in Nat : n <= N => Right(n)}
<1>2. N \in Nat
  OBVIOUS
<1>3. Right(0)
  <2>1. places \cap (1..0) = {} /\ kept[0] = <<>> /\ Len(<<>>) = 0 /\ 1..0 = {}
    BY <1>1
  <2>2. Picks([k \in {} |-> k], pieces, {}, <<>>)
    BY <2>1 DEF Picks
  <2> QED
    BY <2>1, <2>2
<1>4. ASSUME NEW n \in Nat, n \in right PROVE n + 1 \in right
  <2>1. SUFFICES ASSUME n + 1 <= N PROVE Right(n + 1)
    <3> HIDE DEF Right, N
    <3> QED
      OBVIOUS
  <2>2. n + 1 \in 1..N /\ (n + 1) - 1 = n /\ n <= N
    BY <1>2, <2>1
  <2>3. Right(n)
    BY <1>4, <2>2
  <2>4. kept[n + 1] = Turn(pieces, places, kept[n], n + 1)
    BY <1>1, <2>2
  <2>5. PICK e : Picks(e, pieces, places \cap (1..n), kept[n])
    BY <2>3
  <2>6. kept[n] \in Seq(A)
    BY <2>3
  <2> HIDE DEF Right, N
  <2>7. /\ Turn(pieces, places, kept[n], n + 1) \in Seq(A)
        /\ \E f : Picks(f, pieces, places \cap (1..(n + 1)), Turn(pieces, places, kept[n], n + 1))
    BY <2>2, <2>5, <2>6, PicksMore DEF N
  <2> QED
    BY <2>4, <2>7 DEF Right
<1>5. Right(N)
  <2> HIDE DEF Right, N
  <2>1. 0 \in right
    BY <1>3
  <2>2. Nat \subseteq right
    <3> HIDE DEF right
    <3> QED
      BY <1>4, <2>1, SetInduction
  <2> QED
    BY <1>2, <2>2
<1>6. places \cap (1..N) = places
  OBVIOUS
<1> QED
  BY <1>1, <1>5, <1>6

(* Picking some places, one after the other, counts them.                                 *)
LEMMA PicksCount ==
  ASSUME NEW A, NEW t \in Seq(A), NEW pieces, NEW places \in SUBSET Nat,
         NEW e, Picks(e, pieces, places, t)
  PROVE  Len(t) = Cardinality(places)
<1>1. Len(t) \in Nat
  OBVIOUS
<1>2. e \in [1..Len(t) -> places]
  BY DEF Picks
<1>3. \A j, k \in 1..Len(t) : e[j] = e[k] => j = k
  <2> SUFFICES ASSUME NEW j \in 1..Len(t), NEW k \in 1..Len(t), e[j] = e[k], j # k PROVE FALSE
    OBVIOUS
  <2>1. e[j] \in Nat /\ e[k] \in Nat
    BY <1>2
  <2>2. j < k \/ k < j
    BY <1>1
  <2>3. e[j] < e[k] \/ e[k] < e[j]
    BY <2>2 DEF Picks
  <2> QED
    BY <2>1, <2>3
<1>4. \A i \in places : \E k \in 1..Len(t) : e[k] = i
  BY DEF Picks
<1>5. e \in Bijection(1..Len(t), places)
  BY <1>2, <1>3, <1>4 DEF Bijection, Injection, Surjection, IsInjective
<1>6. ExistsBijection(1..Len(t), places)
  BY <1>5 DEF ExistsBijection
<1> QED
  BY <1>1, <1>6, FS_CountingElements

(* And what is to be found at the picked places is found as often as at all of them, when no     *)
(* other place has it.                                                              *)
LEMMA PicksOccurrences ==
  ASSUME NEW A, NEW pieces \in Seq(A), NEW t \in Seq(A),
         NEW places \in SUBSET (1..Len(pieces)), NEW e, Picks(e, pieces, places, t),
         NEW a, \A i \in 1..Len(pieces) : pieces[i] = a => i \in places
  PROVE  Occurrences(a, t) = Cardinality({i \in 1..Len(pieces) : pieces[i] = a})
<1> DEFINE from == {k \in 1..Len(t) : t[k] = a}
           to == {i \in 1..Len(pieces) : pieces[i] = a}
           f == [k \in from |-> e[k]]
<1>1. Len(t) \in Nat /\ Len(pieces) \in Nat /\ DOMAIN t = 1..Len(t)
  OBVIOUS
<1>2. ASSUME NEW k \in 1..Len(t) PROVE e[k] \in places /\ e[k] \in Nat /\ t[k] = pieces[e[k]]
  <2>1. e[k] \in places /\ t[k] = pieces[e[k]]
    BY DEF Picks
  <2>2. places \subseteq Nat
    OBVIOUS
  <2> QED
    BY <2>1, <2>2
<1>3. \A j, k \in 1..Len(t) : e[j] = e[k] => j = k
  <2> SUFFICES ASSUME NEW j \in 1..Len(t), NEW k \in 1..Len(t), e[j] = e[k], j # k PROVE FALSE
    OBVIOUS
  <2>1. j < k \/ k < j
    BY <1>1
  <2>2. e[j] < e[k] \/ e[k] < e[j]
    BY <2>1 DEF Picks
  <2> QED
    BY <1>2, <2>2
<1>4. f \in [from -> to]
  BY <1>2
<1>5. \A j, k \in from : f[j] = f[k] => j = k
  BY <1>3
<1>6. ASSUME NEW i \in to PROVE \E k \in from : f[k] = i
  <2>1. PICK k \in 1..Len(t) : e[k] = i
    BY DEF Picks
  <2>2. k \in from
    BY <1>2, <2>1
  <2> QED
    BY <2>1, <2>2
<1>7. IsFiniteSet(from)
  <2>1. IsFiniteSet(1..Len(t))
    <3>1. 1 \in Int /\ Len(t) \in Int
      BY <1>1
    <3> QED
      BY <3>1, FS_Interval
  <2> QED
    BY <2>1, FS_Subset
<1>8. Occurrences(a, t) = Cardinality(from)
  BY <1>1 DEF Occurrences
<1> HIDE DEF from, to, f
<1>9. f \in Bijection(from, to)
  BY <1>4, <1>5, <1>6 DEF Bijection, Injection, Surjection, IsInjective
<1>10. ExistsBijection(from, to)
  BY <1>9 DEF ExistsBijection
<1>11. Cardinality(to) = Cardinality(from)
  BY <1>7, <1>10, FS_Bijection
<1> QED
  BY <1>8, <1>11 DEF to

(* The first mentions in a text of its addresses: at places e, one after the other.            *)
FirstMentions(e, raw, unique) ==
  /\ e \in [1..Len(unique) -> 1..Len(raw)]
  /\ \A j, k \in 1..Len(unique) : j < k => e[j] < e[k]
  /\ \A k \in 1..Len(unique) :
       /\ unique[k] = raw[e[k]]
       /\ \A j \in 1..(e[k] - 1) : raw[j] # unique[k]

(* Parse and dedup: what they leave of a text.                                           *)
LEMMA TextFacts ==
  ASSUME NEW raw \in Seq(Addr \cup {NoAddr})
  PROVE  /\ Len(Parse(raw)) = Cardinality({i \in DOMAIN raw : raw[i] # NoAddr})
         /\ \A a \in Addr :
              Occurrences(a, Parse(raw)) = Cardinality({i \in DOMAIN raw : raw[i] = a})
         /\ Dedup(Parse(raw)) \in Seq(Addr)
         /\ \E e : FirstMentions(e, raw, Dedup(Parse(raw)))
         /\ \A i \in DOMAIN raw : raw[i] # NoAddr =>
              \E k \in 1..Len(Dedup(Parse(raw))) : Dedup(Parse(raw))[k] = raw[i]
<1> DEFINE addrs == Parse(raw)
           unique == Dedup(addrs)
           places == {i \in 1..Len(raw) : raw[i] \in Addr}
           new == {i \in 1..Len(addrs) : addrs[i] \notin Seen(addrs, i)}
<1>1. DOMAIN raw = 1..Len(raw) /\ Len(raw) \in Nat
  OBVIOUS
<1>2. addrs = Subsequence(raw, places)
  BY <1>1 DEF Parse
<1>3. addrs \in Seq(Addr \cup {NoAddr})
  BY <1>2, SubsequencePicks
<1>4. PICK p : Picks(p, raw, places, addrs)
  BY <1>2, SubsequencePicks
<1> HIDE DEF addrs
<1>5. ASSUME NEW k \in 1..Len(addrs)
      PROVE  p[k] \in places /\ p[k] \in 1..Len(raw) /\ addrs[k] = raw[p[k]] /\ addrs[k] \in Addr
  BY <1>4 DEF Picks
<1>6. addrs \in Seq(Addr) /\ DOMAIN addrs = 1..Len(addrs) /\ Len(addrs) \in Nat
  BY <1>3, <1>5
<1>7. unique = Subsequence(addrs, new)
  BY <1>6 DEF Dedup
<1>8. unique \in Seq(Addr) /\ DOMAIN unique = 1..Len(unique) /\ Len(unique) \in Nat
  <2>1. unique \in Seq(Addr)
    BY <1>6, <1>7, SubsequencePicks
  <2> QED
    BY <2>1
<1>9. PICK q : Picks(q, addrs, new, unique)
  BY <1>6, <1>7, SubsequencePicks
<1> HIDE DEF unique
<1>10. Len(addrs) = Cardinality({i \in DOMAIN raw : raw[i] # NoAddr})
  <2>1. places = {i \in DOMAIN raw : raw[i] # NoAddr}
    BY <1>1, ReportAssumption
  <2>2. places \in SUBSET Nat
    BY <1>1
  <2>3. Len(addrs) = Cardinality(places)
    BY <1>4, <1>6, <2>2, PicksCount
  <2> QED
    BY <2>1, <2>3
<1>11. ASSUME NEW a \in Addr
       PROVE  Occurrences(a, addrs) = Cardinality({i \in DOMAIN raw : raw[i] = a})
  <2>1. \A i \in 1..Len(raw) : raw[i] = a => i \in places
    OBVIOUS
  <2>2. places \in SUBSET (1..Len(raw))
    OBVIOUS
  <2> HIDE DEF places
  <2>3. Occurrences(a, addrs) = Cardinality({i \in 1..Len(raw) : raw[i] = a})
    BY <1>3, <1>4, <2>1, <2>2, PicksOccurrences
  <2> QED
    BY <1>1, <2>3
<1>12. ASSUME NEW j \in 1..Len(addrs)
       PROVE  \E k \in 1..Len(unique) : unique[k] = addrs[j]
  <2> DEFINE same == {i \in 1..Len(addrs) : addrs[i] = addrs[j]}
  <2>1. PICK m \in same : \A i \in same : m <= i
    <3>1. same \subseteq Nat /\ same # {}
      BY <1>6
    <3> HIDE DEF same
    <3> QED
      BY <3>1, LeastNatural
  <2>2. m \in 1..Len(addrs) /\ addrs[m] = addrs[j]
    BY <2>1
  <2>3. addrs[m] \notin Seen(addrs, m)
    <3>1. ASSUME NEW i \in 1..(m - 1), addrs[i] = addrs[m] PROVE FALSE
      <4>1. i \in 1..Len(addrs) /\ i < m
        BY <1>6, <2>2
      <4>2. i \in same
        BY <2>2, <3>1, <4>1
      <4>3. m <= i /\ i \in Nat /\ m \in Nat
        BY <2>1, <2>2, <4>1, <4>2
      <4> QED
        BY <4>1, <4>3
    <3> QED
      BY <3>1 DEF Seen
  <2>4. PICK k \in 1..Len(unique) : q[k] = m
    BY <1>9, <2>2, <2>3 DEF Picks
  <2> QED
    BY <1>9, <2>2, <2>4 DEF Picks
<1>13. ASSUME NEW i \in DOMAIN raw, raw[i] # NoAddr
       PROVE  \E k \in 1..Len(unique) : unique[k] = raw[i]
  <2>1. i \in places
    BY <1>1, <1>13
  <2>2. PICK j \in 1..Len(addrs) : p[j] = i
    BY <1>4, <2>1 DEF Picks
  <2> QED
    BY <1>5, <1>12, <2>2
<1> DEFINE e == [k \in 1..Len(unique) |-> p[q[k]]]
<1>14. ASSUME NEW k \in 1..Len(unique)
       PROVE  /\ q[k] \in new /\ q[k] \in 1..Len(addrs) /\ unique[k] = addrs[q[k]]
              /\ e[k] = p[q[k]] /\ e[k] \in 1..Len(raw) /\ unique[k] = raw[e[k]]
  <2>1. q[k] \in new /\ unique[k] = addrs[q[k]]
    BY <1>9 DEF Picks
  <2> QED
    BY <1>5, <2>1
<1> HIDE DEF e, new, places
<1>15. e \in [1..Len(unique) -> 1..Len(raw)]
  BY <1>14 DEF e
<1>16. ASSUME NEW j \in 1..Len(unique), NEW k \in 1..Len(unique), j < k PROVE e[j] < e[k]
  <2>1. q[j] < q[k]
    BY <1>9, <1>16 DEF Picks
  <2> QED
    BY <1>4, <1>14, <2>1 DEF Picks
<1>17. ASSUME NEW k \in 1..Len(unique), NEW i \in 1..(e[k] - 1), raw[i] = unique[k] PROVE FALSE
  <2>1. e[k] \in 1..Len(raw) /\ i \in 1..Len(raw) /\ i < e[k]
    BY <1>1, <1>14
  <2>2. unique[k] \in Addr
    BY <1>5, <1>14
  <2>3. i \in places
    BY <1>17, <2>1, <2>2 DEF places
  <2>4. PICK j \in 1..Len(addrs) : p[j] = i
    BY <1>4, <2>3 DEF Picks
  <2>5. j < q[k]
    <3> SUFFICES ASSUME ~(j < q[k]) PROVE FALSE
      OBVIOUS
    <3>1. q[k] = j \/ q[k] < j
      BY <1>6, <1>14
    <3>2. p[q[k]] = p[j] \/ p[q[k]] < p[j]
      BY <1>4, <1>14, <3>1 DEF Picks
    <3> QED
      BY <1>14, <2>1, <2>4, <3>2
  <2>6. j \in 1..(q[k] - 1)
    BY <1>6, <1>14, <2>5
  <2>7. addrs[j] = addrs[q[k]]
    BY <1>5, <1>14, <1>17, <2>4
  <2> QED
    BY <1>14, <2>6, <2>7 DEF new, Seen
<1>18. FirstMentions(e, raw, unique)
  BY <1>14, <1>15, <1>16, <1>17 DEF FirstMentions
<1> QED
  BY <1>8, <1>10, <1>11, <1>13, <1>18 DEF addrs, unique

(* Where a text mentions an address for the first time                                    *)
First(raw, a) == CHOOSE i \in DOMAIN raw : raw[i] = a /\ \A j \in 1..(i - 1) : raw[j] # a

LEMMA FirstFacts ==
  ASSUME NEW raw \in Seq(Addr \cup {NoAddr}), NEW unique \in Seq(Addr),
         NEW e, FirstMentions(e, raw, unique)
  PROVE  /\ \A k \in 1..Len(unique) : First(raw, unique[k]) = e[k] /\ e[k] \in Nat
         /\ \A j, k \in 1..Len(unique) : j < k =>
              First(raw, unique[j]) < First(raw, unique[k])
         /\ \A j, k \in 1..Len(unique) : unique[j] = unique[k] => j = k
<1>1. DOMAIN raw = 1..Len(raw) /\ Len(raw) \in Nat /\ Len(unique) \in Nat
  OBVIOUS
<1>2. ASSUME NEW k \in 1..Len(unique) PROVE First(raw, unique[k]) = e[k] /\ e[k] \in Nat
  <2> DEFINE a == unique[k]
  <2>1. e[k] \in DOMAIN raw /\ e[k] \in Nat /\ raw[e[k]] = a /\ \A j \in 1..(e[k] - 1) : raw[j] # a
    BY <1>1 DEF FirstMentions
  <2> HIDE DEF a
  <2>2. ASSUME NEW i \in DOMAIN raw, raw[i] = a, \A j \in 1..(i - 1) : raw[j] # a
        PROVE  i = e[k]
    <3>1. ~(i < e[k])
      <4> SUFFICES ASSUME i < e[k] PROVE FALSE
        OBVIOUS
      <4>1. i \in 1..(e[k] - 1)
        BY <1>1, <2>1
      <4> QED
        BY <2>1, <2>2, <4>1
    <3>2. ~(e[k] < i)
      <4> SUFFICES ASSUME e[k] < i PROVE FALSE
        OBVIOUS
      <4>1. e[k] \in 1..(i - 1)
        BY <1>1, <2>1
      <4> QED
        BY <2>1, <2>2, <4>1
    <3> QED
      BY <1>1, <2>1, <3>1, <3>2
  <2>3. First(raw, a) = e[k]
    BY <2>1, <2>2 DEF First
  <2> QED
    BY <2>1, <2>3 DEF a
<1>3. ASSUME NEW j \in 1..Len(unique), NEW k \in 1..Len(unique), j < k
      PROVE  First(raw, unique[j]) < First(raw, unique[k])
  <2>1. e[j] < e[k]
    BY <1>3 DEF FirstMentions
  <2> QED
    BY <1>2, <2>1
<1>4. ASSUME NEW j \in 1..Len(unique), NEW k \in 1..Len(unique), unique[j] = unique[k], j # k
      PROVE  FALSE
  <2>1. j < k \/ k < j
    BY <1>1, <1>4
  <2>2. First(raw, unique[j]) < First(raw, unique[k]) \/ First(raw, unique[k]) < First(raw, unique[j])
    BY <1>3, <2>1
  <2> QED
    BY <1>2, <1>4, <2>2
<1> QED
  BY <1>2, <1>3, <1>4

(* As many addresses as there are first places among them                                   *)
LEMMA DistinctCount ==
  ASSUME NEW t, NEW n \in Nat, \A j, k \in 1..n : t[j] = t[k] => j = k
  PROVE  Cardinality({t[k] : k \in 1..n}) = n
<1> DEFINE f == [k \in 1..n |-> t[k]]
           to == {t[k] : k \in 1..n}
<1>1. f \in [1..n -> to]
  OBVIOUS
<1>2. \A j, k \in 1..n : f[j] = f[k] => j = k
  OBVIOUS
<1>3. \A x \in to : \E k \in 1..n : f[k] = x
  OBVIOUS
<1> HIDE DEF f, to
<1>4. f \in Bijection(1..n, to)
  BY <1>1, <1>2, <1>3 DEF Bijection, Injection, Surjection, IsInjective
<1>5. ExistsBijection(1..n, to)
  BY <1>4 DEF ExistsBijection
<1>6. Cardinality(to) = n
  BY <1>5, FS_CountingElements
<1> QED
  BY <1>6 DEF to

(* An address of special use, or unallocated, shows nothing else.                             *)
LEMMA BogonInfo ==
  ASSUME DatasetInv, rest = {}, NEW a \in Addr
  PROVE  /\ InfoForIP(a).ip = a
         /\ Says("iana", a) \cup Says("cymru", a) # {} =>
              /\ InfoForIP(a).flags = {}
              /\ InfoForIP(a).asn = NoASN
              /\ InfoForIP(a).cloud = {}
<1>1. InfoForIP(a).ip = a
  BY DEF InfoForIP, IPInfo
<1>2. ASSUME Says("iana", a) \cup Says("cymru", a) # {}
      PROVE  /\ InfoForIP(a).flags = {}
             /\ InfoForIP(a).asn = NoASN
             /\ InfoForIP(a).cloud = {}
  <2>1. Lookup(a).kind # "Routable"
    BY <1>2, KindFacts
  <2>2. Bogons(a) # {}
    BY <1>2, BogonFacts
  <2>3. Lookup(a).asn = NoASN /\ Lookup(a).cloud = {}
    BY <2>2 DEF Lookup, Bogons
  <2> QED
    BY <2>1, <2>3 DEF InfoForIP, IPInfo
<1> QED
  BY <1>1, <1>2

(* A report tells of every address of a text, up to its limit, once, in the order of first      *)
(* mention, with its count, and shows nothing of one that is no public address.               *)
THEOREM ReportsTellAll == Spec => []ReportTellsAll
<1>1. DatasetInv => ReportTellsAll
  <2> SUFFICES ASSUME DatasetInv, rest = {}, NEW raw \in Texts
               PROVE
    LET report == Get(raw)
        named  == {raw[i] : i \in DOMAIN raw} \ {NoAddr}
        lines  == {[at |-> n, entry |-> report.entries[n]] : n \in 1..report.reported}
        shown  == {line.entry.info.ip : line \in lines}
    IN /\ report.unique = Cardinality(named)
       /\ report.total = Cardinality({i \in DOMAIN raw : raw[i] # NoAddr})
       /\ report.reported = Cardinality(shown)
       /\ shown \subseteq named /\ (named = shown \/ report.reported = MaxIPs)
       /\ \A a \in shown, other \in named \ shown : First(raw, a) < First(raw, other)
       /\ \A x, y \in lines :
            x.at < y.at => First(raw, x.entry.info.ip) < First(raw, y.entry.info.ip)
       /\ \A line \in lines :
            LET entry == line.entry
                ip    == entry.info.ip
            IN /\ entry.count = Cardinality({i \in DOMAIN raw : raw[i] = ip})
               /\ Says("iana", ip) \cup Says("cymru", ip) # {} =>
                    entry.info.flags = {} /\ entry.info.asn = NoASN /\ entry.info.cloud = {}
    BY DEF ReportTellsAll, First
  <2> DEFINE addrs    == Parse(raw)
             unique   == Dedup(addrs)
             N        == Len(unique)
             reported == IF N < MaxIPs THEN N ELSE MaxIPs
             report   == Get(raw)
             named    == {raw[i] : i \in DOMAIN raw} \ {NoAddr}
             lines    == {[at |-> n, entry |-> report.entries[n]] : n \in 1..report.reported}
             shown    == {line.entry.info.ip : line \in lines}
  <2>1. raw \in Seq(Addr \cup {NoAddr}) /\ MaxIPs \in Nat /\ NoAddr \notin Addr
    BY ReportAssumption
  <2>2. /\ Len(addrs) = Cardinality({i \in DOMAIN raw : raw[i] # NoAddr})
        /\ \A a \in Addr : Occurrences(a, addrs) = Cardinality({i \in DOMAIN raw : raw[i] = a})
        /\ unique \in Seq(Addr)
        /\ \E e : FirstMentions(e, raw, unique)
        /\ \A i \in DOMAIN raw : raw[i] # NoAddr => \E k \in 1..N : unique[k] = raw[i]
    BY <2>1, TextFacts
  <2>3. /\ report.total = Len(addrs) /\ report.unique = N /\ report.reported = reported
        /\ \A n \in 1..reported :
             report.entries[n] = [info |-> InfoForIP(unique[n]), count |-> Occurrences(unique[n], addrs)]
    BY DEF Get
  <2> HIDE DEF addrs, unique, report
  <2>4. /\ N \in Nat /\ reported \in Nat /\ reported <= N /\ (reported = N \/ reported = MaxIPs)
        /\ \A n \in 1..reported : n \in 1..N
        /\ \A k \in 1..N : unique[k] \in Addr
    BY <2>1, <2>2
  <2> HIDE DEF reported
  <2>5. PICK e : FirstMentions(e, raw, unique)
    BY <2>2
  <2>6. /\ \A j, k \in 1..N : j < k => First(raw, unique[j]) < First(raw, unique[k])
        /\ \A j, k \in 1..N : unique[j] = unique[k] => j = k
    BY <2>1, <2>2, <2>5, FirstFacts
  <2>7. named = {unique[k] : k \in 1..N}
    <3>1. ASSUME NEW k \in 1..N PROVE unique[k] \in named
      <4>1. e[k] \in DOMAIN raw /\ raw[e[k]] = unique[k]
        BY <2>1, <2>5 DEF FirstMentions
      <4> QED
        BY <2>1, <2>4, <4>1
    <3>2. ASSUME NEW a \in named PROVE \E k \in 1..N : unique[k] = a
      BY <2>2
    <3> HIDE DEF named, N
    <3> QED
      BY <3>1, <3>2
  <2>8. ASSUME NEW line \in lines
        PROVE  /\ line.at \in 1..reported
               /\ line.entry.info = InfoForIP(unique[line.at])
               /\ line.entry.info.ip = unique[line.at]
               /\ line.entry.count = Occurrences(unique[line.at], addrs)
    <3>1. PICK n \in 1..reported : line = [at |-> n, entry |-> report.entries[n]]
      BY <2>3
    <3>2. unique[n] \in Addr
      BY <2>4
    <3>3. InfoForIP(unique[n]).ip = unique[n]
      BY <3>2, BogonInfo
    <3>4. line.at = n /\ line.entry = report.entries[n]
      BY <3>1
    <3>5. line.entry = [info |-> InfoForIP(unique[n]), count |-> Occurrences(unique[n], addrs)]
      BY <2>3, <3>4
    <3>6. /\ line.entry.info = InfoForIP(unique[n])
          /\ line.entry.count = Occurrences(unique[n], addrs)
      BY <3>5
    <3> QED
      BY <3>3, <3>4, <3>6
  <2>9. shown = {unique[n] : n \in 1..reported}
    <3>1. ASSUME NEW n \in 1..reported PROVE unique[n] \in shown
      <4>1. [at |-> n, entry |-> report.entries[n]] \in lines
        BY <2>3
      <4> QED
        BY <2>8, <4>1
    <3>2. ASSUME NEW a \in shown PROVE \E n \in 1..reported : a = unique[n]
      BY <2>8
    <3> HIDE DEF shown
    <3> QED
      BY <3>1, <3>2
  <2> HIDE DEF named, lines, shown, N
  <2>10. report.unique = Cardinality(named)
    BY <2>3, <2>4, <2>6, <2>7, DistinctCount
  <2>11. report.total = Cardinality({i \in DOMAIN raw : raw[i] # NoAddr})
    BY <2>2, <2>3
  <2>12. report.reported = Cardinality(shown)
    BY <2>3, <2>4, <2>6, <2>9, DistinctCount
  <2>13. shown \subseteq named /\ (named = shown \/ report.reported = MaxIPs)
    BY <2>3, <2>4, <2>7, <2>9
  <2>14. ASSUME NEW a \in shown, NEW other \in named \ shown
         PROVE  First(raw, a) < First(raw, other)
    <3>1. PICK n \in 1..reported : a = unique[n]
      BY <2>9
    <3>2. PICK k \in 1..N : other = unique[k]
      BY <2>7
    <3>3. k \notin 1..reported
      BY <2>9, <3>2
    <3>4. n \in 1..N /\ n < k
      BY <2>4, <3>3
    <3> QED
      BY <2>6, <3>1, <3>2, <3>4
  <2>15. ASSUME NEW x \in lines, NEW y \in lines, x.at < y.at
         PROVE  First(raw, x.entry.info.ip) < First(raw, y.entry.info.ip)
    <3>1. x.at \in 1..N /\ y.at \in 1..N
      BY <2>4, <2>8
    <3>2. First(raw, unique[x.at]) < First(raw, unique[y.at])
      BY <2>6, <2>15, <3>1
    <3> QED
      BY <2>8, <3>2
  <2>16. ASSUME NEW line \in lines
         PROVE  /\ line.entry.count = Cardinality({i \in DOMAIN raw : raw[i] = line.entry.info.ip})
                /\ Says("iana", line.entry.info.ip) \cup Says("cymru", line.entry.info.ip) # {} =>
                     /\ line.entry.info.flags = {}
                     /\ line.entry.info.asn = NoASN
                     /\ line.entry.info.cloud = {}
    <3> DEFINE a == unique[line.at]
    <3>1. a \in Addr
      BY <2>4, <2>8
    <3>2. /\ line.entry.info = InfoForIP(a) /\ line.entry.info.ip = a
          /\ line.entry.count = Occurrences(a, addrs)
      BY <2>8
    <3> HIDE DEF a
    <3> QED
      BY <2>2, <3>1, <3>2, BogonInfo
  <2> QED
    BY <2>10, <2>11, <2>12, <2>13, <2>14, <2>15, <2>16 DEF report, lines, shown, named
<1> QED
  BY <1>1, TablesHoldInserted, PTL

=============================================================================
