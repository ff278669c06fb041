------------------------------- MODULE Report -------------------------------
(***************************************************************************)
(* What a text becomes (src/internal/ipinput: Parse; src/internal/report:      *)
(* Get, InfoForIP): its addresses, in the order they are first mentioned,      *)
(* each with the number of times it is and with what the dataset knows of it,   *)
(* up to a limit.                                                          *)
(*                                                                         *)
(* A text is the sequence of the pieces Parse cuts it into; a piece that is no   *)
(* address is NoAddr.  Labels and spelling are left out.                       *)
(***************************************************************************)
EXTENDS Dataset

CONSTANTS
  NoAddr,
  Texts,
  MaxIPs      \* 500 in the code

ASSUME ReportAssumption ==
  NoAddr \notin Addr /\ Texts \subseteq Seq(Addr \cup {NoAddr}) /\ MaxIPs \in Nat

(* The pieces that a loop over all of them keeps: those at some places.                   *)
Subsequence(pieces, places) ==
  LET kept[n \in 0..Len(pieces)] ==
        IF n = 0 THEN <<>>
        ELSE IF n \in places THEN Append(kept[n - 1], pieces[n])
        ELSE kept[n - 1]
  IN kept[Len(pieces)]

Parse(raw) == Subsequence(raw, {i \in DOMAIN raw : raw[i] \in Addr})

(* A faulty variant: only a repetition right after is dropped.                        *)
DedupNeighbours(addrs) ==
  Subsequence(addrs, {i \in DOMAIN addrs : i = 1 \/ addrs[i - 1] # addrs[i]})

(* What dedup has seen before it comes to a place, and what it keeps                   *)
Seen(addrs, i) == {addrs[j] : j \in 1..(i - 1)}

Dedup(addrs) == Subsequence(addrs, {i \in DOMAIN addrs : addrs[i] \notin Seen(addrs, i)})

Occurrences(a, addrs) == Cardinality({i \in DOMAIN addrs : addrs[i] = a})

(* buildIPInfo.  Flags are shown for an address that is routable.                       *)
IPInfo(a, result) ==
  [ip |-> a, kind |-> result.kind, special |-> result.special, asn |-> result.asn,
   cloud |-> result.cloud, flags |-> IF result.kind = "Routable" THEN result.flags ELSE {}]

InfoForIP(a) == IPInfo(a, Lookup(a))

Get(raw) ==
  LET addrs    == Parse(raw)
      unique   == Dedup(addrs)
      reported == IF Len(unique) < MaxIPs THEN Len(unique) ELSE MaxIPs
  IN [total |-> Len(addrs), unique |-> Len(unique), reported |-> reported,
      entries |-> [n \in 1..reported |->
                     [info |-> InfoForIP(unique[n]), count |-> Occurrences(unique[n], addrs)]]]

-----------------------------------------------------------------------------
(* Every address of a text is reported once, in the order of first mention, and only the last     *)
(* to be mentioned are left out; the counts are exact, of all addresses, those left out         *)
(* included; and only an address that no list of special or unallocated prefixes has shows      *)
(* a flag, an ASN or a cloud.                                                     *)
ReportTellsAll ==
  rest = {} => \A raw \in Texts :
    LET report == Get(raw)
        named  == {raw[i] : i \in DOMAIN raw} \ {NoAddr}
        lines  == {[at |-> n, entry |-> report.entries[n]] : n \in 1..report.reported}
        shown  == {line.entry.info.ip : line \in lines}
        First(a) == CHOOSE i \in DOMAIN raw : raw[i] = a /\ \A j \in 1..(i - 1) : raw[j] # a
    IN /\ report.unique = Cardinality(named)
       /\ report.total = Cardinality({i \in DOMAIN raw : raw[i] # NoAddr})
       /\ report.reported = Cardinality(shown)
       /\ shown \subseteq named /\ (named = shown \/ report.reported = MaxIPs)
       /\ \A a \in shown, other \in named \ shown : First(a) < First(other)
       /\ \A x, y \in lines : x.at < y.at => First(x.entry.info.ip) < First(y.entry.info.ip)
       /\ \A line \in lines :
            LET entry == line.entry
                ip    == entry.info.ip
            IN /\ entry.count = Cardinality({i \in DOMAIN raw : raw[i] = ip})
               /\ Says("iana", ip) \cup Says("cymru", ip) # {} =>
                    entry.info.flags = {} /\ entry.info.asn = NoASN /\ entry.info.cloud = {}
=============================================================================
