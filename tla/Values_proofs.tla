--------------------------- MODULE Values_proofs ---------------------------
(***************************************************************************)
(* The value types: what holds of IpAddress for every content of the       *)
(* socket structures and byte arrays, every mask length and every range    *)
(* added, of BinaryValues for every size of the containers and every       *)
(* content of the lists, and of IpText for every text: its IPv6 parser     *)
(* agrees with the notation, and what is written is read back.             *)
(***************************************************************************)
EXTENDS IpAddress, BinaryValues, IpText, SequenceTheorems, WellFoundedInduction, NaturalsInduction, TLAPS

\* Every set of natural numbers has a least one.
LessThan == {ss \in Nat \X Nat : ss[1] < ss[2]}

LEMMA LessThanIsWellFounded == IsWellFoundedOn(LessThan, Nat)
  BY NatLessThanWellFounded, Zenon DEF OpToRel, LessThan

LEMMA LeastNumber ==
    ASSUME NEW T, T \subseteq Nat, T # {}
    PROVE  \E x \in T : \A y \in T : x <= y
<1>1. PICK x \in T : \A y \in T : ~ (<<y, x>> \in LessThan)
    BY LessThanIsWellFounded, WFMin
<1>2. \A y, z \in Nat : y < z => <<y, z>> \in LessThan
    BY DEF LessThan
<1>3. \A y \in T : x <= y
  <2> TAKE y \in T
  <2>1. ~ (y < x)
      BY <1>1, <1>2
  <2> QED
      BY <2>1
<1> QED
    BY <1>3

-----------------------------------------------------------------------------
(* IP addresses.                                                            *)

Addresses == [version : {"ipv4", "ipv6"}, kind : {"host", "network"},
              data : SUBSET Nat, mask : Nat]

VersionOf(c) == IF c \in {"h4", "n4"} THEN "ipv4" ELSE "ipv6"
KindOf(c) == IF c \in {"h4", "h6"} THEN "host" ELSE "network"

\* An object keeps its class, a host has no mask and a network holds what its
\* mask leaves.
Fits(a, version, kind) ==
    /\ a \in Addresses
    /\ a.version = version
    /\ a.kind = kind
    /\ kind = "host" => a.mask = 0
    /\ kind = "network" => a.data = Masked(a.data, a.mask)

IpInv ==
    /\ addr \in [Classes -> Addresses]
    /\ \A c \in Classes : Fits(addr[c], VersionOf(c), KindOf(c))
-----------------------------------------------------------------------------
\* A number is its whole bytes and the bits of the next one.
LEMMA BytesAndBits ==
    ASSUME NEW n \in Nat
    PROVE  /\ n \div 8 \in Nat
           /\ n % 8 \in 0 .. 7
           /\ n = 8 * (n \div 8) + (n % 8)
  OBVIOUS

(***************************************************************************)
(* calculate_mask sets whole bytes and then bits of the next one: together *)
(* they are the first bits, as many as the length says.                    *)
(***************************************************************************)
LEMMA MaskIsPrefix ==
    ASSUME NEW n \in Nat, NEW i \in Nat
    PROVE  CalculateMask(n, i) <=> i < n
<1>1. /\ n = 8 * (n \div 8) + (n % 8) /\ n % 8 \in 0 .. 7 /\ n \div 8 \in Nat
      /\ i = 8 * (i \div 8) + (i % 8) /\ i % 8 \in 0 .. 7 /\ i \div 8 \in Nat
    BY BytesAndBits
<1>2. ASSUME NEW a \in Nat, NEW b \in Nat, NEW c \in 0 .. 7, NEW d \in 0 .. 7
      PROVE  (a < b \/ (a = b /\ c < d)) <=> 8 * a + c < 8 * b + d
    OBVIOUS
<1>3. (i \div 8 < n \div 8 \/ (i \div 8 = n \div 8 /\ i % 8 < n % 8)) <=>
         8 * (i \div 8) + (i % 8) < 8 * (n \div 8) + (n % 8)
    BY <1>1, <1>2
<1> QED
    BY <1>1, <1>3 DEF CalculateMask

\* So masking keeps the first bits, and does so once and for all.
LEMMA MaskedIsFirst ==
    ASSUME NEW n \in Nat, NEW data \in SUBSET Nat
    PROVE  /\ Masked(data, n) = First(n, data)
           /\ Masked(data, n) \in SUBSET Nat
           /\ Masked(Masked(data, n), n) = Masked(data, n)
  BY MaskIsPrefix DEF Masked, First
-----------------------------------------------------------------------------
\* What the constructors of the model build.
LEMMA ConstructedFits ==
    ASSUME NEW version \in {"ipv4", "ipv6"}, NEW n \in Nat, NEW data \in SUBSET Nat
    PROVE  /\ Fits(Host(version, data), version, "host")
           /\ Fits(Network(version, n, data), version, "network")
<1>1. Masked(data, n) \in SUBSET Nat /\ Masked(Masked(data, n), n) = Masked(data, n)
    BY MaskedIsFirst
<1>2. Host(version, data) \in Addresses /\ Network(version, n, data) \in Addresses
    BY <1>1 DEF Addresses, Host, Network
<1> QED
    BY <1>1, <1>2 DEF Fits, Host, Network

\* A binary made of a list has its bits in its bytes.
LEMMA ListContents ==
    ASSUME NEW list
    PROVE  FromList(16, list).bits \in SUBSET Nat
<1>1. FromList(16, list).bits = Aligned(Array(list), Zero(16)) \cup {}
    BY DEF FromList, Copy, Zero
<1>2. Aligned(Array(list), Zero(16)) \in SUBSET Nat
    BY DEF Aligned, Zero
<1> QED
    BY <1>1, <1>2

\* The contents of an address of the other version, and the mapping prefix.
LEMMA ConvertedContents ==
    ASSUME NEW data \in SUBSET Nat
    PROVE  /\ LastFour(data) \in SUBSET Nat
           /\ rfc_ipv4map.data \cup AtTheEnd(data) \in SUBSET Nat
<1>1. LastFour(data) \in SUBSET Nat /\ AtTheEnd(data) \in SUBSET Nat
    BY DEF LastFour, AtTheEnd
<1>2. Ipv6Numbers[3] = Range6(96, <<255, 255, 0, 0, 0, 0>>, {"originated"})
    BY DEF Ipv6Numbers
<1>3. \A list : FromList(16, list).bits \in SUBSET Nat
    BY ListContents
<1>4. rfc_ipv4map.data = Masked(FromList(16, <<255, 255, 0, 0, 0, 0>>).bits, 96)
    BY <1>2 DEF rfc_ipv4map, Range6, Network
<1>5. rfc_ipv4map.data \in SUBSET Nat
    BY <1>3, <1>4, MaskedIsFirst
<1> QED
    BY <1>1, <1>5
-----------------------------------------------------------------------------
LEMMA IpInitInv == IpInit => IpInv
<1> SUFFICES ASSUME IpInit PROVE IpInv
    OBVIOUS
<1>1. /\ Fits(Host("ipv4", {}), "ipv4", "host") /\ Fits(Host("ipv6", {}), "ipv6", "host")
      /\ Fits(Network("ipv4", 8, {}), "ipv4", "network")
      /\ Fits(Network("ipv6", 128, {}), "ipv6", "network")
    BY ConstructedFits
<1> QED
    BY <1>1 DEF IpInit, IpInv, Classes, VersionOf, KindOf, Unspecified4, Unspecified6, Fits

\* An object that becomes another of its own class.
LEMMA BecomeInv ==
    ASSUME IpInv, NEW c \in Classes, NEW results, Become(c, results),
           \A new \in results : Fits(new, VersionOf(c), KindOf(c))
    PROVE  IpInv'
  BY DEF IpInv, Become, Fits

\* The objects as the assignments find them.
LEMMA ObjectsFit ==
    ASSUME IpInv, NEW c \in Classes
    PROVE  /\ Fits(addr[c], VersionOf(c), KindOf(c))
           /\ addr[c].data \in SUBSET Nat /\ addr[c].mask \in Nat
           /\ addr[c].version = VersionOf(c) /\ addr[c].version \in {"ipv4", "ipv6"}
           /\ addr[c].kind = KindOf(c) /\ addr[c].kind \in {"host", "network"}
  BY DEF IpInv, Fits, Addresses

\* operator = of the four classes, given an address of any of them.
LEMMA AssignedFits ==
    ASSUME IpInv, NEW c \in Classes, NEW d \in Classes, NEW new \in Assigned(addr[c], addr[d])
    PROVE  Fits(new, VersionOf(c), KindOf(c))
<1> DEFINE self == addr[c]
           rhs == addr[d]
<1>1. /\ self.mask \in Nat /\ rhs.mask \in Nat /\ rhs.data \in SUBSET Nat
      /\ self.version = VersionOf(c) /\ self.version \in {"ipv4", "ipv6"}
      /\ self.kind = KindOf(c) /\ self.kind \in {"host", "network"}
    BY ObjectsFit
<1>2. LastFour(rhs.data) \in SUBSET Nat
      /\ rfc_ipv4map.data \cup AtTheEnd(rhs.data) \in SUBSET Nat
    BY <1>1, ConvertedContents
<1> HIDE DEF self, rhs
<1>3. \/ \E data \in SUBSET Nat : new = Host(self.version, data) /\ self.kind = "host"
      \/ \E n \in Nat, data \in SUBSET Nat :
            new = Network(self.version, n, data) /\ self.kind = "network"
  <2>1. new \in Assigned(self, rhs)
      BY DEF self, rhs
  <2>2. CASE self.version = "ipv6" /\ self.kind = "host"
      BY <1>1, <1>2, <2>1, <2>2 DEF Assigned, V6HostAssign
  <2>3. CASE self.version = "ipv6" /\ self.kind = "network"
      BY <1>1, <1>2, <2>1, <2>3 DEF Assigned, V6NetworkAssign
  <2>4. CASE self.version = "ipv4" /\ self.kind = "host"
      BY <1>1, <1>2, <2>1, <2>4 DEF Assigned, V4HostAssign
  <2>5. CASE self.version = "ipv4" /\ self.kind = "network"
      BY <1>1, <1>2, <2>1, <2>5 DEF Assigned, V4NetworkAssign
  <2> QED
      BY <1>1, <2>2, <2>3, <2>4, <2>5
<1> QED
    BY <1>1, <1>3, ConstructedFits

\* operator = of the four classes, given a socket structure or an array.
LEMMA StructuresFit ==
    ASSUME IpInv, NEW c \in Classes, NEW data \in SUBSET Nat,
           NEW new \in FromInAddr(addr[c], data) \cup FromIn6Addr(addr[c], data)
    PROVE  Fits(new, VersionOf(c), KindOf(c))
<1> DEFINE self == addr[c]
<1>1. /\ self.mask \in Nat
      /\ self.version = VersionOf(c) /\ self.version \in {"ipv4", "ipv6"}
      /\ self.kind = KindOf(c) /\ self.kind \in {"host", "network"}
    BY ObjectsFit
<1>2. LastFour(data) \in SUBSET Nat /\ rfc_ipv4map.data \cup AtTheEnd(data) \in SUBSET Nat
    BY ConvertedContents
<1>3. new \in FromInAddr(self, data) \cup FromIn6Addr(self, data)
    BY DEF self
<1> HIDE DEF self
<1>4. \/ \E bits \in SUBSET Nat : new = Host(self.version, bits) /\ self.kind = "host"
      \/ \E bits \in SUBSET Nat :
            new = Network(self.version, self.mask, bits) /\ self.kind = "network"
  <2>1. CASE new \in FromInAddr(self, data)
      BY <1>1, <1>2, <2>1 DEF FromInAddr, V6AssignInAddr, Same
  <2>2. CASE new \in FromIn6Addr(self, data)
      BY <1>1, <1>2, <2>2 DEF FromIn6Addr, V4AssignIn6Addr, Same
  <2> QED
      BY <1>3, <2>1, <2>2
<1> QED
    BY <1>1, <1>4, ConstructedFits

LEMMA IpStepInv == IpInv /\ [IpNext]_ipVars => IpInv'
<1> SUFFICES ASSUME IpInv, [IpNext]_ipVars PROVE IpInv'
    OBVIOUS
<1>1. ASSUME NEW c \in Classes, NEW d \in Classes, AssignAddress(c, d) PROVE IpInv'
    BY <1>1, AssignedFits, BecomeInv DEF AssignAddress
<1>2. \A data \in Data4 \cup Data6 : data \in SUBSET Nat
    BY DataAssumption
<1>3. ASSUME NEW c \in Classes, NEW data \in Data4, AssignInAddr(c, data) PROVE IpInv'
  <2>1. \A new \in FromInAddr(addr[c], data) : Fits(new, VersionOf(c), KindOf(c))
      BY <1>2, StructuresFit
  <2> QED
      BY <1>3, <2>1, BecomeInv DEF AssignInAddr
<1>4. ASSUME NEW c \in Classes, NEW data \in Data6, AssignIn6Addr(c, data) PROVE IpInv'
  <2>1. \A new \in FromIn6Addr(addr[c], data) : Fits(new, VersionOf(c), KindOf(c))
      BY <1>2, StructuresFit
  <2> QED
      BY <1>4, <2>1, BecomeInv DEF AssignIn6Addr
<1>5. ASSUME NEW length \in Lengths, NEW data \in Data4, Construct4(length, data) PROVE IpInv'
  <2>1. \A new \in V4NetworkConstruct(length, data) : Fits(new, "ipv4", "network")
      BY <1>2, DataAssumption, ConstructedFits DEF V4NetworkConstruct
  <2> QED
      BY <1>5, <2>1, BecomeInv DEF Construct4, Classes, VersionOf, KindOf
<1>6. ASSUME NEW length \in Lengths, NEW data \in Data6, Construct6(length, data) PROVE IpInv'
  <2>1. \A new \in V6NetworkConstruct(length, data) : Fits(new, "ipv6", "network")
      BY <1>2, DataAssumption, ConstructedFits DEF V6NetworkConstruct
  <2> QED
      BY <1>6, <2>1, BecomeInv DEF Construct6, Classes, VersionOf, KindOf
<1>7. ASSUME NEW range \in NewRanges, add(range) PROVE IpInv'
    BY <1>7 DEF add, IpInv
<1>8. CASE UNCHANGED ipVars
    BY <1>8 DEF ipVars, IpInv
<1> QED
    BY <1>1, <1>3, <1>4, <1>5, <1>6, <1>7, <1>8 DEF IpNext

\* What has() compares are the first bits of both sides.
LEMMA InComparesPrefixes == IpInv => MembershipIsPrefix
<1> SUFFICES ASSUME IpInv, NEW c \in {"n4", "n6"}, NEW d \in Classes,
                    addr[c].version = addr[d].version
             PROVE  In(addr[d], addr[c]) <=>
                       First(addr[c].mask, addr[c].data) = First(addr[c].mask, addr[d].data)
    BY DEF MembershipIsPrefix
<1>1. c \in Classes
    BY DEF Classes
<1>2. addr[c].mask \in Nat /\ addr[c].data \in SUBSET Nat /\ addr[d].data \in SUBSET Nat
    BY <1>1, ObjectsFit
<1>3. addr[c].data = Masked(addr[c].data, addr[c].mask)
    BY <1>1, ObjectsFit DEF Fits, KindOf
<1>4. /\ Masked(addr[c].data, addr[c].mask) = First(addr[c].mask, addr[c].data)
      /\ Masked(addr[d].data, addr[c].mask) = First(addr[c].mask, addr[d].data)
    BY <1>2, MaskedIsFirst
<1> QED
    BY <1>3, <1>4 DEF In, Has

(***************************************************************************)
(* Whatever addresses, structures and arrays the four objects are assigned,*)
(* and whatever masks networks are constructed with, is an address in a    *)
(* network exactly when their first bits are the same (calculate_mask,     *)
(* has, and every constructor and operator = of the networks).             *)
(***************************************************************************)
THEOREM NetworksHoldPrefixes == IpSpec => []MembershipIsPrefix
<1> QED
    BY IpInitInv, IpStepInv, InComparesPrefixes, PTL DEF IpSpec
-----------------------------------------------------------------------------
(* Equality and conversion between the versions.                            *)

\* The prefix that IPv4 addresses are mapped with: 96 bits of the third range.
LEMMA MappingPrefix ==
    /\ 3 \in DOMAIN Ipv6Numbers
    /\ Ipv6Numbers[3].net = rfc_ipv4map
    /\ "originated" \in Ipv6Numbers[3].attributes
    /\ rfc_ipv4map.version = "ipv6"
    /\ rfc_ipv4map.mask = 96
    /\ rfc_ipv4map.data \in SUBSET Nat
    /\ \A i \in rfc_ipv4map.data : i < 96
<1>1. Ipv6Numbers[3] = Range6(96, <<255, 255, 0, 0, 0, 0>>, {"originated"})
      /\ 3 \in DOMAIN Ipv6Numbers
    BY DEF Ipv6Numbers
<1>2. rfc_ipv4map = Network("ipv6", 96, FromList(16, <<255, 255, 0, 0, 0, 0>>).bits)
      /\ Ipv6Numbers[3].net = rfc_ipv4map /\ "originated" \in Ipv6Numbers[3].attributes
    BY <1>1 DEF rfc_ipv4map, Range6
<1>3. rfc_ipv4map.version = "ipv6" /\ rfc_ipv4map.mask = 96
    BY <1>2 DEF Network
<1>4. PICK bits \in SUBSET Nat : rfc_ipv4map.data = Masked(bits, 96)
  <2>1. rfc_ipv4map.data = Masked(FromList(16, <<255, 255, 0, 0, 0, 0>>).bits, 96)
      BY <1>2 DEF Network
  <2> QED
      BY <2>1, ListContents
<1>5. rfc_ipv4map.data = First(96, bits) /\ rfc_ipv4map.data \in SUBSET Nat
  <2>1. 96 \in Nat
      OBVIOUS
  <2> QED
      BY <1>4, <2>1, MaskedIsFirst, Zenon
<1> QED
    BY <1>1, <1>2, <1>3, <1>5 DEF First

\* An IPv4 address that is mapped is recognised, and its last bytes give it back.
LEMMA MappedAddress ==
    ASSUME NEW data \in SUBSET Nat
    PROVE  LET mapped == Host("ipv6", rfc_ipv4map.data \cup AtTheEnd(data))
           IN  is_ipv4_host(mapped) /\ LastFour(mapped.data) = data
<1> DEFINE prefix == rfc_ipv4map.data
           all == prefix \cup AtTheEnd(data)
           mapped == Host("ipv6", all)
<1>1. prefix \in SUBSET Nat /\ \A i \in prefix : i < 96
    BY MappingPrefix
<1> HIDE DEF prefix
<1>2. \A i \in AtTheEnd(data) : i \in Nat /\ i >= 96
    BY DEF AtTheEnd
<1>3. all \in SUBSET Nat /\ First(96, all) = prefix
  <2>1. all \in SUBSET Nat /\ prefix \subseteq all
      BY <1>1, <1>2
  <2>2. \A i \in all : i < 96 <=> i \in prefix
    <3> TAKE i \in all
    <3>1. CASE i \in prefix
        BY <1>1, <3>1
    <3>2. CASE i \in AtTheEnd(data)
      <4>1. i \in Nat /\ i >= 96
          BY <1>2, <3>2
      <4>2. ~(i < 96)
          BY <4>1
      <4> QED
          BY <1>1, <4>2
    <3> QED
        BY <3>1, <3>2
  <2> HIDE DEF all
  <2> QED
      BY <2>1, <2>2 DEF First
<1>4. Masked(all, 96) = prefix
    BY <1>3, MaskedIsFirst
<1>5. LastFour(all) = data
  <2>1. \A i \in data : i + 96 \in all /\ i + 96 >= 96 /\ (i + 96) - 96 = i
      BY DEF AtTheEnd
  <2>2. \A j \in all : j >= 96 => j - 96 \in data
      BY <1>1 DEF AtTheEnd
  <2> HIDE DEF all
  <2> QED
      BY <2>1, <2>2 DEF LastFour
<1>6. mapped.version = "ipv6" /\ mapped.kind = "host" /\ mapped.data = all
    BY DEF Host
<1> HIDE DEF all, mapped
<1>7. In(mapped, rfc_ipv4map)
    BY <1>4, <1>6, MappingPrefix DEF In, Has, prefix
<1>8. is_ipv4_host(mapped)
    BY <1>6, <1>7, MappingPrefix DEF is_ipv4_host
<1> QED
    BY <1>5, <1>6, <1>8 DEF mapped, all, prefix

LEMMA EqualityConverts == IpInv => EqualityIsConversion
<1> SUFFICES ASSUME IpInv PROVE EqualityIsConversion
    OBVIOUS
<1>1. ASSUME NEW c \in Classes, NEW d \in Classes
      PROVE  AddressEquals(addr[c], addr[d]) <=> AddressEquals(addr[d], addr[c])
  <2> DEFINE a == addr[c]
             b == addr[d]
  <2>1. /\ a.version \in {"ipv4", "ipv6"} /\ a.kind \in {"host", "network"}
        /\ b.version \in {"ipv4", "ipv6"} /\ b.kind \in {"host", "network"}
      BY ObjectsFit
  <2> HIDE DEF a, b
  <2>2. AddressEquals(a, b) <=> AddressEquals(b, a)
      BY <2>1 DEF AddressEquals, Equals4, Equals6, V4HostEquals, V6HostEquals, NetworkEquals
  <2> QED
      BY <2>2 DEF a, b
<1>2. /\ addr.h4 = addr["h4"] /\ addr.h4 = Host("ipv4", addr.h4.data) /\ addr.h4.data \in SUBSET Nat
      /\ addr.h6 = addr["h6"] /\ addr.h6.version = "ipv6" /\ addr.h6.kind = "host"
  <2>1. "h4" \in Classes /\ "h6" \in Classes
      BY DEF Classes
  <2>2. Fits(addr["h4"], "ipv4", "host") /\ Fits(addr["h6"], "ipv6", "host")
      BY <2>1, ObjectsFit DEF VersionOf, KindOf
  <2> QED
      BY <2>2 DEF Fits, Addresses, Host
<1> DEFINE a == addr.h4
           b == addr.h6
<1>3. a.version = "ipv4" /\ a.kind = "host"
    BY <1>2 DEF Host
<1> HIDE DEF a, b
<1>4. AddressEquals(a, b) <=> (V4HostAssign(a, b) = {a} /\ ToInAddr(b) = ToInAddr(a))
  <2>1. ToInAddr(a) = {a.data} /\ ToInAddr(b) = V6HostToInAddr(b)
      BY <1>2, <1>3 DEF ToInAddr, a, b
  <2>2. V4HostAssign(a, b) = IF is_ipv4_host(b) THEN {Host("ipv4", LastFour(b.data))} ELSE {}
      BY <1>2 DEF V4HostAssign, b
  <2>3. AddressEquals(a, b) <=> is_ipv4_host(b) /\ a.data = LastFour(b.data)
      BY <1>2, <1>3 DEF AddressEquals, Equals4, V4HostEquals, b
  <2>4. a = Host("ipv4", a.data)
      BY <1>2 DEF a
  <2> QED
      BY <2>1, <2>2, <2>3, <2>4 DEF V6HostToInAddr, Host
<1>5. ASSUME NEW mapped \in V6HostAssign(b, a)
      PROVE  /\ AddressEquals(mapped, a)
             /\ V4HostAssign(a, mapped) = {a}
             /\ ToIn6Addr(a) = ToIn6Addr(mapped)
  <2>1. mapped = Host("ipv6", rfc_ipv4map.data \cup AtTheEnd(a.data))
      BY <1>3, <1>5 DEF V6HostAssign
  <2>2. is_ipv4_host(mapped) /\ LastFour(mapped.data) = a.data
      BY <1>2, <2>1, MappedAddress DEF a
  <2>3. mapped.version = "ipv6" /\ mapped.kind = "host"
        /\ mapped.data = rfc_ipv4map.data \cup AtTheEnd(a.data)
      BY <2>1 DEF Host
  <2>4. AddressEquals(mapped, a)
      BY <1>3, <2>2, <2>3 DEF AddressEquals, Equals6, V6HostEquals
  <2>5. V4HostAssign(a, mapped) = {a}
      BY <1>2, <2>2, <2>3 DEF V4HostAssign, a
  <2>6. ToIn6Addr(a) = ToIn6Addr(mapped)
      BY <1>3, <2>3 DEF ToIn6Addr, V4HostToIn6Addr
  <2> QED
      BY <2>4, <2>5, <2>6
<1> QED
    BY <1>1, <1>4, <1>5 DEF EqualityIsConversion, a, b

(***************************************************************************)
(* Whatever the four objects hold, the two functions that decide equality, *)
(* one per version of the left operand, agree, and hosts of different      *)
(* version are equal exactly when they convert into each other, as objects *)
(* and as socket structures (operator == and operator = of the hosts, the  *)
(* conversion operators to in_addr and in6_addr).                          *)
(***************************************************************************)
THEOREM EqualHostsConvert == IpSpec => []EqualityIsConversion
<1> QED
    BY IpInitInv, IpStepInv, EqualityConverts, PTL DEF IpSpec
-----------------------------------------------------------------------------
(* The tables: the range that decides.                                      *)

\* The ranges an address is in, and the one of them that has_attribute selects.
Holding(table, a) == {i \in DOMAIN table : In(a, table[i].net)}

Narrowest(table, a, i) ==
    \A j \in Holding(table, a) \ {i} :
        \/ table[j].net.mask < table[i].net.mask
        \/ table[j].net.mask = table[i].net.mask /\ i < j

HasMasks(table) ==
    /\ DOMAIN table \subseteq Nat
    /\ \A i \in DOMAIN table : table[i].net.mask \in 0 .. 128

LEMMA OneIsNarrowest ==
    ASSUME NEW table, HasMasks(table), NEW a, Holding(table, a) # {}
    PROVE  \E i \in Holding(table, a) : Narrowest(table, a, i)
<1> DEFINE H == Holding(table, a)
           M == {128 - table[i].net.mask : i \in H}
<1>1. H \subseteq Nat /\ \A i \in H : table[i].net.mask \in 0 .. 128
    BY DEF Holding, HasMasks
<1>2. M \subseteq Nat /\ M # {}
    BY <1>1
<1> HIDE DEF H
<1>3. PICK m \in M : \A n \in M : m <= n
    BY <1>2, LeastNumber
<1> DEFINE W == {i \in H : 128 - table[i].net.mask = m}
<1>4. W \subseteq Nat /\ W # {}
    BY <1>1
<1>5. PICK i \in W : \A j \in W : i <= j
    BY <1>4, LeastNumber
<1>6. ASSUME NEW j \in H \ {i}
      PROVE  \/ table[j].net.mask < table[i].net.mask
             \/ table[j].net.mask = table[i].net.mask /\ i < j
  <2>1. m <= 128 - table[j].net.mask
      BY <1>3
  <2>2. i \in Nat /\ j \in Nat /\ i # j
      BY <1>1
  <2>3. \A k \in H : table[k].net.mask \in Int
      BY <1>1
  <2>4. i \in H /\ m = 128 - table[i].net.mask
      OBVIOUS
  <2>5. table[j].net.mask = table[i].net.mask => i <= j
      BY <1>5
  <2> HIDE DEF W, M
  <2> QED
      BY <2>1, <2>2, <2>3, <2>4, <2>5
<1> QED
    BY <1>5, <1>6 DEF Narrowest, H

LEMMA NarrowestDecides ==
    ASSUME NEW table, HasMasks(table), NEW a, NEW which,
           NEW i \in Holding(table, a), Narrowest(table, a, i)
    PROVE  has_attribute(table, a, which) <=> which \in table[i].attributes
<1> DEFINE H == Holding(table, a)
<1>1. ASSUME NEW j \in H, NEW k \in H, Narrowest(table, a, j), Narrowest(table, a, k)
      PROVE  j = k
  <2>1. table[j].net.mask \in Int /\ table[k].net.mask \in Int /\ j \in Int /\ k \in Int
      BY DEF Holding, HasMasks
  <2> QED
      BY <1>1, <2>1 DEF Narrowest
<1>2. has_attribute(table, a, which) <=>
          which \in IF H = {} THEN default_attributes
                    ELSE table[CHOOSE j \in H : Narrowest(table, a, j)].attributes
    BY DEF has_attribute, Holding, Narrowest
<1>3. (CHOOSE j \in H : Narrowest(table, a, j)) = i
  <2> HIDE DEF H
  <2>1. i \in H
      BY DEF H
  <2> QED
      BY <1>1, <2>1
<1> QED
    BY <1>2, <1>3

LEMMA NobodyDecides ==
    ASSUME NEW table, NEW a, NEW which, Holding(table, a) = {}
    PROVE  has_attribute(table, a, which) <=> which \in default_attributes
  BY DEF has_attribute, Holding

\* A range more at the end of a table decides for the addresses in it that are
\* in no range as narrow.
LEMMA OneRangeMore ==
    ASSUME NEW table, HasMasks(table), NEW longer, HasMasks(longer), NEW n \in Nat,
           DOMAIN longer = DOMAIN table \cup {n},
           \A i \in DOMAIN table : i < n /\ longer[i] = table[i],
           NEW a, NEW which
    PROVE  LET decides == /\ In(a, longer[n].net)
                          /\ \A i \in DOMAIN table :
                                In(a, table[i].net) => table[i].net.mask < longer[n].net.mask
           IN  has_attribute(longer, a, which) <=>
                 IF decides THEN which \in longer[n].attributes ELSE has_attribute(table, a, which)
<1> DEFINE H == Holding(table, a)
           decides == /\ In(a, longer[n].net)
                      /\ \A i \in DOMAIN table :
                            In(a, table[i].net) => table[i].net.mask < longer[n].net.mask
<1>1. /\ H \subseteq DOMAIN table /\ n \notin H
      /\ \A i \in H : longer[i] = table[i] /\ i < n
    BY DEF Holding
<1>2. Holding(longer, a) = IF In(a, longer[n].net) THEN H \cup {n} ELSE H
    BY DEF Holding
<1>3. CASE decides
  <2>1. n \in Holding(longer, a)
      BY <1>2, <1>3
  <2>2. Narrowest(longer, a, n)
      BY <1>1, <1>2, <1>3 DEF Narrowest, Holding
  <2> QED
      BY <1>3, <2>1, <2>2, NarrowestDecides
<1>4. CASE ~decides /\ H = {}
  <2>1. Holding(longer, a) = {}
      BY <1>2, <1>4 DEF Holding
  <2> QED
      BY <1>4, <2>1, NobodyDecides
<1>5. CASE ~decides /\ H # {}
  <2>1. PICK i \in H : Narrowest(table, a, i)
      BY <1>5, OneIsNarrowest
  <2>2. i \in Holding(longer, a)
      BY <1>2
  <2>3. Narrowest(longer, a, i)
    <3> SUFFICES ASSUME NEW j \in Holding(longer, a) \ {i}
                 PROVE  \/ longer[j].net.mask < longer[i].net.mask
                        \/ longer[j].net.mask = longer[i].net.mask /\ i < j
        BY DEF Narrowest
    <3>1. CASE j \in H
        BY <1>1, <2>1, <3>1 DEF Narrowest
    <3>2. CASE j = n /\ In(a, longer[n].net)
      <4>1. PICK k \in H : ~ (table[k].net.mask < longer[n].net.mask)
          BY <1>5, <3>2 DEF Holding
      <4>2. /\ table[k].net.mask \in Int /\ table[i].net.mask \in Int
            /\ longer[n].net.mask \in Int
          BY <1>1 DEF HasMasks
      <4>3. table[k].net.mask <= table[i].net.mask
          BY <2>1, <4>1, <4>2 DEF Narrowest
      <4> QED
          BY <1>1, <3>2, <4>1, <4>2, <4>3
    <3> QED
        BY <1>2, <3>1, <3>2
  <2>4. longer[i] = table[i]
      BY <1>1
  <2> QED
      BY <1>5, <2>1, <2>2, <2>3, <2>4, NarrowestDecides
<1> QED
    BY <1>3, <1>4, <1>5

\* The ranges both tables are built from.
KnownRanges ==
    {Ipv4Numbers[i] : i \in DOMAIN Ipv4Numbers} \cup {Ipv6Numbers[i] : i \in DOMAIN Ipv6Numbers}

LEMMA TablesHaveMasks ==
    /\ Ipv4Numbers \in Seq(KnownRanges) /\ Ipv6Numbers \in Seq(KnownRanges)
    /\ \A range \in KnownRanges : range.net.mask \in 0 .. 128
<1>1. /\ \A length, bytes, attributes : Range4(length, bytes, attributes).net.mask = length
      /\ \A length, bytes, attributes : Range6(length, bytes, attributes).net.mask = length
    BY DEF Range4, Range6, Network
<1>2. \A i \in DOMAIN Ipv4Numbers : Ipv4Numbers[i].net.mask \in 0 .. 128
    BY <1>1, SMTT(60) DEF Ipv4Numbers
<1>5. \A i \in DOMAIN Ipv6Numbers : Ipv6Numbers[i].net.mask \in 0 .. 128
    BY <1>1, SMTT(60) DEF Ipv6Numbers
<1>3. /\ Ipv4Numbers \in Seq({Ipv4Numbers[i] : i \in DOMAIN Ipv4Numbers})
      /\ Ipv6Numbers \in Seq({Ipv6Numbers[i] : i \in DOMAIN Ipv6Numbers})
    BY DEF Ipv4Numbers, Ipv6Numbers
<1>4. \A S, T : S \subseteq T => Seq(S) \subseteq Seq(T)
    OBVIOUS
<1> QED
    BY <1>2, <1>3, <1>4, <1>5 DEF KnownRanges

AddedInv == added \in [{"ipv4", "ipv6"} -> Seq(NewRanges)]

LEMMA AddedStep == AddedInv /\ [IpNext]_ipVars => AddedInv'
<1> SUFFICES ASSUME AddedInv, [IpNext]_ipVars PROVE AddedInv'
    OBVIOUS
<1>1. CASE UNCHANGED added
    BY <1>1 DEF AddedInv
<1>2. ASSUME NEW range \in NewRanges, add(range) PROVE AddedInv'
    BY <1>2, RangesAssumption DEF add, AddedInv
<1> QED
    BY <1>1, <1>2 DEF IpNext, AssignAddress, AssignInAddr, AssignIn6Addr, Construct4, Construct6,
                      Become, ipVars

\* A table with what was added to it.
LEMMA TableWithAdded ==
    ASSUME AddedInv, NEW v \in {"ipv4", "ipv6"}
    PROVE  /\ Numbers(v, added) \in Seq(KnownRanges \cup NewRanges)
           /\ HasMasks(Numbers(v, added))
           /\ \A range \in NewRanges :
                 LET more == [added EXCEPT ![v] = Append(@, range)]
                 IN  Numbers(v, more) = Append(Numbers(v, added), range)
<1> DEFINE S == KnownRanges \cup NewRanges
           base == IF v = "ipv4" THEN Ipv4Numbers ELSE Ipv6Numbers
<1>1. base \in Seq(S) /\ added[v] \in Seq(S)
  <2>1. \A A, B : Seq(A) \subseteq Seq(A \cup B) /\ Seq(B) \subseteq Seq(A \cup B)
      OBVIOUS
  <2>2. base \in Seq(KnownRanges)
      BY TablesHaveMasks
  <2>3. added[v] \in Seq(NewRanges)
      BY DEF AddedInv
  <2> QED
      BY <2>1, <2>2, <2>3
<1>2. Numbers(v, added) = base \o added[v]
    BY DEF Numbers
<1>3. \A r \in S : r.net.mask \in 0 .. 128
    BY TablesHaveMasks, RangesAssumption
<1> HIDE DEF S, base
<1>4. Numbers(v, added) \in Seq(S)
    BY <1>1, <1>2, ConcatProperties
<1>5. HasMasks(Numbers(v, added))
  <2>1. \A t \in Seq(S) : DOMAIN t \subseteq Nat /\ \A i \in DOMAIN t : t[i] \in S
      BY LenProperties, ElementOfSeq
  <2> QED
      BY <1>3, <1>4, <2>1 DEF HasMasks
<1>6. ASSUME NEW range \in NewRanges
      PROVE  Numbers(v, [added EXCEPT ![v] = Append(@, range)]) = Append(Numbers(v, added), range)
  <2>1. range \in S
      BY DEF S
  <2>2. Numbers(v, [added EXCEPT ![v] = Append(@, range)]) = base \o Append(added[v], range)
      BY DEF AddedInv, Numbers, base
  <2>3. /\ Append(added[v], range) = added[v] \o <<range>>
        /\ Append(base \o added[v], range) = (base \o added[v]) \o <<range>>
        /\ <<range>> \in Seq(S)
      BY <1>1, <1>2, <1>4, <2>1, AppendIsConcat
  <2>4. (base \o added[v]) \o <<range>> = base \o (added[v] \o <<range>>)
    <3> DEFINE s == added[v]
               t == <<range>>
    <3>1. base \in Seq(S) /\ s \in Seq(S) /\ t \in Seq(S)
        BY <1>1, <2>3
    <3> HIDE DEF s, t
    <3>2. (base \o s) \o t = base \o (s \o t)
        BY <3>1, ConcatAssociative
    <3> QED
        BY <3>2 DEF s, t
  <2> QED
      BY <1>2, <2>2, <2>3, <2>4
<1> QED
    BY <1>4, <1>5, <1>6 DEF S

\* What a call of add is to leave of is().
StaysLocal(v, c, attribute) ==
    LET range == added'[v][Len(added'[v])]
        table == Numbers(addr[c].version, added)
        decides == /\ In(addr[c], range.net)
                   /\ \A i \in DOMAIN table : In(addr[c], table[i].net)
                                                 => table[i].net.mask < range.net.mask
    IN  Is(addr[c], attribute, added') <=>
          IF decides THEN attribute \in range.attributes ELSE Is(addr[c], attribute, added)

LEMMA AddingIsLocal ==
    ASSUME IpInv, AddedInv, NEW range \in NewRanges, add(range),
           NEW v \in {"ipv4", "ipv6"}, added'[v] # added[v],
           NEW c \in {"h4", "h6"}, NEW attribute \in Many \cup Src
    PROVE  StaysLocal(v, c, attribute)
<1> DEFINE a == addr[c]
           table == Numbers(a.version, added)
           longer == Numbers(a.version, added')
<1>1. /\ range.net.version = v
      /\ added' = [added EXCEPT ![v] = Append(@, range)]
      /\ added'[v] = Append(added[v], range)
    BY RangesAssumption DEF add, AddedInv
<1>2. added'[v][Len(added'[v])] = range
    BY <1>1, AppendProperties DEF AddedInv
<1>3. a.version \in {"ipv4", "ipv6"}
    BY ObjectsFit DEF Classes
<1>4. /\ Is(a, attribute, added) <=> has_attribute(table, a, attribute)
      /\ Is(a, attribute, added') <=> has_attribute(longer, a, attribute)
    BY DEF Is, Many, Src
<1>5. CASE a.version = v
  <2>1. longer = Append(table, range)
      BY <1>1, <1>5, TableWithAdded
  <2>2. table \in Seq(KnownRanges \cup NewRanges) /\ HasMasks(table)
      BY <1>3, TableWithAdded
  <2>3. /\ DOMAIN table = 1 .. Len(table) /\ Len(table) \in Nat
        /\ DOMAIN longer = 1 .. Len(table) + 1
        /\ longer[Len(table) + 1] = range
        /\ \A i \in DOMAIN table : longer[i] = table[i]
      BY <2>1, <2>2, AppendProperties, LenProperties
  <2> HIDE DEF table, longer, a
  <2>4. HasMasks(longer)
    <3>1. DOMAIN longer \subseteq Nat
        BY <2>3
    <3>2. ASSUME NEW i \in DOMAIN longer PROVE longer[i].net.mask \in 0 .. 128
      <4>1. i \in DOMAIN table \/ i = Len(table) + 1
          BY <2>3
      <4> QED
          BY <2>2, <2>3, <4>1, RangesAssumption DEF HasMasks
    <3> QED
        BY <3>1, <3>2 DEF HasMasks
  <2>5. DOMAIN longer = DOMAIN table \cup {Len(table) + 1} /\ \A i \in DOMAIN table : i < Len(table) + 1
      BY <2>3
  <2> QED
      BY <1>2, <1>4, <2>2, <2>3, <2>4, <2>5, OneRangeMore DEF table, a, StaysLocal
<1>6. CASE a.version # v
  <2>1. longer = table
      BY <1>1, <1>3, <1>6 DEF Numbers, AddedInv
  <2>2. ~In(a, range.net)
      BY <1>1, <1>6 DEF In
  <2> QED
      BY <1>2, <1>4, <2>1, <2>2 DEF StaysLocal
<1> QED
    BY <1>5, <1>6

(***************************************************************************)
(* Whatever ranges are added to the tables, and in whatever order, one     *)
(* decides for the addresses in it that are in no range as narrow, and     *)
(* changes what is() says of no other (special_numbers_base::add and the   *)
(* search of has_attribute).                                               *)
(***************************************************************************)
THEOREM AddingStaysLocal == IpSpec => AddedRangeIsLocal
<1>1. IpInit => AddedInv
  <2>1. <<>> \in Seq(NewRanges)
      OBVIOUS
  <2>2. \A e : [ipv4 |-> e, ipv6 |-> e] = [v \in {"ipv4", "ipv6"} |-> e]
      OBVIOUS
  <2> QED
      BY <2>1, <2>2 DEF IpInit, AddedInv
<1>2. ASSUME [IpNext]_ipVars, added' # added PROVE \E range \in NewRanges : add(range)
    BY <1>2 DEF IpNext, AssignAddress, AssignInAddr, AssignIn6Addr, Construct4, Construct6,
                Become, ipVars
<1> DEFINE Decided ==
        \A v \in {"ipv4", "ipv6"}, c \in {"h4", "h6"}, attribute \in Many \cup Src :
            added'[v] # added[v] => StaysLocal(v, c, attribute)
<1>3. IpInv /\ AddedInv /\ [IpNext]_ipVars => [Decided]_ipVars
    BY <1>2, AddingIsLocal
<1>4. IpSpec => [][Decided]_ipVars
  <2> HIDE DEF Decided
  <2> QED
      BY <1>1, <1>3, IpInitInv, IpStepInv, AddedStep, PTL DEF IpSpec
<1> QED
    BY <1>4 DEF AddedRangeIsLocal, StaysLocal
-----------------------------------------------------------------------------
(* Binary containers.                                                       *)

\* Induction, about the set of the numbers that have a property.
LEMMA AllNumbers ==
    ASSUME NEW T, 0 \in T, \A n \in Nat : n \in T => n + 1 \in T
    PROVE  \A n \in Nat : n \in T
<1> SUFFICES ASSUME NEW m \in Nat, m \notin T PROVE FALSE
    OBVIOUS
<1>1. PICK n \in Nat \ T : \A k \in Nat \ T : n <= k
  <2>1. Nat \ T \subseteq Nat /\ Nat \ T # {}
      OBVIOUS
  <2> QED
      BY <2>1, LeastNumber
<1>2. n # 0 /\ n - 1 \in Nat
    BY <1>1
<1>3. n - 1 \in T
    BY <1>1, <1>2
<1> QED
    BY <1>1, <1>2, <1>3

\* A recursive definition over the natural numbers has a function.
LEMMA Recursion ==
    \A start \in Nat, step \in [Nat \X Nat -> Nat] :
        \E f \in [Nat -> Nat] : f[0] = start /\ \A n \in Nat : f[n + 1] = step[<<n, f[n]>>]
<1> TAKE start \in Nat, step \in [Nat \X Nat -> Nat]
<1> DEFINE Follows(g, n) ==
               /\ g \in [0 .. n -> Nat] /\ g[0] = start
               /\ \A k \in 0 .. n - 1 : g[k + 1] = step[<<k, g[k]>>]
           T == {n \in Nat : \E g : Follows(g, n)}
<1>1. 0 \in T
  <2>1. Follows([k \in 0 .. 0 |-> start], 0)
      OBVIOUS
  <2> QED
      BY <2>1
<1>2. ASSUME NEW n \in Nat, n \in T PROVE n + 1 \in T
  <2>1. PICK g : Follows(g, n)
      BY <1>2
  <2> DEFINE h == [k \in 0 .. n + 1 |-> IF k = n + 1 THEN step[<<n, g[n]>>] ELSE g[k]]
  <2>2. g[n] \in Nat /\ <<n, g[n]>> \in Nat \X Nat
      BY <2>1
  <2>3. h \in [0 .. n + 1 -> Nat]
      BY <2>1, <2>2
  <2>4. h[0] = start
      BY <2>1
  <2>5. ASSUME NEW k \in 0 .. n PROVE h[k + 1] = step[<<k, h[k]>>]
    <3>1. k \in Nat /\ k # n + 1 /\ h[k] = g[k]
        OBVIOUS
    <3>2. CASE k = n
      <4>1. h[n + 1] = step[<<n, g[n]>>]
          OBVIOUS
      <4> QED
          BY <3>1, <3>2, <4>1
    <3>3. CASE k # n
        BY <2>1, <3>1, <3>3
    <3> QED
        BY <3>2, <3>3
  <2> HIDE DEF h
  <2>6. Follows(h, n + 1)
      BY <2>3, <2>4, <2>5
  <2> QED
      BY <2>6
<1> HIDE DEF T
<1>3. \A n \in Nat : n \in T
    BY <1>1, <1>2, AllNumbers
<1>4. \A n \in Nat : \E g : Follows(g, n)
    BY <1>3 DEF T
<1>5. ASSUME NEW n \in Nat, NEW g, Follows(g, n), NEW m \in Nat, NEW h, Follows(h, m)
      PROVE  \A k \in Nat : k <= n /\ k <= m => g[k] = h[k]
  <2> DEFINE U == {k \in Nat : k <= n /\ k <= m => g[k] = h[k]}
  <2>1. 0 \in U
      BY <1>5
  <2>2. ASSUME NEW k \in Nat, k \in U, k + 1 <= n, k + 1 <= m PROVE g[k + 1] = h[k + 1]
    <3>1. g[k] = h[k] /\ k \in 0 .. n - 1 /\ k \in 0 .. m - 1
        BY <2>2
    <3> QED
        BY <1>5, <3>1
  <2>3. ASSUME NEW k \in Nat, k \in U PROVE k + 1 \in U
    <3>1. k + 1 \in Nat
        OBVIOUS
    <3>2. k + 1 <= n /\ k + 1 <= m => g[k + 1] = h[k + 1]
        BY <2>2, <2>3, Zenon
    <3> QED
        BY <3>1, <3>2, Zenon
  <2> HIDE DEF U
  <2>4. \A k \in Nat : k \in U
      BY <2>1, <2>3, AllNumbers
  <2> QED
      BY <2>4 DEF U
<1> DEFINE G == [n \in Nat |-> CHOOSE g : Follows(g, n)]
           f == [n \in Nat |-> G[n][n]]
<1>6. \A n \in Nat : Follows(G[n], n)
    BY <1>4
<1> HIDE DEF G
<1>7. f \in [Nat -> Nat]
    BY <1>6
<1>8. f[0] = start
    BY <1>6
<1>9. ASSUME NEW n \in Nat PROVE f[n + 1] = step[<<n, f[n]>>]
  <2>1. n + 1 \in Nat /\ n <= n + 1 /\ n \in 0 .. (n + 1) - 1
      OBVIOUS
  <2>2. Follows(G[n], n) /\ Follows(G[n + 1], n + 1)
      BY <1>6, <2>1
  <2>3. G[n + 1][n + 1] = step[<<n, G[n + 1][n]>>]
      BY <2>1, <2>2
  <2>4. G[n][n] = G[n + 1][n]
    <3> HIDE DEF Follows
    <3> QED
        BY <1>5, <2>1, <2>2
  <2> QED
      BY <2>1, <2>3, <2>4
<1> QED
    BY <1>7, <1>8, <1>9

LEMMA ValueSteps ==
    ASSUME NEW bits
    PROVE  /\ ValueOf(bits) \in [Nat -> Nat]
           /\ ValueOf(bits)[0] = 0
           /\ \A n \in Nat :
                 ValueOf(bits)[n + 1] = 2 * ValueOf(bits)[n] + (IF n \in bits THEN 1 ELSE 0)
<1> DEFINE Def(v) == v = [n \in Nat |-> IF n = 0 THEN 0
                                       ELSE 2 * v[n - 1] + (IF n - 1 \in bits THEN 1 ELSE 0)]
           step == [pair \in Nat \X Nat |-> 2 * pair[2] + (IF pair[1] \in bits THEN 1 ELSE 0)]
<1>1. step \in [Nat \X Nat -> Nat]
    OBVIOUS
<1>2. \A n, k \in Nat : step[<<n, k>>] = 2 * k + (IF n \in bits THEN 1 ELSE 0)
    OBVIOUS
<1> HIDE DEF step
<1>3. PICK f \in [Nat -> Nat] : f[0] = 0 /\ \A n \in Nat : f[n + 1] = step[<<n, f[n]>>]
  <2>1. 0 \in Nat
      OBVIOUS
  <2> QED
      BY <1>1, <2>1, Recursion, Zenon
<1>4. \A n \in Nat : f[n + 1] = 2 * f[n] + (IF n \in bits THEN 1 ELSE 0)
    BY <1>2, <1>3
<1>5. Def(f)
  <2>1. \A n \in Nat : f[n] = IF n = 0 THEN 0
                             ELSE 2 * f[n - 1] + (IF n - 1 \in bits THEN 1 ELSE 0)
    <3> TAKE n \in Nat
    <3>1. CASE n = 0
        BY <1>3, <3>1
    <3>2. CASE n # 0
      <4>1. n - 1 \in Nat /\ (n - 1) + 1 = n
          BY <3>2
      <4> QED
          BY <1>4, <3>2, <4>1
    <3> QED
        BY <3>1, <3>2
  <2> QED
      BY <2>1
<1>6. Def(ValueOf(bits))
  <2>1. ValueOf(bits) = CHOOSE v : Def(v)
      BY DEF ValueOf
  <2> HIDE DEF Def
  <2> QED
      BY <1>5, <2>1
<1> DEFINE v == ValueOf(bits)
<1>7. Def(v)
    BY <1>6
<1> HIDE DEF v
<1>8. v[0] = 0 /\ \A n \in Nat : v[n + 1] = 2 * v[n] + (IF n \in bits THEN 1 ELSE 0)
    BY <1>7
<1>9. \A n \in Nat : v[n] \in Nat
  <2> DEFINE T == {n \in Nat : v[n] \in Nat}
  <2>1. 0 \in T /\ \A n \in Nat : n \in T => n + 1 \in T
      BY <1>8
  <2> HIDE DEF T
  <2>2. \A n \in Nat : n \in T
      BY <2>1, AllNumbers
  <2> QED
      BY <2>2 DEF T
<1>10. v \in [Nat -> Nat]
    BY <1>7, <1>9
<1> QED
    BY <1>8, <1>10 DEF v

LEMMA PowerSteps ==
    /\ Power \in [Nat -> Nat]
    /\ Power[0] = 1
    /\ \A n \in Nat : Power[n + 1] = 2 * Power[n]
<1> DEFINE Def(v) == v = [n \in Nat |-> IF n = 0 THEN 1 ELSE 2 * v[n - 1]]
           step == [pair \in Nat \X Nat |-> 2 * pair[2]]
<1>1. step \in [Nat \X Nat -> Nat]
    OBVIOUS
<1>2. \A n, k \in Nat : step[<<n, k>>] = 2 * k
    OBVIOUS
<1> HIDE DEF step
<1>3. PICK f \in [Nat -> Nat] : f[0] = 1 /\ \A n \in Nat : f[n + 1] = step[<<n, f[n]>>]
  <2>1. 1 \in Nat
      OBVIOUS
  <2> QED
      BY <1>1, <2>1, Recursion, Zenon
<1>4. Def(f)
  <2>1. \A n \in Nat : f[n] = IF n = 0 THEN 1 ELSE 2 * f[n - 1]
    <3> TAKE n \in Nat
    <3>1. CASE n = 0
        BY <1>3, <3>1
    <3>2. CASE n # 0
      <4>1. n - 1 \in Nat /\ (n - 1) + 1 = n
          BY <3>2
      <4> QED
          BY <1>2, <1>3, <3>2, <4>1
    <3> QED
        BY <3>1, <3>2
  <2> QED
      BY <2>1
<1>5. Def(Power)
  <2>1. Power = CHOOSE v : Def(v)
      BY DEF Power
  <2> HIDE DEF Def
  <2> QED
      BY <1>4, <2>1
<1>6. Power[0] = 1 /\ \A n \in Nat : Power[n + 1] = 2 * Power[n]
    BY <1>5
<1>7. \A n \in Nat : Power[n] \in Nat
  <2> DEFINE T == {n \in Nat : Power[n] \in Nat}
  <2>1. 0 \in T /\ \A n \in Nat : n \in T => n + 1 \in T
      BY <1>6
  <2> HIDE DEF T
  <2>2. \A n \in Nat : n \in T
      BY <2>1, AllNumbers
  <2> QED
      BY <2>2 DEF T
<1>8. Power \in [Nat -> Nat]
    BY <1>5, <1>7
<1> QED
    BY <1>6, <1>8

\* A bit as a number.
Bit(i, bits) == IF i \in bits THEN 1 ELSE 0

LEMMA ValueStep ==
    \A bits : \A n \in Nat :
        /\ ValueOf(bits)[n] \in Nat
        /\ ValueOf(bits)[0] = 0
        /\ Bit(n, bits) \in {0, 1}
        /\ ValueOf(bits)[n + 1] = 2 * ValueOf(bits)[n] + Bit(n, bits)
  BY ValueSteps DEF Bit
-----------------------------------------------------------------------------
\* Numbers of n bits are less than the power.
LEMMA LessThanPower ==
    ASSUME NEW bits
    PROVE  \A n \in Nat : ValueOf(bits)[n] < Power[n] /\ Power[n] \in Nat
<1> DEFINE T == {n \in Nat : ValueOf(bits)[n] < Power[n]}
<1>1. 0 \in T
    BY ValueStep, PowerSteps
<1>2. ASSUME NEW n \in Nat, n \in T PROVE n + 1 \in T
  <2> DEFINE v == ValueOf(bits)[n]
             unit == Power[n]
             b == Bit(n, bits)
  <2>1. /\ v \in Nat /\ unit \in Nat /\ b \in {0, 1} /\ v < unit
        /\ ValueOf(bits)[n + 1] = 2 * v + b /\ Power[n + 1] = 2 * unit
      BY <1>2, ValueStep, PowerSteps
  <2> HIDE DEF v, unit, b
  <2> QED
      BY <2>1
<1> HIDE DEF T
<1>3. \A n \in Nat : n \in T
    BY <1>1, <1>2, AllNumbers
<1> QED
    BY <1>3, PowerSteps DEF T

\* The first n bits of four containers: where the bits of two add up to those of
\* the other two, so do the numbers.
LEMMA SumsOfBits ==
    ASSUME NEW w, NEW x, NEW y, NEW z, NEW n \in Nat,
           \A i \in 0 .. n - 1 : Bit(i, w) + Bit(i, x) = Bit(i, y) + Bit(i, z)
    PROVE  ValueOf(w)[n] + ValueOf(x)[n] = ValueOf(y)[n] + ValueOf(z)[n]
<1> DEFINE T == {k \in Nat : k <= n => ValueOf(w)[k] + ValueOf(x)[k] = ValueOf(y)[k] + ValueOf(z)[k]}
<1>1. 0 \in T
    BY ValueStep
<1>2. ASSUME NEW k \in Nat, k \in T PROVE k + 1 \in T
  <2> SUFFICES ASSUME k + 1 <= n
               PROVE  ValueOf(w)[k + 1] + ValueOf(x)[k + 1] = ValueOf(y)[k + 1] + ValueOf(z)[k + 1]
      OBVIOUS
  <2> DEFINE vw == ValueOf(w)[k]
             vx == ValueOf(x)[k]
             vy == ValueOf(y)[k]
             vz == ValueOf(z)[k]
             bw == Bit(k, w)
             bx == Bit(k, x)
             by == Bit(k, y)
             bz == Bit(k, z)
  <2>1. /\ vw \in Nat /\ vx \in Nat /\ vy \in Nat /\ vz \in Nat
        /\ bw \in {0, 1} /\ bx \in {0, 1} /\ by \in {0, 1} /\ bz \in {0, 1}
        /\ ValueOf(w)[k + 1] = 2 * vw + bw /\ ValueOf(x)[k + 1] = 2 * vx + bx
        /\ ValueOf(y)[k + 1] = 2 * vy + by /\ ValueOf(z)[k + 1] = 2 * vz + bz
      BY ValueStep
  <2>2. vw + vx = vy + vz
      BY <1>2
  <2>3. bw + bx = by + bz
      OBVIOUS
  <2> HIDE DEF vw, vx, vy, vz, bw, bx, by, bz
  <2> QED
      BY <2>1, <2>2, <2>3
<1> HIDE DEF T
<1>3. \A k \in Nat : k \in T
    BY <1>1, <1>2, AllNumbers
<1> QED
    BY <1>3 DEF T

\* Nothing is 0, and the same bits are the same number.
LEMMA NoBits ==
    ASSUME NEW x, NEW n \in Nat, \A i \in 0 .. n - 1 : i \notin x
    PROVE  ValueOf(x)[n] = 0
<1> DEFINE T == {k \in Nat : ValueOf({})[k] = 0}
<1>1. 0 \in T /\ \A k \in Nat : k \in T => k + 1 \in T
    BY ValueStep DEF Bit
<1> HIDE DEF T
<1>2. \A k \in Nat : k \in T
    BY <1>1, AllNumbers
<1>3. ValueOf({})[n] = 0
    BY <1>2 DEF T
<1>4. ValueOf(x)[n] + ValueOf({})[n] = ValueOf({})[n] + ValueOf({})[n]
  <2>1. \A i \in 0 .. n - 1 : Bit(i, x) + Bit(i, {}) = Bit(i, {}) + Bit(i, {})
      BY DEF Bit
  <2> QED
      BY <2>1, SumsOfBits
<1>5. ValueOf(x)[n] \in Nat
    BY ValueStep
<1> QED
    BY <1>3, <1>4, <1>5

LEMMA SameBits ==
    ASSUME NEW x, NEW y, NEW n \in Nat, \A i \in 0 .. n - 1 : i \in x <=> i \in y
    PROVE  ValueOf(x)[n] = ValueOf(y)[n]
<1>1. ValueOf(x)[n] + ValueOf({})[n] = ValueOf(y)[n] + ValueOf({})[n]
  <2>1. \A i \in 0 .. n - 1 : Bit(i, x) + Bit(i, {}) = Bit(i, y) + Bit(i, {})
      BY DEF Bit
  <2> QED
      BY <2>1, SumsOfBits
<1>2. ValueOf(x)[n] \in Nat /\ ValueOf(y)[n] \in Nat /\ ValueOf({})[n] \in Nat
    BY ValueStep
<1> QED
    BY <1>1, <1>2

\* The bits after the first d are the low part of the number.
LEMMA HighAndLow ==
    ASSUME NEW x, NEW y, NEW d \in Nat, NEW n \in Nat,
           \A i \in 0 .. n - 1 : i + d \in y <=> i \in x
    PROVE  ValueOf(y)[d + n] = ValueOf(y)[d] * Power[n] + ValueOf(x)[n]
<1> DEFINE T == {k \in Nat : k <= n => ValueOf(y)[d + k] = ValueOf(y)[d] * Power[k] + ValueOf(x)[k]}
<1>1. 0 \in T
  <2>1. ValueOf(y)[d] \in Nat /\ ValueOf(x)[0] = 0 /\ Power[0] = 1 /\ d + 0 = d
      BY ValueStep, PowerSteps
  <2> QED
      BY <2>1
<1>2. ASSUME NEW k \in Nat, k \in T PROVE k + 1 \in T
  <2> SUFFICES ASSUME k + 1 <= n
               PROVE  ValueOf(y)[d + (k + 1)] = ValueOf(y)[d] * Power[k + 1] + ValueOf(x)[k + 1]
      OBVIOUS
  <2> DEFINE h == ValueOf(y)[d]
             u == ValueOf(y)[d + k]
             v == ValueOf(x)[k]
             b == Bit(k, x)
             unit == Power[k]
             q == h * unit
  <2>1. /\ h \in Nat /\ u \in Nat /\ v \in Nat /\ b \in {0, 1} /\ unit \in Nat
        /\ ValueOf(x)[k + 1] = 2 * v + b /\ Power[k + 1] = 2 * unit
        /\ ValueOf(y)[(d + k) + 1] = 2 * u + Bit(d + k, y)
      BY ValueStep, PowerSteps
  <2>2. u = q + v
      BY <1>2
  <2>3. Bit(d + k, y) = b /\ (d + k) + 1 = d + (k + 1)
      BY DEF Bit
  <2> HIDE DEF h, u, v, b, unit
  <2>4. h * (2 * unit) = 2 * q /\ q \in Nat
      BY <2>1
  <2> HIDE DEF q
  <2>5. 2 * u + b = 2 * q + (2 * v + b)
      BY <2>1, <2>2, <2>4
  <2> QED
      BY <2>1, <2>3, <2>4, <2>5 DEF h
<1> HIDE DEF T
<1>3. \A k \in Nat : k \in T
    BY <1>1, <1>2, AllNumbers
<1> QED
    BY <1>3 DEF T

\* Comparing bit by bit, from the first, is comparing numbers.
LEMMA FirstDifference ==
    ASSUME NEW x, NEW y, NEW n \in Nat
    PROVE  /\ (\A i \in 0 .. n - 1 : i \in x <=> i \in y) <=> ValueOf(x)[n] = ValueOf(y)[n]
           /\ (\E i \in 0 .. n - 1 :
                  i \in y /\ i \notin x /\ \A j \in 0 .. i - 1 : j \in x <=> j \in y)
                <=> ValueOf(x)[n] < ValueOf(y)[n]
<1> DEFINE Alike(k) == \A i \in 0 .. k - 1 : i \in x <=> i \in y
           Less1(k) == \E i \in 0 .. k - 1 : i \in y /\ i \notin x /\ Alike(i)
           T == {k \in Nat : /\ Alike(k) <=> ValueOf(x)[k] = ValueOf(y)[k]
                             /\ Less1(k) <=> ValueOf(x)[k] < ValueOf(y)[k]}
<1>1. 0 \in T
    BY ValueStep
<1>2. ASSUME NEW k \in Nat, k \in T PROVE k + 1 \in T
  <2> DEFINE v == ValueOf(x)[k]
             w == ValueOf(y)[k]
             b == Bit(k, x)
             c == Bit(k, y)
  <2>1. /\ v \in Nat /\ w \in Nat /\ b \in {0, 1} /\ c \in {0, 1}
        /\ ValueOf(x)[k + 1] = 2 * v + b /\ ValueOf(y)[k + 1] = 2 * w + c
      BY ValueStep
  <2>2. (Alike(k) <=> v = w) /\ (Less1(k) <=> v < w)
      BY <1>2
  <2>3. Alike(k + 1) <=> Alike(k) /\ b = c
      BY DEF Bit
  <2>4. Less1(k + 1) <=> Less1(k) \/ (b = 0 /\ c = 1 /\ Alike(k))
    <3>1. 0 .. (k + 1) - 1 = (0 .. k - 1) \cup {k}
        OBVIOUS
    <3>2. b = 0 /\ c = 1 <=> k \in y /\ k \notin x
        BY DEF Bit
    <3> HIDE DEF Alike, b, c
    <3> QED
        BY <3>1, <3>2
  <2> HIDE DEF v, w, b, c, Alike, Less1
  <2>5. Alike(k + 1) <=> 2 * v + b = 2 * w + c
      BY <2>1, <2>2, <2>3
  <2>6. Less1(k + 1) <=> 2 * v + b < 2 * w + c
      BY <2>1, <2>2, <2>4
  <2> QED
      BY <2>1, <2>5, <2>6
<1> HIDE DEF T
<1>3. \A k \in Nat : k \in T
    BY <1>1, <1>2, AllNumbers
<1> QED
    BY <1>3 DEF T
-----------------------------------------------------------------------------
(* The containers.                                                          *)

BinInv == short \in Container(Short) /\ long \in Container(Long)

LEMMA OperationsFit ==
    ASSUME NEW m \in Nat, NEW n \in Nat, NEW dst \in Container(m), NEW src \in Container(n)
    PROVE  /\ \A zero \in BOOLEAN : Copy(dst, src, zero) \in Container(m)
           /\ OpAnd(dst, src) \in Container(m)
           /\ OpOr(dst, src) \in Container(m)
           /\ OpXor(dst, src) \in Container(m)
           /\ OpNot(dst) \in Container(m)
<1>1. \A bits \in SUBSET (0 .. 8 * m - 1) : [dst EXCEPT !.bits = bits] \in Container(m)
    BY DEF Container
<1>2. dst.size = m /\ dst.bits \subseteq 0 .. 8 * m - 1
    BY DEF Container
<1>3. Aligned(src, dst) \subseteq 0 .. 8 * m - 1
    BY <1>2 DEF Aligned
<1> QED
    BY <1>1, <1>2, <1>3 DEF Copy, OpAnd, OpOr, OpXor, OpNot

LEMMA OthersFit ==
    ASSUME NEW m \in Nat
    PROVE  /\ Zero(m) \in Container(m)
           /\ \A list : FromList(m, list) \in Container(m)
           /\ \A data : \A dst \in Container(m), start \in 0 .. m - 1, size \in Nat :
                 Set(dst, start, data, size) \in Container(m)
<1>1. \A dst \in Container(m), bits \in SUBSET (0 .. 8 * m - 1) :
          /\ [dst EXCEPT !.bits = bits] \in Container(m)
          /\ dst.size = m /\ dst.bits \subseteq 0 .. 8 * m - 1
    BY DEF Container
<1>2. Zero(m) \in Container(m)
    BY DEF Zero, Container
<1>3. ASSUME NEW list PROVE FromList(m, list) \in Container(m)
  <2>1. Aligned(Array(list), Zero(m)) \subseteq 0 .. 8 * m - 1
      BY DEF Aligned, Zero
  <2> QED
      BY <1>1, <1>2, <2>1 DEF FromList, Copy
<1>4. ASSUME NEW dst \in Container(m), NEW start \in 0 .. m - 1, NEW size \in Nat, NEW data
      PROVE  Set(dst, start, data, size) \in Container(m)
  <2> DEFINE n == IF size < dst.size - start THEN size ELSE dst.size - start
             written == 8 * start .. 8 * (start + n) - 1
  <2>1. written \subseteq 0 .. 8 * m - 1
    <3>1. dst.size = m
        BY <1>1
    <3>2. n \in Nat /\ start + n <= m
        BY <3>1
    <3> HIDE DEF n
    <3> QED
        BY <3>2
  <2> DEFINE bits == (dst.bits \ written) \cup {i \in written : i - 8 * start \in data.bits}
  <2>2. bits \in SUBSET (0 .. 8 * m - 1)
      BY <1>1, <2>1
  <2>3. Set(dst, start, data, size) = [dst EXCEPT !.bits = bits]
      BY DEF Set
  <2> QED
      BY <1>1, <2>2, <2>3
<1> QED
    BY <1>2, <1>3, <1>4

LEMMA BinStepInv == BinInv /\ [BinNext]_binVars => BinInv'
<1> SUFFICES ASSUME BinInv, [BinNext]_binVars PROVE BinInv'
    OBVIOUS
<1>1. Short \in Nat /\ Long \in Nat
    BY SizeAssumption
<1> USE DEF BinInv
<1>2. ASSUME NEW list \in Lists, Construct(list) PROVE BinInv'
    BY <1>1, <1>2, OthersFit DEF Construct
<1>3. CASE CopyOver
    BY <1>1, <1>3, OperationsFit DEF CopyOver
<1>4. CASE And
    BY <1>1, <1>4, OperationsFit DEF And
<1>5. CASE Or
    BY <1>1, <1>5, OperationsFit DEF Or
<1>6. CASE Xor
    BY <1>1, <1>6, OperationsFit DEF Xor
<1>7. CASE Complement
    BY <1>1, <1>7, OperationsFit DEF Complement
<1>8. ASSUME NEW start \in Starts, NEW list \in Lists, SetBytes(start, list) PROVE BinInv'
  <2>1. Len(list) \in Nat
      BY SizeAssumption
  <2>2. short.size = Short /\ long.size = Long
      BY DEF Container
  <2> QED
      BY <1>1, <1>8, <2>1, <2>2, OthersFit DEF SetBytes, CanSet
<1>9. CASE UNCHANGED binVars
    BY <1>9 DEF binVars
<1> QED
    BY <1>2, <1>3, <1>4, <1>5, <1>6, <1>7, <1>8, <1>9 DEF BinNext

\* Bits a of a container of s bits, bits b of a container of d more, the bits of
\* each at the places they have in the other, and those of b that have no place.
Meet(s, d, a, b, down, up, high) ==
    /\ s \in Nat /\ d \in Nat
    /\ a \subseteq 0 .. s - 1
    /\ b \subseteq 0 .. d + s - 1
    /\ down \subseteq 0 .. s - 1 /\ \A i \in 0 .. s - 1 : i \in down <=> i + d \in b
    /\ up \subseteq 0 .. d + s - 1 /\ \A i \in 0 .. d + s - 1 : i \in up <=> i - d \in a
    /\ high = {i \in b : i < d}

\* The numbers of the operations' results, by the number h of the first d bits.
NumbersMeet(s, d, a, b, down, up, high) ==
    LET h == ValueOf(b)[d] * Power[s]
        l == d + s
    IN  /\ ValueOf(b)[l] = h + ValueOf(down)[s]
        /\ ValueOf(up)[l] = ValueOf(a)[s]
        /\ ValueOf(high \cup up)[l] = h + ValueOf(a)[s]
        /\ ValueOf(a \cap down)[s] + ValueOf(a \cup down)[s] = ValueOf(a)[s] + ValueOf(down)[s]
        /\ ValueOf((b \ up) \cup (up \ b))[l] + ValueOf(a \cap down)[s] = ValueOf(b \cup up)[l]
        /\ ValueOf(high \cup (b \cap up))[l] = h + ValueOf(a \cap down)[s]

LEMMA MeetAtTheEnd ==
    \A s, d, a, b, down, up, high :
        Meet(s, d, a, b, down, up, high) => NumbersMeet(s, d, a, b, down, up, high)
<1> SUFFICES ASSUME NEW s, NEW d, NEW a, NEW b, NEW down, NEW up, NEW high,
                    Meet(s, d, a, b, down, up, high)
             PROVE  NumbersMeet(s, d, a, b, down, up, high)
    OBVIOUS
<1> USE DEF Meet
<1> DEFINE l == d + s
           both == a \cap down
           either == a \cup down
           common == b \cap up
           all == b \cup up
           differ == (b \ up) \cup (up \ b)
           replaced == high \cup up
           reduced == high \cup common
<1>1. l \in Nat /\ l = d + s
    OBVIOUS
<1>2. \A i \in 0 .. s - 1 : i + d \in 0 .. l - 1 /\ i + d \notin high /\ (i + d) - d = i
    OBVIOUS
<1>3. \A i \in 0 .. d - 1 : i \notin up /\ (i \in high <=> i \in b)
  <2> TAKE i \in 0 .. d - 1
  <2>1. i \in 0 .. l - 1 /\ i - d \notin a /\ i < d
      OBVIOUS
  <2> QED
      BY <2>1
<1>4. \A i \in 0 .. s - 1 : i \in a <=> i + d \in up
    BY <1>2
<1> HIDE DEF l
<1>5. /\ \A i \in 0 .. s - 1 : i + d \in replaced <=> i \in a
      /\ \A i \in 0 .. s - 1 : i + d \in common <=> i \in both
      /\ \A i \in 0 .. s - 1 : i + d \in reduced <=> i \in both
    BY <1>2, <1>4
<1>6. /\ \A i \in 0 .. d - 1 : i \notin common
      /\ \A i \in 0 .. d - 1 : i \in replaced <=> i \in b
      /\ \A i \in 0 .. d - 1 : i \in reduced <=> i \in b
    BY <1>3
<1>7. /\ \A i \in 0 .. s - 1 : Bit(i, both) + Bit(i, either) = Bit(i, a) + Bit(i, down)
      /\ \A i \in 0 .. l - 1 : Bit(i, differ) + Bit(i, common) = Bit(i, all) + Bit(i, {})
    BY DEF Bit
<1> HIDE DEF both, either, common, all, differ, replaced, reduced
<1>8. /\ ValueOf(b)[d + s] = ValueOf(b)[d] * Power[s] + ValueOf(down)[s]
      /\ ValueOf(up)[d + s] = ValueOf(up)[d] * Power[s] + ValueOf(a)[s]
      /\ ValueOf(replaced)[d + s] = ValueOf(replaced)[d] * Power[s] + ValueOf(a)[s]
      /\ ValueOf(common)[d + s] = ValueOf(common)[d] * Power[s] + ValueOf(both)[s]
      /\ ValueOf(reduced)[d + s] = ValueOf(reduced)[d] * Power[s] + ValueOf(both)[s]
  <2>1. ValueOf(b)[d + s] = ValueOf(b)[d] * Power[s] + ValueOf(down)[s]
      BY HighAndLow
  <2>2. ValueOf(up)[d + s] = ValueOf(up)[d] * Power[s] + ValueOf(a)[s]
      BY <1>4, HighAndLow
  <2>3. ValueOf(replaced)[d + s] = ValueOf(replaced)[d] * Power[s] + ValueOf(a)[s]
      BY <1>5, HighAndLow
  <2>4. ValueOf(common)[d + s] = ValueOf(common)[d] * Power[s] + ValueOf(both)[s]
      BY <1>5, HighAndLow
  <2>5. ValueOf(reduced)[d + s] = ValueOf(reduced)[d] * Power[s] + ValueOf(both)[s]
      BY <1>5, HighAndLow
  <2> QED
      BY <2>1, <2>2, <2>3, <2>4, <2>5
<1>9. /\ ValueOf(up)[d] = 0 /\ ValueOf(common)[d] = 0
      /\ ValueOf(replaced)[d] = ValueOf(b)[d] /\ ValueOf(reduced)[d] = ValueOf(b)[d]
  <2>1. ValueOf(up)[d] = 0
      BY <1>3, NoBits
  <2>2. ValueOf(common)[d] = 0
      BY <1>6, NoBits
  <2>3. ValueOf(replaced)[d] = ValueOf(b)[d]
      BY <1>6, SameBits
  <2>4. ValueOf(reduced)[d] = ValueOf(b)[d]
      BY <1>6, SameBits
  <2> QED
      BY <2>1, <2>2, <2>3, <2>4
<1>10. /\ ValueOf(both)[s] + ValueOf(either)[s] = ValueOf(a)[s] + ValueOf(down)[s]
       /\ ValueOf(differ)[l] + ValueOf(common)[l] = ValueOf(all)[l] + ValueOf({})[l]
  <2>1. \A i \in 0 .. s - 1 : Bit(i, both) + Bit(i, either) = Bit(i, a) + Bit(i, down)
      BY <1>7
  <2>2. ValueOf(both)[s] + ValueOf(either)[s] = ValueOf(a)[s] + ValueOf(down)[s]
      BY <2>1, SumsOfBits
  <2>3. \A i \in 0 .. l - 1 : Bit(i, differ) + Bit(i, common) = Bit(i, all) + Bit(i, {})
      BY <1>7
  <2>4. ValueOf(differ)[l] + ValueOf(common)[l] = ValueOf(all)[l] + ValueOf({})[l]
      BY <1>1, <2>3, SumsOfBits
  <2> QED
      BY <2>2, <2>4
<1>11. /\ ValueOf({})[l] = 0 /\ ValueOf(all)[l] \in Nat /\ ValueOf(a)[s] \in Nat /\ ValueOf(both)[s] \in Nat
       /\ Power[s] \in Nat
    BY <1>1, NoBits, ValueStep, PowerSteps
<1>12. \A m \in Nat : 0 * m = 0
    OBVIOUS
<1>13. ValueOf(up)[l] = ValueOf(a)[s] /\ ValueOf(common)[l] = ValueOf(both)[s]
    BY <1>1, <1>8, <1>9, <1>11, <1>12
<1>14. ValueOf(differ)[l] + ValueOf(both)[s] = ValueOf(all)[l]
    BY <1>10, <1>11, <1>13
<1> QED
    BY <1>1, <1>8, <1>9, <1>10, <1>13, <1>14
       DEF NumbersMeet, both, either, common, all, differ, replaced, reduced

\* Containers of one size compare as their numbers do.
LEMMA ComparedAsNumbers ==
    ASSUME NEW n \in Nat, NEW l, NEW r, l.bits \subseteq 0 .. n - 1, r.bits \subseteq 0 .. n - 1
    PROVE  /\ l.bits = r.bits <=> ValueOf(l.bits)[n] = ValueOf(r.bits)[n]
           /\ MemcmpLess(l, r) <=> ValueOf(l.bits)[n] < ValueOf(r.bits)[n]
<1> DEFINE x == l.bits
           y == r.bits
<1>1. x \subseteq 0 .. n - 1 /\ y \subseteq 0 .. n - 1
    OBVIOUS
<1>2. MemcmpLess(l, r) <=>
          \E i \in 0 .. n - 1 : i \in y /\ i \notin x /\ \A j \in 0 .. i - 1 : j \in x <=> j \in y
    BY <1>1 DEF MemcmpLess
<1> HIDE DEF x, y
<1>3. x = y <=> \A i \in 0 .. n - 1 : i \in x <=> i \in y
    BY <1>1
<1>4. /\ (\A i \in 0 .. n - 1 : i \in x <=> i \in y) <=> ValueOf(x)[n] = ValueOf(y)[n]
      /\ (\E i \in 0 .. n - 1 : i \in y /\ i \notin x /\ \A j \in 0 .. i - 1 : j \in x <=> j \in y)
           <=> ValueOf(x)[n] < ValueOf(y)[n]
    BY FirstDifference
<1> QED
    BY <1>2, <1>3, <1>4 DEF x, y

LEMMA LowPart ==
    \A q, m, n \in Nat : n < m => (q * m + n) % m = n
<1> SUFFICES ASSUME NEW q \in Nat, NEW m \in Nat, NEW n \in Nat, n < m
             PROVE  (q * m + n) % m = n
    OBVIOUS
<1> QED
    OBVIOUS

LEMMA BinaryIsNumbers == BinInv => ComputesOnNumbers
<1> SUFFICES ASSUME BinInv PROVE ComputesOnNumbers
    OBVIOUS
<1> DEFINE s == 8 * Short
           l == 8 * Long
           d == l - s
           a == short.bits
           b == long.bits
           down == Aligned(long, short)
           up == Aligned(short, long)
           high == {i \in b : i < d}
           wide == Copy(Zero(Long), short, TRUE)
<1>1. /\ s \in Nat /\ l \in Nat /\ d \in Nat /\ l = d + s
      /\ 8 * (Long - Short) = d /\ 8 * (Short - Long) = -d
    BY SizeAssumption
<1>2. /\ a \subseteq 0 .. s - 1 /\ b \subseteq 0 .. l - 1
      /\ short.size = Short /\ long.size = Long
    BY DEF BinInv, Container
<1>3. /\ down \subseteq 0 .. s - 1 /\ \A i \in 0 .. s - 1 : i \in down <=> i + d \in b
      /\ up \subseteq 0 .. l - 1 /\ \A i \in 0 .. l - 1 : i \in up <=> i - d \in a
    BY <1>1, <1>2 DEF Aligned
<1>4. /\ Common(long, short) = 0 .. s - 1
      /\ Common(short, long) = d .. l - 1
    BY <1>1, <1>2 DEF Common
<1> HIDE DEF s, l, d, a, b, down, up
\* The results, as bits.
<1>5. /\ Copy(short, long, FALSE).bits = down
      /\ wide.bits = up
      /\ Copy(long, short, FALSE).bits = high \cup up
      /\ OpAnd(short, long).bits = a \cap down
      /\ OpOr(short, long).bits = a \cup down
      /\ OpXor(long, short).bits = (b \ up) \cup (up \ b)
      /\ OpOr(long, short).bits = b \cup up
      /\ OpAnd(long, short).bits = high \cup (b \cap up)
  <2>1. /\ Aligned(long, short) = down /\ Aligned(short, long) = up
        /\ short.bits = a /\ long.bits = b
      BY DEF a, b, down, up
  <2>2. /\ "bits" \in DOMAIN short /\ "bits" \in DOMAIN long
      BY DEF BinInv, Container
  <2>3. Aligned(short, Zero(Long)) = up
      BY <1>2 DEF Aligned, Zero, up
  <2>4. a \ (0 .. s - 1) = {} /\ b \ (d .. l - 1) = high
    <3>1. a \subseteq 0 .. s - 1 /\ b \subseteq 0 .. l - 1
        BY <1>2 DEF a, b, s, l
    <3>2. s \in Nat /\ l \in Nat /\ d \in Nat
        BY <1>1
    <3>3. \A i \in b : i \in Int /\ (i \in d .. l - 1 <=> ~(i < d))
        BY <3>1, <3>2
    <3> QED
        BY <3>1, <3>3
  <2> QED
      BY <1>4, <2>1, <2>2, <2>3, <2>4 DEF Copy, OpAnd, OpOr, OpXor, Zero
<1>6. /\ Copy(short, long, FALSE).size = Short /\ wide.size = Long
      /\ Copy(long, short, FALSE).size = Long
      /\ OpAnd(short, long).size = Short /\ OpOr(short, long).size = Short
      /\ OpXor(long, short).size = Long /\ OpOr(long, short).size = Long
      /\ OpAnd(long, short).size = Long
    BY <1>2 DEF Copy, OpAnd, OpOr, OpXor, Zero, BinInv, Container
\* Their numbers, by the bits before the d-th and after it.
<1>7. high = {i \in b : i < d}
    OBVIOUS
<1> HIDE DEF high, wide
<1> DEFINE low == Power[s]
           H == ValueOf(b)[d]
           A == ValueOf(a)[s]
           D == ValueOf(down)[s]
           B == ValueOf(a \cap down)[s]
<1>8. /\ low \in Nat /\ H \in Nat /\ A \in Nat /\ D \in Nat /\ B \in Nat /\ D < low
    BY <1>1, ValueStep, LessThanPower
<1>9. /\ ValueOf(b)[l] = H * low + D
      /\ ValueOf(up)[l] = A
      /\ ValueOf(high \cup up)[l] = H * low + A
      /\ B + ValueOf(a \cup down)[s] = A + D
      /\ ValueOf((b \ up) \cup (up \ b))[l] + B = ValueOf(b \cup up)[l]
      /\ ValueOf(high \cup (b \cap up))[l] = H * low + B
  <2>1. Meet(s, d, a, b, down, up, high)
    <3>1. a \subseteq 0 .. s - 1 /\ b \subseteq 0 .. l - 1
        BY <1>2 DEF a, b, s, l
    <3> QED
        BY <1>1, <1>3, <1>7, <3>1 DEF Meet
  <2>2. NumbersMeet(s, d, a, b, down, up, high)
      BY <2>1, MeetAtTheEnd
  <2> QED
      BY <1>1, <2>2 DEF NumbersMeet
<1>10. ValueOf(b)[l] % low = D
  <2> HIDE DEF low, H, D
  <2>1. (H * low + D) % low = D
      BY <1>8, LowPart
  <2> QED
      BY <1>9, <2>1
<1>11. /\ a = short.bits /\ b = long.bits /\ 8 * Short = s /\ 8 * Long = l
    BY DEF a, b, s, l
<1>12. /\ Number(short) = A /\ Number(long) = ValueOf(b)[l]
       /\ Number(Copy(short, long, FALSE)) = D
       /\ Number(wide) = ValueOf(up)[l]
       /\ Number(Copy(long, short, FALSE)) = H * low + A
       /\ Number(OpAnd(short, long)) = B
       /\ Number(OpOr(short, long)) = ValueOf(a \cup down)[s]
       /\ Number(OpXor(long, short)) = ValueOf((b \ up) \cup (up \ b))[l]
       /\ Number(OpOr(long, short)) = ValueOf(b \cup up)[l]
       /\ Number(OpAnd(long, short)) = H * low + B
    BY <1>2, <1>5, <1>6, <1>9, <1>11 DEF Number
\* The comparisons.
<1>13. /\ MemcmpLess(wide, long) <=> Number(wide) < Number(long)
       /\ wide.bits = long.bits <=> Number(wide) = Number(long)
       /\ MemcmpLess(Raw(wide, long), long) <=> Number(wide) < Number(long)
       /\ MemcmpLess(wide, Raw(long, wide)) <=> Number(wide) < Number(long)
       /\ Raw(wide, long).size = Long /\ Raw(long, wide).size = Long
  <2>1. up \subseteq 0 .. l - 1 /\ b \subseteq 0 .. l - 1 /\ l \in Nat
      BY <1>1, <1>2, <1>3, <1>11
  <2>2. /\ Raw(wide, long).bits = up /\ Raw(wide, long).size = Long
        /\ Raw(long, wide).bits = b /\ Raw(long, wide).size = Long
    <3>1. (\A i \in up : i < l) /\ (\A i \in b : i < l)
        BY <2>1
    <3> QED
        BY <1>2, <1>5, <1>6, <1>11, <3>1 DEF Raw
  <2>3. ASSUME NEW x, NEW y, x.bits = up, y.bits = b
        PROVE  /\ x.bits = y.bits <=> Number(wide) = Number(long)
               /\ MemcmpLess(x, y) <=> Number(wide) < Number(long)
    <3>1. x.bits \subseteq 0 .. l - 1 /\ y.bits \subseteq 0 .. l - 1
        BY <2>1, <2>3
    <3>2. /\ x.bits = y.bits <=> ValueOf(x.bits)[l] = ValueOf(y.bits)[l]
          /\ MemcmpLess(x, y) <=> ValueOf(x.bits)[l] < ValueOf(y.bits)[l]
        BY <2>1, <3>1, ComparedAsNumbers
    <3> QED
        BY <1>12, <2>3, <3>2
  <2>4. wide.bits = up /\ long.bits = b
      BY <1>5, <1>11
  <2> QED
      BY <2>2, <2>3, <2>4
<1>14. Number(wide) \in Nat /\ Number(long) \in Nat
    BY <1>1, <1>12, ValueStep
<1>15. /\ Less(short, long) /\ ~LessEq(long, short) /\ ~Equals(short, long)
    BY <1>2, SizeAssumption DEF Less, LessEq, Equals
<1>16. /\ Less(wide, long) <=> Number(wide) < Number(long)
       /\ LessEq(long, wide) <=> Number(long) <= Number(wide)
       /\ Equals(wide, long) <=> Number(wide) = Number(long)
       /\ ArrayLess(wide, long) <=> Number(wide) < Number(long)
       /\ ArrayLessEq(long, wide) <=> Number(long) <= Number(wide)
  <2>1. wide.size = Long /\ long.size = Long
      BY <1>2, <1>6
  <2>2. /\ Less(wide, long) <=> MemcmpLess(wide, long)
        /\ LessEq(long, wide) <=> ~MemcmpLess(wide, long)
        /\ Equals(wide, long) <=> wide.bits = long.bits
      BY <2>1 DEF Less, LessEq, Equals
  <2>3. /\ ArrayLess(wide, long) <=> MemcmpLess(Raw(wide, long), long)
        /\ ArrayLessEq(long, wide) <=> ~MemcmpLess(wide, Raw(long, wide))
      BY <1>13, <2>1 DEF ArrayLess, ArrayLessEq, Less, LessEq
  <2>4. Number(long) <= Number(wide) <=> ~(Number(wide) < Number(long))
      BY <1>14
  <2> QED
      BY <1>13, <2>2, <2>3, <2>4
<1>17. /\ Number(wide) = Number(short)
       /\ Number(long) % low = D /\ Number(long) - D = H * low
  <2> HIDE DEF low, H, D, A
  <2>1. H * low \in Nat
      BY <1>8
  <2> QED
      BY <1>8, <1>9, <1>10, <1>12, <2>1
<1>18. /\ Number(Copy(short, long, FALSE)) = Number(long) % low
       /\ Number(Copy(long, short, FALSE)) = Number(long) - (Number(long) % low) + Number(short)
       /\ Number(OpAnd(short, long)) + Number(OpOr(short, long)) = Number(short) + (Number(long) % low)
       /\ Number(OpXor(long, short)) = Number(OpOr(long, short)) - Number(OpAnd(short, long))
       /\ Number(OpAnd(long, short))
            = Number(long) - (Number(long) % low) + Number(OpAnd(short, long))
  <2>1. /\ ValueOf((b \ up) \cup (up \ b))[l] \in Nat
        /\ ValueOf(a \cup down)[s] \in Nat
      BY <1>1, ValueStep
  <2> HIDE DEF low, H, D, A, B
  <2>2. PICK h \in Nat : h = H * low
      BY <1>8
  <2>3. /\ Number(Copy(short, long, FALSE)) = Number(long) % low
        /\ Number(long) = h + D
      BY <1>8, <1>9, <1>12, <1>17, <2>2
  <2>4. Number(Copy(long, short, FALSE)) = Number(long) - (Number(long) % low) + Number(short)
      BY <1>8, <1>12, <1>17, <2>2, <2>3
  <2>5. Number(OpAnd(short, long)) + Number(OpOr(short, long)) = Number(short) + (Number(long) % low)
      BY <1>8, <1>9, <1>12, <1>17, <2>1
  <2>6. Number(OpXor(long, short)) = Number(OpOr(long, short)) - Number(OpAnd(short, long))
      BY <1>8, <1>9, <1>12, <2>1
  <2>7. Number(OpAnd(long, short))
            = Number(long) - (Number(long) % low) + Number(OpAnd(short, long))
      BY <1>8, <1>12, <1>17, <2>2, <2>3
  <2> QED
      BY <2>3, <2>4, <2>5, <2>6, <2>7
<1> QED
    BY <1>11, <1>15, <1>16, <1>17, <1>18 DEF ComputesOnNumbers, wide

(***************************************************************************)
(* To its operations and comparisons a container is a number, most         *)
(* significant byte first, whatever was assigned, combined and set before: *)
(* operands of different size meet at their last bytes, the longer one     *)
(* keeps the rest, and equal sizes, and a container and an array, compare  *)
(* as numbers (copy, the operators &=, |=, ^= and the comparisons of       *)
(* binary.h, with the loops of binary.cpp that run from the last byte).    *)
(***************************************************************************)
THEOREM ContainersAreNumbers == BinSpec => []ComputesOnNumbers
<1>1. BinInit => BinInv
    BY SizeAssumption, OthersFit DEF BinInit, BinInv
<1> QED
    BY <1>1, BinStepInv, BinaryIsNumbers, PTL DEF BinSpec

-----------------------------------------------------------------------------
(***************************************************************************)
(* IpText: the parser of IPv6 addresses, against the notation.             *)
(***************************************************************************)
\* An item that gives a quad.
QuadItem(item, d) ==
    /\ Len(item.word) \in 1 .. 4
    /\ item.then \in {d} \cup Ends

(***************************************************************************)
(* The first h items of T write n quads with the delimiter d: all of them, *)
(* and then g is h + 1, or with a gap at item g; l is 1 if the address     *)
(* begins with the compression, t is 1 if the text ends with it.           *)
(***************************************************************************)
Shape(T, h, n, d, g, l, t) ==
    /\ d \in {":", "-"} /\ n \in {6, 8} /\ h \in Nat /\ g \in Nat /\ l \in {0, 1} /\ t \in {0, 1}
    /\ \/ /\ g = h + 1 /\ h = n /\ l = 0 /\ t = 0
          /\ \A i \in 1 .. h : QuadItem(T[i], d)
       \/ /\ g \in 2 .. h /\ T[g] = Item(<<>>, d)
          /\ l = 1 => g = 2 /\ T[1] = Item(<<>>, d)
          /\ t = 1 => g = h - 1 /\ T[h].word = <<>> /\ T[h].then \in Ends
          /\ (g - 1 - l) + (h - g - t) < n
          /\ \A i \in 1 .. g - 1 - l : QuadItem(T[i], d)
          /\ \A i \in g + 1 .. h - t : QuadItem(T[i], d)

\* The quads after k items, the first g - 1 - l of them before the gap.
QuadAt(T, i) == Value(T[i].word, 16)

Count(g, l, k) == IF k = 0 THEN 0 ELSE IF k < g THEN k - l ELSE k - 1 - l

QuadsRead(T, g, l, c) == [i \in 1 .. c |-> QuadAt(T, IF i <= g - 1 - l THEN i ELSE i + 1 + l)]

\* The parser after k of the items, and m decimals.
Parts == {"version", "kind", "status", "delimiter", "start", "need",
          "deflated", "first", "quads", "decimals", "mask"}

Reading(q, T, d, g, l, k) ==
    /\ DOMAIN q = Parts
    /\ q.version = "ipv6" /\ q.status = "reading"
    /\ q.delimiter = IF k = 0 THEN "none" ELSE d
    /\ q.start <=> k = 0
    /\ q.need <=> k = 1 /\ l = 1
    /\ q.deflated <=> k >= g
    /\ k >= g => q.first = g - 1 - l
    /\ q.quads = QuadsRead(T, g, l, Count(g, l, k))
    /\ q.decimals = <<>>

\* All the quads, with zeros in the gap.
AllQuads(T, h, n, g, l, t) ==
    [j \in 1 .. n |->
        IF j <= g - 1 - l THEN QuadAt(T, j)
        ELSE IF j <= n - (h - g - t) THEN 0 ELSE QuadAt(T, j - n + h - t)]

LEMMA AppendToFunction ==
    ASSUME NEW m \in Nat, NEW f, f = [i \in 1 .. m + 1 |-> f[i]]
    PROVE  Append([i \in 1 .. m |-> f[i]], f[m + 1]) = f
<1> DEFINE S == {f[i] : i \in 1 .. m + 1}
           s == [i \in 1 .. m |-> f[i]]
           e == f[m + 1]
<1>1. f \in [1 .. m + 1 -> S]
    OBVIOUS
<1>2. f \in Seq(S) /\ Len(f) = m + 1
    BY <1>1
<1>3. s \in [1 .. m -> S] /\ \A i \in 1 .. m : s[i] = f[i]
    OBVIOUS
<1>4. e \in S
    OBVIOUS
<1> HIDE DEF s, S
<1>5. s \in Seq(S) /\ Len(s) = m
    BY <1>3
<1>6. /\ Append(s, e) \in Seq(S)
      /\ Len(Append(s, e)) = m + 1
      /\ \A i \in 1 .. m : Append(s, e)[i] = s[i]
      /\ Append(s, e)[m + 1] = e
    BY <1>4, <1>5, AppendProperties
<1>7. \A i \in 1 .. m + 1 : i \in 1 .. m \/ i = m + 1
    OBVIOUS
<1>8. \A i \in 1 .. m + 1 : Append(s, e)[i] = f[i]
    BY <1>3, <1>6, <1>7
<1> HIDE DEF e
<1>9. Append(s, e) = f
    BY <1>2, <1>6, <1>8, SeqEqual
<1> QED
    BY <1>9 DEF s, e

LEMMA LenQuads ==
    \A T : \A g, l, c \in Nat : Len(QuadsRead(T, g, l, c)) = c
  BY DEF QuadsRead

\* One quad more.
LEMMA OneQuadMore ==
    ASSUME NEW T, NEW g \in Nat, NEW l \in Nat, NEW c \in Nat
    PROVE  /\ Append(QuadsRead(T, g, l, c), QuadAt(T, IF c + 1 <= g - 1 - l THEN c + 1 ELSE c + 2 + l))
                = QuadsRead(T, g, l, c + 1)
           /\ Len(QuadsRead(T, g, l, c)) = c
<1> DEFINE f == QuadsRead(T, g, l, c + 1)
<1>1. /\ f = [i \in 1 .. c + 1 |-> f[i]]
      /\ \A i \in 1 .. c + 1 : f[i] = QuadAt(T, IF i <= g - 1 - l THEN i ELSE i + 1 + l)
    BY DEF QuadsRead
<1>2. c + 1 \in 1 .. c + 1 /\ (c + 1) + 1 + l = c + 2 + l
    OBVIOUS
<1>3. QuadsRead(T, g, l, c) = [i \in 1 .. c |-> f[i]]
    BY <1>1 DEF QuadsRead
<1>4. f[c + 1] = QuadAt(T, IF c + 1 <= g - 1 - l THEN c + 1 ELSE c + 2 + l)
    BY <1>1, <1>2
<1> HIDE DEF f
<1>5. Append([i \in 1 .. c |-> f[i]], f[c + 1]) = f
    BY <1>1, AppendToFunction
<1>6. Len(QuadsRead(T, g, l, c)) = c
    BY DEF QuadsRead
<1> QED
    BY <1>3, <1>4, <1>5, <1>6 DEF f

(***************************************************************************)
(* One item, of the quads and the gap.                                     *)
(***************************************************************************)
LEMMA ItemRead ==
    ASSUME NEW T, NEW h, NEW n, NEW d, NEW g, NEW l, NEW t, Shape(T, h, n, d, g, l, t),
           NEW k \in Nat, k < h, T[k + 1].then = d,
           NEW q, Reading(q, T, d, g, l, k)
    PROVE  Reading(Token6(q, T[k + 1]), T, d, g, l, k + 1)
<1> DEFINE c == Count(g, l, k)
           item == T[k + 1]
<1>1. /\ d \in {":", "-"} /\ n \in {6, 8} /\ h \in Nat /\ g \in Nat /\ l \in {0, 1} /\ t \in {0, 1}
      /\ g \in 2 .. h + 1
      /\ l = 1 => g = 2 /\ T[1] = Item(<<>>, d)
      /\ c \in Nat
    BY DEF Shape, Count
<1>2. /\ q.quads = QuadsRead(T, g, l, c) /\ Len(q.quads) = c
      /\ DOMAIN q = Parts
  <2>1. Len(QuadsRead(T, g, l, c)) = c
    <3> HIDE DEF c
    <3> QED
        BY <1>1, LenQuads
  <2>2. q.quads = QuadsRead(T, g, l, c) /\ DOMAIN q = Parts
      BY DEF Reading
  <2> QED
      BY <2>1, <2>2
<1>3. q.decimals = <<>> /\ item.then = d
    BY DEF Reading
<1>4. CASE k + 1 = g
  <2>1. item.word = <<>> /\ k >= 1 /\ k < g
      BY <1>1, <1>4 DEF Shape, Item
  <2>2. Len(item.word) = 0
      BY <2>1
  <2>3. Token6(q, item) = Compression(q, d)
      BY <1>1, <1>3, <2>1, <2>2 DEF Token6
  <2>4. CanDelimit(q, d) /\ ~q.start /\ ~q.deflated
      BY <1>1, <2>1 DEF CanDelimit, Reading
  <2>5. Compression(q, d) =
            [q EXCEPT !.delimiter = d, !.need = FALSE, !.deflated = TRUE, !.first = Len(q.quads)]
      BY <2>4 DEF Compression
  <2>6. Count(g, l, k + 1) = c /\ c = g - 1 - l
      BY <1>1, <1>4, <2>1 DEF Count
  <2>7. PICK r : r = [q EXCEPT !.delimiter = d, !.need = FALSE, !.deflated = TRUE, !.first = Len(q.quads)]
      OBVIOUS
  <2>8. /\ DOMAIN r = DOMAIN q /\ r.version = q.version /\ r.status = q.status
        /\ r.delimiter = d /\ r.start = q.start /\ ~r.need /\ r.deflated
        /\ r.first = Len(q.quads) /\ r.quads = q.quads /\ r.decimals = q.decimals
      BY <1>2, <2>7 DEF Parts
  <2>9. Reading(r, T, d, g, l, k + 1)
      BY <1>1, <1>2, <1>4, <2>1, <2>6, <2>8 DEF Reading
  <2> QED
      BY <2>3, <2>5, <2>7, <2>8, <2>9
<1>5. CASE k + 1 # g /\ k = 0 /\ l = 1
  <2>1. item.word = <<>>
      BY <1>1, <1>5 DEF Item
  <2>2. Len(item.word) = 0
      BY <2>1
  <2>3. Token6(q, item) = Compression(q, d)
      BY <1>1, <1>3, <2>1, <2>2 DEF Token6
  <2>4. CanDelimit(q, d) /\ q.start
      BY <1>1, <1>5 DEF CanDelimit, Reading
  <2>5. Compression(q, d) = [q EXCEPT !.delimiter = d, !.start = FALSE, !.need = TRUE]
      BY <2>4 DEF Compression
  <2>6. Count(g, l, k + 1) = c
      BY <1>1, <1>5 DEF Count
  <2>7. PICK r : r = [q EXCEPT !.delimiter = d, !.start = FALSE, !.need = TRUE]
      OBVIOUS
  <2>8. /\ DOMAIN r = DOMAIN q /\ r.version = q.version /\ r.status = q.status
        /\ r.delimiter = d /\ ~r.start /\ r.need /\ r.deflated = q.deflated
        /\ r.first = q.first /\ r.quads = q.quads /\ r.decimals = q.decimals
      BY <1>2, <2>7 DEF Parts
  <2>9. Reading(r, T, d, g, l, k + 1)
      BY <1>1, <1>5, <2>6, <2>8 DEF Reading
  <2> QED
      BY <2>3, <2>5, <2>7, <2>8, <2>9
<1>6. CASE k + 1 # g /\ ~(k = 0 /\ l = 1)
  <2>1. QuadItem(item, d) /\ c < 8 /\ ~(k = 1 /\ l = 1)
    <3>1. d \notin Ends
        BY <1>1 DEF Ends
    <3>2. ~(t = 1 /\ k + 1 = h)
        BY <1>1, <1>3, <3>1 DEF Shape
    <3>3. CASE g = h + 1
      <4>1. k + 1 \in 1 .. h /\ k < g /\ h = n
          BY <1>1, <3>3 DEF Shape
      <4>2. QuadItem(T[k + 1], d)
          BY <1>1, <3>3, <4>1 DEF Shape
      <4> QED
          BY <1>1, <1>6, <3>3, <4>1, <4>2 DEF Count
    <3>4. CASE g # h + 1
      <4>1. /\ g \in 2 .. h
            /\ t = 1 => g = h - 1
            /\ (g - 1 - l) + (h - g - t) < n
            /\ \A i \in 1 .. g - 1 - l : QuadItem(T[i], d)
            /\ \A i \in g + 1 .. h - t : QuadItem(T[i], d)
          BY <1>1, <3>4 DEF Shape
      <4>2. k + 1 \in 1 .. g - 1 - l \/ k + 1 \in g + 1 .. h - t
          BY <1>1, <1>6, <3>2, <4>1
      <4>3. QuadItem(T[k + 1], d)
          BY <4>1, <4>2
      <4>4. ~(k = 1 /\ l = 1)
          BY <1>1, <1>6, <3>4, <4>1
      <4>5. c < 8
        <5>1. c <= (g - 1 - l) + (h - g - t) /\ n <= 8
            BY <1>1, <1>6, <3>2, <3>4, <4>1 DEF Count
        <5> HIDE DEF c
        <5> QED
            BY <1>1, <4>1, <5>1
      <4> QED
          BY <4>3, <4>4, <4>5
    <3> QED
        BY <3>3, <3>4
  <2>2. Len(item.word) \in 1 .. 4
      BY <2>1 DEF QuadItem
  <2>3. item.word # <<>>
    <3> SUFFICES ASSUME item.word = <<>> PROVE FALSE
        OBVIOUS
    <3>1. Len(item.word) = 0
        OBVIOUS
    <3> QED
        BY <2>2, <3>1
  <2>4. PICK s : s = [q EXCEPT !.delimiter = d]
      OBVIOUS
  <2>5. Token6(q, item) = Quad(s, item.word)
    <3>1. CanDelimit(q, d)
        BY <1>1, <2>1 DEF CanDelimit, Reading
    <3>2. d \in {":", "-"} /\ d \notin {"/", "end"} /\ d # "."
        BY <1>1
    <3>3. ~(Len(item.word) > 4)
      <4> DEFINE len == Len(item.word)
      <4>1. len \in 1 .. 4
          BY <2>2
      <4> HIDE DEF len
      <4>2. ~(len > 4)
          BY <4>1
      <4> QED
          BY <4>2 DEF len
    <3> QED
        BY <1>3, <2>2, <2>3, <2>4, <3>1, <3>2, <3>3 DEF Token6
  <2>6. /\ DOMAIN s = DOMAIN q /\ s.version = q.version /\ s.status = q.status
        /\ s.delimiter = d /\ s.start = q.start /\ s.need = q.need /\ s.deflated = q.deflated
        /\ s.first = q.first /\ s.quads = q.quads /\ s.decimals = q.decimals
      BY <1>2, <2>4 DEF Parts
  <2>7. Quad(s, item.word) = [s EXCEPT !.quads = Append(@, QuadAt(T, k + 1)), !.start = FALSE]
    <3>1. ~s.need /\ Len(s.quads) # 8
      <4>1. ~q.need
          BY <1>1, <2>1 DEF Reading
      <4>2. c # 8
          BY <1>1, <2>1
      <4> QED
          BY <1>2, <2>6, <4>1, <4>2
    <3> QED
        BY <3>1 DEF Quad, QuadAt
  <2>8. PICK r : r = [s EXCEPT !.quads = Append(@, QuadAt(T, k + 1)), !.start = FALSE]
      OBVIOUS
  <2>9. /\ DOMAIN r = DOMAIN s /\ r.version = s.version /\ r.status = s.status
        /\ r.delimiter = s.delimiter /\ ~r.start /\ r.need = s.need /\ r.deflated = s.deflated
        /\ r.first = s.first /\ r.quads = Append(s.quads, QuadAt(T, k + 1)) /\ r.decimals = s.decimals
      BY <1>2, <2>6, <2>8 DEF Parts
  <2>10. /\ Count(g, l, k + 1) = c + 1
         /\ k + 1 = IF c + 1 <= g - 1 - l THEN c + 1 ELSE c + 2 + l
      BY <1>1, <1>6 DEF Count
  <2>11. Append(QuadsRead(T, g, l, c), QuadAt(T, k + 1)) = QuadsRead(T, g, l, c + 1)
    <3>1. PICK x : x = IF c + 1 <= g - 1 - l THEN c + 1 ELSE c + 2 + l
        OBVIOUS
    <3>2. g \in Nat /\ l \in Nat /\ c \in Nat
        BY <1>1
    <3>3. Append(QuadsRead(T, g, l, c), QuadAt(T, x)) = QuadsRead(T, g, l, c + 1)
        BY <3>1, <3>2, OneQuadMore, SMT
    <3> QED
        BY <2>10, <3>1, <3>3
  <2>12. Reading(r, T, d, g, l, k + 1)
    <3>1. r.quads = QuadsRead(T, g, l, Count(g, l, k + 1))
        BY <1>2, <2>6, <2>9, <2>10, <2>11
    <3> QED
        BY <1>1, <1>6, <2>1, <2>6, <2>9, <3>1 DEF Reading
  <2> QED
      BY <2>5, <2>6, <2>7, <2>8, <2>9, <2>12
<1> QED
    BY <1>4, <1>5, <1>6

(***************************************************************************)
(* The end of the text: inflate moves the quads to where the notation has  *)
(* them.                                                                   *)
(***************************************************************************)
LEMMA NothingToFill ==
    ASSUME NEW T, NEW h, NEW n, NEW d, NEW g, NEW l, NEW t, Shape(T, h, n, d, g, l, t), g = h + 1
    PROVE  /\ QuadsRead(T, g, l, Count(g, l, h - t)) = AllQuads(T, h, n, g, l, t)
           /\ Count(g, l, h - t) = n
<1>1. h = n /\ n \in {6, 8} /\ l = 0 /\ t = 0 /\ h \in Nat
    BY DEF Shape
<1>2. Count(g, l, h - t) = n
    BY <1>1 DEF Count
<1> QED
    BY <1>1, <1>2 DEF QuadsRead, AllQuads

LEMMA GapFilled ==
    ASSUME NEW T, NEW h, NEW n, NEW d, NEW g, NEW l, NEW t, Shape(T, h, n, d, g, l, t), g # h + 1,
           NEW q, q.first = g - 1 - l, q.quads = QuadsRead(T, g, l, Count(g, l, h - t)),
           number_of_quads(q) = n
    PROVE  /\ Inflated(q) = AllQuads(T, h, n, g, l, t)
           /\ Count(g, l, h - t) < n
<1> DEFINE f == g - 1 - l
           a == h - g - t
           c == Count(g, l, h - t)
<1>1. /\ n \in {6, 8} /\ h \in Nat /\ g \in Nat /\ l \in {0, 1} /\ t \in {0, 1}
      /\ g \in 2 .. h
      /\ l = 1 => g = 2
      /\ t = 1 => g = h - 1
      /\ f + a < n
    BY DEF Shape
<1>2. f \in Nat /\ a \in Nat /\ c = f + a /\ c \in Nat
    BY <1>1 DEF Count
<1>3. Len(q.quads) = c
    BY <1>1, <1>2, LenQuads
<1>4. \A i \in 1 .. c : q.quads[i] = QuadAt(T, IF i <= f THEN i ELSE i + 1 + l)
    BY DEF QuadsRead
<1>5. Inflated(q) = [j \in 1 .. n |->
                        IF j - 1 >= n - (c - f) THEN q.quads[j - 1 + c - n + 1]
                        ELSE IF j - 1 >= f THEN 0 ELSE q.quads[j]]
  <2>1. c <= n
      BY <1>1, <1>2
  <2> HIDE DEF c
  <2> QED
      BY <1>3, <2>1 DEF Inflated
<1>6. ASSUME NEW j \in 1 .. n, j - 1 >= n - (c - f)
      PROVE  q.quads[j - 1 + c - n + 1] = QuadAt(T, j - n + h - t) /\ ~(j <= f) /\ ~(j <= n - a)
  <2>1. /\ j - 1 + c - n + 1 \in 1 .. c /\ ~(j - 1 + c - n + 1 <= f)
        /\ (j - 1 + c - n + 1) + 1 + l = j - n + h - t
        /\ ~(j <= f) /\ ~(j <= n - a)
    <3>1. c = h - 1 - l - t /\ c - f = a /\ n \in Nat /\ l \in Nat /\ t \in Nat
        BY <1>1, <1>2
    <3>2. f + a < n
        BY <1>1
    <3> HIDE DEF c, f, a
    <3>3. j - 1 >= n - a
        BY <1>6, <3>1
    <3> QED
        BY <1>1, <1>2, <3>1, <3>2, <3>3
  <2> HIDE DEF c, f, a
  <2> QED
      BY <1>4, <2>1
<1>7. ASSUME NEW j \in 1 .. n, ~(j - 1 >= n - (c - f))
      PROVE  j <= n - a /\ (j - 1 >= f <=> ~(j <= f)) /\ (j <= f => q.quads[j] = QuadAt(T, j))
  <2>1. j <= n - a /\ (j - 1 >= f <=> ~(j <= f)) /\ (j <= f => j \in 1 .. c)
      BY <1>1, <1>2, <1>7
  <2> HIDE DEF c, f, a
  <2> QED
      BY <1>4, <2>1
<1>8. AllQuads(T, h, n, g, l, t) =
         [j \in 1 .. n |-> IF j <= f THEN QuadAt(T, j) ELSE IF j <= n - a THEN 0
                           ELSE QuadAt(T, j - n + h - t)]
    BY DEF AllQuads
<1>9. c < n
    BY <1>1, <1>2
<1> HIDE DEF c, f, a
<1>10. \A j \in 1 .. n :
         (IF j - 1 >= n - (c - f) THEN q.quads[j - 1 + c - n + 1]
                        ELSE IF j - 1 >= f THEN 0 ELSE q.quads[j])
         = (IF j <= f THEN QuadAt(T, j) ELSE IF j <= n - a THEN 0
                           ELSE QuadAt(T, j - n + h - t))
    BY <1>6, <1>7
<1>11. Inflated(q) = AllQuads(T, h, n, g, l, t)
    BY <1>5, <1>8, <1>10
<1> QED
    BY <1>9, <1>11 DEF c

LEMMA EndRead ==
    ASSUME NEW T, NEW h, NEW n, NEW d, NEW g, NEW l, NEW t, Shape(T, h, n, d, g, l, t),
           NEW q, DOMAIN q = Parts, q.deflated <=> h >= g, h >= g => q.first = g - 1 - l,
           q.quads = QuadsRead(T, g, l, Count(g, l, h - t)),
           number_of_quads(q) = n, Len(q.decimals) \in {0, 4},
           NEW then, q.kind = "host" \/ then = "/"
    PROVE  /\ Finished(q, then).status \in {"done", "slash"}
           /\ Finished(q, then).quads = AllQuads(T, h, n, g, l, t)
           /\ Finished(q, then).decimals = q.decimals
<1>1. /\ h \in Nat /\ g \in Nat /\ g \in 2 .. h + 1 /\ l \in {0, 1} /\ t \in {0, 1} /\ n \in {6, 8}
      /\ g # h + 1 /\ l = 1 => g = 2
      /\ g # h + 1 /\ t = 1 => g = h - 1
    BY DEF Shape
<1>2. Count(g, l, h - t) \in Nat
    BY <1>1, NothingToFill, GapFilled DEF Count
<1>3. Len(q.quads) = Count(g, l, h - t)
  <2> DEFINE c == Count(g, l, h - t)
  <2> HIDE DEF c
  <2> QED
      BY <1>1, <1>2, LenQuads DEF c
<1> DEFINE r == [q EXCEPT !.quads = IF q.deflated THEN Inflated(q) ELSE @]
<1>4. r.quads = AllQuads(T, h, n, g, l, t) /\ r.decimals = q.decimals /\ r.kind = q.kind /\ DOMAIN r = Parts
  <2>1. CASE g = h + 1
    <3>1. ~q.deflated /\ q.quads = AllQuads(T, h, n, g, l, t)
        BY <1>1, <2>1, NothingToFill
    <3> QED
        BY <3>1 DEF Parts
  <2>2. CASE g # h + 1
    <3>1. q.deflated /\ q.first = g - 1 - l
        BY <1>1, <2>2
    <3>2. Inflated(q) = AllQuads(T, h, n, g, l, t)
        BY <2>2, <3>1, GapFilled
    <3> QED
        BY <3>1, <3>2 DEF Parts
  <2> QED
      BY <2>1, <2>2
<1>5. Finished(q, then) = Complete(r, then)
  <2>1. CASE g = h + 1
    <3>1. ~q.deflated
        BY <1>1, <2>1
    <3>2. Count(g, l, h - t) = n
        BY <2>1, NothingToFill, SMT
    <3>3. Len(q.quads) = n
        BY <1>3, <3>2, Zenon
    <3> QED
        BY <3>1, <3>3 DEF Finished
  <2>2. CASE g # h + 1
    <3>1. q.deflated /\ q.first = g - 1 - l
        BY <1>1, <2>2
    <3>2. Len(q.quads) < n
        BY <1>3, <2>2, <3>1, GapFilled
    <3>3. ~(Len(q.quads) - q.first > n)
        BY <1>1, <1>2, <1>3, <2>2, <3>1, <3>2
    <3> QED
        BY <3>1, <3>3 DEF Finished
  <2> QED
      BY <2>1, <2>2
<1> HIDE DEF r
<1>6. /\ Complete(r, then).status \in {"done", "slash"}
      /\ Complete(r, then).quads = r.quads /\ Complete(r, then).decimals = r.decimals
    BY <1>4 DEF Complete, Parts
<1> QED
    BY <1>4, <1>5, <1>6

\* An address without decimals.
LEMMA LastRead ==
    ASSUME NEW T, NEW h, NEW d, NEW g, NEW l, NEW t, Shape(T, h, 8, d, g, l, t), T[h].then \in Ends,
           NEW q, Reading(q, T, d, g, l, h - 1), q.kind = "host" \/ T[h].then = "/"
    PROVE  /\ h >= 1
           /\ Token6(q, T[h]).status \in {"done", "slash"}
           /\ Token6(q, T[h]).quads = AllQuads(T, h, 8, g, l, t)
           /\ Token6(q, T[h]).decimals = <<>>
<1> DEFINE item == T[h]
           c == Count(g, l, h - 1)
<1>1. /\ d \in {":", "-"} /\ h \in Nat /\ g \in Nat /\ l \in {0, 1} /\ t \in {0, 1}
      /\ g \in 2 .. h + 1 /\ h >= 2
      /\ g # h + 1 /\ l = 1 => g = 2
      /\ item.then \in {"/", "end"} /\ item.then # d
    BY DEF Shape, Ends
<1>2. g # h
  <2> SUFFICES ASSUME g = h PROVE FALSE
      OBVIOUS
  <2>1. T[h] = Item(<<>>, d)
      BY <1>1 DEF Shape
  <2> QED
      BY <1>1, <2>1 DEF Item
<1>3. /\ DOMAIN q = Parts /\ q.decimals = <<>> /\ q.status = "reading"
      /\ ~q.need /\ (q.deflated <=> h >= g) /\ (h >= g => q.first = g - 1 - l)
      /\ q.quads = QuadsRead(T, g, l, c)
  <2>1. (h - 1 >= g <=> h >= g) /\ (h - 1 = 1 /\ l = 1 => FALSE)
    <3>1. h - 1 = 1 /\ l = 1 => g = 3
        BY <1>1, <1>2
    <3>2. g = h + 1 => l = 0
        BY <1>1 DEF Shape
    <3> QED
        BY <1>1, <1>2, <3>1, <3>2
  <2> QED
      BY <2>1 DEF Reading
<1>4. Len(<<>>) \in {0, 4}
    OBVIOUS
<1>5. CASE t = 1
  <2>1. item.word = <<>> /\ h - t = h - 1
      BY <1>1, <1>5 DEF Shape
  <2>2. Len(item.word) = 0
      BY <2>1
  <2>3. Token6(q, item) = Finished(q, item.then)
      BY <1>1, <1>3, <2>1, <2>2 DEF Token6
  <2>4. number_of_quads(q) = 8
      BY <1>3 DEF number_of_quads
  <2>5. q.quads = QuadsRead(T, g, l, Count(g, l, h - t)) /\ Len(q.decimals) \in {0, 4}
      BY <1>3, <1>4, <2>1
  <2> QED
      BY <1>1, <1>3, <2>3, <2>4, <2>5, EndRead
<1>6. CASE t = 0
  <2>1. QuadItem(item, d) /\ c \in Nat /\ c < 8
    <3>1. CASE g = h + 1
      <4>1. QuadItem(T[h], d) /\ h = 8 /\ l = 0
          BY <1>1, <3>1 DEF Shape
      <4> QED
          BY <1>1, <3>1, <4>1 DEF Count
    <3>2. CASE g # h + 1
      <4>1. /\ (g - 1 - l) + (h - g) < 8
            /\ \A i \in g + 1 .. h : QuadItem(T[i], d)
          BY <1>1, <1>6, <3>2 DEF Shape
      <4>2. h \in g + 1 .. h
          BY <1>1, <1>2, <3>2
      <4> QED
          BY <1>1, <1>2, <3>2, <4>1, <4>2 DEF Count
    <3> QED
        BY <3>1, <3>2
  <2>2. Len(item.word) \in 1 .. 4
      BY <2>1 DEF QuadItem
  <2>3. item.word # <<>> /\ ~(Len(item.word) > 4)
    <3> DEFINE len == Len(item.word)
    <3>1. len \in 1 .. 4
        BY <2>2
    <3>2. item.word = <<>> => len = 0
        OBVIOUS
    <3> HIDE DEF len
    <3>3. len # 0 /\ ~(len > 4)
        BY <3>1
    <3> QED
        BY <3>2, <3>3 DEF len
  <2> DEFINE r == [q EXCEPT !.quads = Append(@, QuadAt(T, h)), !.start = FALSE]
  <2>4. Len(q.quads) # 8
    <3>1. Len(QuadsRead(T, g, l, c)) = c
      <4> HIDE DEF c
      <4> QED
          BY <1>1, <2>1, LenQuads
    <3>2. q.quads = QuadsRead(T, g, l, c) /\ c # 8
        BY <1>3, <2>1
    <3> HIDE DEF c
    <3> QED
        BY <3>1, <3>2
  <2>5. Quad(q, item.word) = r
      BY <1>3, <2>4 DEF Quad, QuadAt
  <2>6. /\ DOMAIN r = Parts /\ r.kind = q.kind /\ r.status = q.status
        /\ r.deflated = q.deflated /\ r.first = q.first /\ r.decimals = q.decimals
        /\ r.quads = Append(q.quads, QuadAt(T, h))
      BY <1>3 DEF Parts
  <2> HIDE DEF r
  <2>7. Token6(q, item) = Finished(r, item.then)
    <3>1. item.then # "." /\ item.then \notin {":", "-"} /\ r.status = "reading"
        BY <1>1, <1>3, <2>6
    <3> QED
        BY <1>3, <2>3, <2>5, <3>1 DEF Token6
  <2>8. number_of_quads(r) = 8 /\ Len(r.decimals) \in {0, 4}
      BY <1>3, <1>4, <2>6 DEF number_of_quads
  <2>9. r.quads = QuadsRead(T, g, l, Count(g, l, h - t))
    <3>1. /\ Count(g, l, h - t) = c + 1
          /\ h = IF c + 1 <= g - 1 - l THEN c + 1 ELSE c + 2 + l
        BY <1>1, <1>2, <1>6 DEF Count, Shape
    <3>2. PICK x : x = IF c + 1 <= g - 1 - l THEN c + 1 ELSE c + 2 + l
        OBVIOUS
    <3>3. Append(QuadsRead(T, g, l, c), QuadAt(T, x)) = QuadsRead(T, g, l, c + 1)
      <4> HIDE DEF c
      <4> QED
          BY <1>1, <2>1, <3>2, OneQuadMore
    <3> QED
        BY <1>3, <2>6, <3>1, <3>2, <3>3
  <2>10. r.kind = "host" \/ item.then = "/"
      BY <2>6
  <2> QED
      BY <1>1, <1>3, <2>6, <2>7, <2>8, <2>9, <2>10, EndRead
<1> QED
    BY <1>1, <1>5, <1>6

(***************************************************************************)
(* The decimals after the h-th item: m of them.                            *)
(***************************************************************************)
DecimalItem(item) ==
    /\ Len(item.word) \in 1 .. 3 /\ IsDecimal(item.word)
    /\ Value(item.word, 10) \in 0 .. 255

DecimalsRead(T, h, m) == [i \in 1 .. m |-> Value(T[h + i].word, 10)]

InDecimals(q, T, h, g, l, m) ==
    /\ DOMAIN q = Parts
    /\ q.version = "ipv6" /\ q.status = "reading"
    /\ q.delimiter = IF m = 0 THEN ":" ELSE "."
    /\ ~q.need
    /\ q.deflated <=> h >= g
    /\ h >= g => q.first = g - 1 - l
    /\ q.quads = QuadsRead(T, g, l, Count(g, l, h))
    /\ q.decimals = DecimalsRead(T, h, m)

LEMMA PlainItem ==
    ASSUME NEW item, DecimalItem(item)
    PROVE  /\ item.word # <<>> /\ ~(Len(item.word) > 4)
           /\ DecimalPrefix(item.word) = item.word
           /\ IsDecimal(item.word)
<1> DEFINE word == item.word
           len == Len(word)
<1>1. len \in 1 .. 3 /\ IsDecimal(word)
    BY DEF DecimalItem
<1>2. word = <<>> => len = 0
    OBVIOUS
<1>3. DecimalPrefix(word) = word
    BY <1>1 DEF DecimalPrefix
<1> HIDE DEF len
<1>4. word # <<>> /\ ~(len > 4)
    BY <1>1, <1>2
<1> QED
    BY <1>1, <1>3, <1>4 DEF len

LEMMA DecimalTaken ==
    ASSUME NEW T, NEW h \in Nat, NEW g, NEW l, NEW m \in 0 .. 3,
           NEW item, item = T[h + m + 1], DecimalItem(item),
           NEW q, InDecimals(q, T, h, g, l, m)
    PROVE  InDecimals(Decimal(q, item.word), T, h, g, l, m + 1)
<1> DEFINE word == item.word
           len == Len(word)
           v == Value(word, 10)
<1>1. len \in 1 .. 3 /\ IsDecimal(word) /\ v \in 0 .. 255
    BY DEF DecimalItem
<1>2. word = <<>> => len = 0
    OBVIOUS
<1>3. /\ DecimalsRead(T, h, m + 1) = Append(DecimalsRead(T, h, m), v)
      /\ Len(DecimalsRead(T, h, m)) = m
  <2> DEFINE f == DecimalsRead(T, h, m + 1)
  <2>1. /\ f = [i \in 1 .. m + 1 |-> f[i]]
        /\ \A i \in 1 .. m + 1 : f[i] = Value(T[h + i].word, 10)
      BY DEF DecimalsRead
  <2>2. m \in Nat /\ h + (m + 1) = h + m + 1 /\ m + 1 \in 1 .. m + 1
      OBVIOUS
  <2>3. DecimalsRead(T, h, m) = [i \in 1 .. m |-> f[i]]
      BY <2>1, <2>2 DEF DecimalsRead
  <2>4. f[m + 1] = v
      BY <2>1, <2>2
  <2> HIDE DEF f, v
  <2>5. Append([i \in 1 .. m |-> f[i]], f[m + 1]) = f
      BY <2>1, <2>2, AppendToFunction
  <2>6. Len(DecimalsRead(T, h, m)) = m
      BY <2>2 DEF DecimalsRead
  <2> QED
      BY <2>3, <2>4, <2>5, <2>6 DEF f
<1>4. /\ DOMAIN q = Parts /\ ~q.need /\ q.decimals = DecimalsRead(T, h, m)
      /\ CanDelimit(q, ".")
    BY DEF InDecimals, CanDelimit
<1>5. Len(q.decimals) = m
    BY <1>3, <1>4
<1> HIDE DEF len
<1>6. word # <<>> /\ ~(len > 4)
    BY <1>1, <1>2
<1> DEFINE r == [q EXCEPT !.decimals = Append(@, v), !.delimiter = ".", !.start = FALSE]
<1>7. Decimal(q, word) = r
  <2>1. ~(v > 255) /\ Len(q.decimals) # 4
    <3> HIDE DEF v
    <3> QED
        BY <1>1, <1>5
  <2> QED
      BY <1>4, <1>6, <2>1 DEF Decimal
<1>8. /\ DOMAIN r = Parts /\ r.status = q.status /\ r.version = q.version
       /\ r.delimiter = "." /\ r.need = q.need /\ r.quads = q.quads
       /\ r.deflated = q.deflated /\ r.first = q.first /\ r.decimals = Append(q.decimals, v)
    BY <1>4 DEF Parts
<1> HIDE DEF r, v
<1>9. InDecimals(r, T, h, g, l, m + 1)
    BY <1>3, <1>4, <1>8 DEF InDecimals
<1> QED
    BY <1>7, <1>9

LEMMA HasDecimals ==
    ASSUME NEW T, NEW h, NEW g, NEW l, NEW m \in 1 .. 4, NEW q, InDecimals(q, T, h, g, l, m)
    PROVE  q.decimals # <<>>
<1> SUFFICES ASSUME q.decimals = <<>> PROVE FALSE
    OBVIOUS
<1>1. q.decimals = DecimalsRead(T, h, m)
    BY DEF InDecimals
<1>2. Len(DecimalsRead(T, h, m)) = m
    BY DEF DecimalsRead
<1>3. Len(q.decimals) = 0
    OBVIOUS
<1> QED
    BY <1>1, <1>2, <1>3

LEMMA DecimalsBegin ==
    ASSUME NEW T, NEW h, NEW g, NEW l, NEW t, Shape(T, h, 6, ":", g, l, t),
           NEW q, Reading(q, T, ":", g, l, h)
    PROVE  InDecimals(q, T, h, g, l, 0)
<1>1. /\ h \in Nat /\ h >= 2 /\ g \in Nat /\ l \in {0, 1}
    BY DEF Shape
<1>2. ~(h = 0) /\ ~(h = 1)
    BY <1>1
<1>3. DecimalsRead(T, h, 0) = <<>>
    BY DEF DecimalsRead
<1> QED
    BY <1>2, <1>3 DEF Reading, InDecimals

LEMMA DecimalRead ==
    ASSUME NEW T, NEW h \in Nat, NEW g, NEW l, NEW m \in 0 .. 2,
           NEW item, item = T[h + m + 1], DecimalItem(item), item.then = ".",
           NEW q, InDecimals(q, T, h, g, l, m)
    PROVE  InDecimals(Token6(q, item), T, h, g, l, m + 1)
<1>1. InDecimals(Decimal(q, item.word), T, h, g, l, m + 1)
  <2>1. m \in 0 .. 3
      OBVIOUS
  <2> QED
      BY <2>1, DecimalTaken
<1>2. /\ item.word # <<>> /\ ~(Len(item.word) > 4)
      /\ DecimalPrefix(item.word) = item.word
      /\ IsDecimal(item.word)
    BY PlainItem
<1>3. Token6(q, item) = Decimal(q, item.word)
    BY <1>1, <1>2 DEF Token6
<1> QED
    BY <1>1, <1>3

LEMMA LastDecimalRead ==
    ASSUME NEW T, NEW h, NEW g, NEW l, Shape(T, h, 6, ":", g, l, 0),
           NEW item, item = T[h + 4], DecimalItem(item), item.then \in Ends,
           NEW q, InDecimals(q, T, h, g, l, 3), q.kind = "host" \/ item.then = "/"
    PROVE  /\ Token6(q, item).status \in {"done", "slash"}
           /\ Token6(q, item).quads = AllQuads(T, h, 6, g, l, 0)
           /\ Token6(q, item).decimals = DecimalsRead(T, h, 4)
<1>1. h \in Nat /\ 3 \in 0 .. 3 /\ h + 3 + 1 = h + 4 /\ 3 + 1 = 4 /\ 3 # 0
    BY DEF Shape
<1>2. PICK r : r = Decimal(q, item.word)
    OBVIOUS
<1>3. /\ InDecimals(r, T, h, g, l, 4)
      /\ r.kind = q.kind
      /\ item.word # <<>> /\ ~(Len(item.word) > 4)
      /\ DecimalPrefix(item.word) = item.word
      /\ q.decimals # <<>>
  <2>1. item = T[h + 3 + 1]
      BY <1>1
  <2>2. InDecimals(Decimal(q, item.word), T, h, g, l, 3 + 1)
      BY <1>1, <2>1, DecimalTaken
  <2>3. /\ item.word # <<>> /\ ~(Len(item.word) > 4)
        /\ DecimalPrefix(item.word) = item.word
      BY PlainItem
  <2>4. q.decimals # <<>>
    <3>1. 3 \in 1 .. 4
        OBVIOUS
    <3> QED
        BY <3>1, HasDecimals
  <2>5. r.kind = q.kind
    <3>1. DOMAIN q = Parts
        BY DEF InDecimals
    <3> QED
        BY <1>2, <3>1 DEF Decimal, Failed, Undefined, Parts
  <2> QED
      BY <1>1, <1>2, <2>2, <2>3, <2>4, <2>5
<1>4. item.then \notin {".", ":", "-"}
    BY DEF Ends
<1>5. r.status = "reading"
    BY <1>3 DEF InDecimals
<1>6. Token6(q, item) = Finished(r, item.then)
    BY <1>2, <1>3, <1>4, <1>5 DEF Token6
<1>7. /\ DOMAIN r = Parts /\ (r.deflated <=> h >= g) /\ (h >= g => r.first = g - 1 - l)
      /\ r.quads = QuadsRead(T, g, l, Count(g, l, h - 0))
      /\ r.decimals = DecimalsRead(T, h, 4)
    BY <1>1, <1>3 DEF InDecimals
<1>8. Len(r.decimals) = 4
    BY <1>7 DEF DecimalsRead
<1>9. number_of_quads(r) = 6
  <2>1. r.decimals # <<>>
    <3> SUFFICES ASSUME r.decimals = <<>> PROVE FALSE
        OBVIOUS
    <3>1. Len(r.decimals) = 0
        OBVIOUS
    <3> QED
        BY <1>8, <3>1
  <2> QED
      BY <2>1 DEF number_of_quads
<1>10. r.kind = "host" \/ item.then = "/"
    BY <1>3
<1>11. Len(r.decimals) \in {0, 4}
    BY <1>8
<1> QED
    BY <1>6, <1>7, <1>9, <1>10, <1>11, EndRead

(***************************************************************************)
(* What the notation denotes, in the same terms.                           *)
(***************************************************************************)
IsList(s, m) == s = [i \in 1 .. m |-> s[i]]

LEMMA SameList ==
    ASSUME NEW m \in Nat, NEW u, NEW v, IsList(u, m), IsList(v, m),
           \A i \in 1 .. m : u[i] = v[i]
    PROVE  u = v
  BY DEF IsList

Join(w, u, v, m, n) ==
    /\ IsList(w, m + n)
    /\ \A i \in 1 .. m : w[i] = u[i]
    /\ \A i \in 1 .. n : w[m + i] = v[i]

LEMMA Joined ==
    ASSUME NEW m \in Nat, NEW n \in Nat, NEW u, NEW v, IsList(u, m), IsList(v, n)
    PROVE  Join(u \o v, u, v, m, n)
<1> DEFINE S == {u[i] : i \in 1 .. m} \cup {v[i] : i \in 1 .. n}
<1>1. u \in [1 .. m -> S] /\ v \in [1 .. n -> S]
    BY DEF IsList
<1> HIDE DEF S
<1>2. u \in Seq(S) /\ Len(u) = m /\ v \in Seq(S) /\ Len(v) = n
    BY <1>1
<1>3. PICK w : w = u \o v
    OBVIOUS
<1>4. /\ w \in Seq(S) /\ Len(w) = m + n
      /\ \A i \in 1 .. m + n : w[i] = IF i <= m THEN u[i] ELSE v[i - m]
    BY <1>2, <1>3, ConcatProperties
<1>5. w \in [1 .. m + n -> S]
    BY <1>4, LenProperties
<1>6. IsList(w, m + n)
    BY <1>5 DEF IsList
<1>7. \A i \in 1 .. m : w[i] = u[i]
    BY <1>4
<1>8. \A i \in 1 .. n : w[m + i] = v[i]
  <2>1. \A i \in 1 .. n : m + i \in 1 .. m + n /\ ~(m + i <= m) /\ (m + i) - m = i
      OBVIOUS
  <2> QED
      BY <1>4, <2>1
<1> QED
    BY <1>3, <1>6, <1>7, <1>8 DEF Join

Zeros(m) == [i \in 1 .. m |-> 0]

\* u, and v at the end of n elements, with zeros between them.
Spread(w, u, v, f, a, n) ==
    /\ IsList(w, n)
    /\ \A i \in 1 .. f : w[i] = u[i]
    /\ \A i \in f + 1 .. n - a : w[i] = 0
    /\ \A i \in 1 .. a : w[n - a + i] = v[i]

LEMMA ThreeJoined ==
    ASSUME NEW f \in Nat, NEW a \in Nat, NEW n \in Nat, f + a < n, NEW u, NEW v,
           IsList(u, f), IsList(v, a), NEW w, Spread(w, u, v, f, a, n)
    PROVE  u \o Zeros(n - f - a) \o v = w
<1> USE DEF Spread
<1>1. PICK z : z = Zeros(n - f - a)
    OBVIOUS
<1>2. PICK b \in Nat : b = n - f - a
    OBVIOUS
<1>3. PICK x : x = u \o z
    OBVIOUS
<1>4. /\ IsList(x, f + b)
      /\ \A i \in 1 .. f : x[i] = u[i]
      /\ \A i \in 1 .. b : x[f + i] = z[i]
  <2>1. IsList(z, b)
      BY <1>1, <1>2 DEF IsList, Zeros
  <2>2. Join(u \o z, u, z, f, b)
      BY <2>1, Joined
  <2> QED
      BY <1>3, <2>2 DEF Join
<1>5. f + b \in Nat /\ f + b = n - a /\ f + b + a = n
    BY <1>2
<1>6. PICK y : y = x \o v
    OBVIOUS
<1>7. /\ IsList(y, f + b + a)
      /\ \A i \in 1 .. f + b : y[i] = x[i]
      /\ \A i \in 1 .. a : y[f + b + i] = v[i]
  <2>1. Join(x \o v, x, v, f + b, a)
      BY <1>4, <1>5, Joined
  <2> QED
      BY <1>6, <2>1 DEF Join
<1>8. ASSUME NEW j \in 1 .. n
      PROVE  y[j] = w[j]
  <2>1. CASE j <= f
    <3>1. j \in 1 .. f /\ j \in 1 .. f + b
        BY <1>2, <2>1
    <3> QED
        BY <1>4, <1>7, <3>1
  <2>2. CASE ~(j <= f) /\ j <= n - a
    <3>1. j - f \in 1 .. b /\ f + (j - f) = j /\ j \in 1 .. f + b /\ j \in f + 1 .. n - a /\ b = n - f - a
        BY <1>2, <2>2
    <3>2. y[j] = x[j] /\ x[j] = z[j - f]
        BY <1>4, <1>7, <3>1
    <3>3. z[j - f] = 0
        BY <1>1, <1>2, <3>1 DEF Zeros
    <3> QED
        BY <3>1, <3>2, <3>3
  <2>3. CASE ~(j <= n - a)
    <3>1. j - (n - a) \in 1 .. a /\ f + b + (j - (n - a)) = j /\ n - a + (j - (n - a)) = j
        BY <1>2, <2>3
    <3>2. y[j] = v[j - (n - a)]
        BY <1>7, <3>1
    <3>3. w[j] = v[j - (n - a)]
        BY <3>1
    <3> QED
        BY <3>2, <3>3
  <2> QED
      BY <2>1, <2>2, <2>3
<1>9. IsList(y, n)
    BY <1>5, <1>7
<1>10. y = w
    BY <1>8, <1>9, SameList
<1> QED
    BY <1>1, <1>3, <1>6, <1>10

LEMMA DenotedForms ==
    ASSUME NEW S, NEW T \in Seq(S), NEW n \in {6, 8}, NEW d \in {":", "-"},
           NEW quads \in Denoted(T, n, d)
    PROVE  \E g, l, t : Shape(T, Len(T), n, d, g, l, t) /\ quads = AllQuads(T, Len(T), n, g, l, t)
<1>1. PICK h : h = Len(T)
    OBVIOUS
<1>2. h \in Nat /\ DOMAIN T = 1 .. h /\ T \in [1 .. h -> S]
    BY <1>1, LenProperties
<1>3. CASE h = n /\ WellFormed(T, d) /\ quads = Quads(T)
  <2>1. Shape(T, h, n, d, h + 1, 0, 0)
      BY <1>2, <1>3 DEF Shape, WellFormed, QuadItem
  <2>2. quads = AllQuads(T, h, n, h + 1, 0, 0)
    <3>1. quads = [i \in 1 .. n |-> QuadAt(T, i)]
        BY <1>2, <1>3 DEF Quads, QuadAt
    <3> QED
        BY <1>2, <1>3, <3>1 DEF AllQuads
  <2> QED
      BY <1>1, <2>1, <2>2
<1>4. CASE \E gap \in {i \in 2 .. h : T[i] = Item(<<>>, d)} :
              /\ n - Len(Before(T, gap, d)) - Len(After(T, gap)) >= 1
              /\ WellFormed(Before(T, gap, d), d) /\ WellFormed(After(T, gap), d)
              /\ quads = Quads(Before(T, gap, d))
                            \o [i \in 1 .. n - Len(Before(T, gap, d)) - Len(After(T, gap)) |-> 0]
                            \o Quads(After(T, gap))
  <2>1. PICK g \in 2 .. h :
              /\ T[g] = Item(<<>>, d)
              /\ n - Len(Before(T, g, d)) - Len(After(T, g)) >= 1
              /\ WellFormed(Before(T, g, d), d) /\ WellFormed(After(T, g), d)
              /\ quads = Quads(Before(T, g, d))
                            \o [i \in 1 .. n - Len(Before(T, g, d)) - Len(After(T, g)) |-> 0]
                            \o Quads(After(T, g))
      BY <1>4
  <2>2. PICK l \in {0, 1} : l = 1 <=> (g = 2 /\ T[1] = Item(<<>>, d))
      OBVIOUS
  <2>3. PICK t \in {0, 1} : t = 1 <=> (g = h - 1 /\ T[g + 1].word = <<>> /\ T[g + 1].then \in Ends)
      OBVIOUS
  <2>4. PICK f : f = g - 1 - l
      OBVIOUS
  <2>5. PICK a : a = h - g - t
      OBVIOUS
  <2>6. f \in Nat /\ a \in Nat /\ n \in Nat
      BY <1>2, <2>2, <2>3, <2>4, <2>5
  <2>7. PICK u : u = Before(T, g, d)
      OBVIOUS
  <2>8. PICK v : v = After(T, g)
      OBVIOUS
  <2>9. u \in Seq(S) /\ Len(u) = f /\ DOMAIN u = 1 .. f /\ \A i \in 1 .. f : u[i] = T[i]
    <3>1. CASE l = 1
      <4>1. u = <<>> /\ f = 0
          BY <2>2, <2>4, <2>7, <3>1 DEF Before
      <4> QED
          BY <4>1
    <3>2. CASE l = 0
      <4>1. u = SubSeq(T, 1, g - 1) /\ f = g - 1
          BY <2>2, <2>4, <2>7, <3>2 DEF Before
      <4>2. \A i \in 1 .. g - 1 : T[i] \in S
          BY <1>2
      <4>3. /\ u \in Seq(S) /\ Len(u) = IF 1 <= g - 1 THEN (g - 1) - 1 + 1 ELSE 0
            /\ \A i \in 1 .. (g - 1) - 1 + 1 : u[i] = T[1 + i - 1]
          BY <4>1, <4>2, SubSeqProperties
      <4>4. Len(u) = f /\ \A i \in 1 .. f : i \in 1 .. (g - 1) - 1 + 1 /\ 1 + i - 1 = i
          BY <4>1, <4>3
      <4> QED
          BY <4>3, <4>4, LenProperties
    <3> QED
        BY <3>1, <3>2
  <2>10. v \in Seq(S) /\ Len(v) = a /\ DOMAIN v = 1 .. a /\ \A i \in 1 .. a : v[i] = T[g + i]
    <3>1. CASE t = 1
      <4>1. v = <<>> /\ a = 0
          BY <1>1, <1>2, <2>3, <2>5, <2>8, <3>1 DEF After
      <4> QED
          BY <4>1
    <3>2. CASE t = 0
      <4>1. v = SubSeq(T, g + 1, h) /\ a = h - g
          BY <1>1, <1>2, <2>3, <2>5, <2>8, <3>2 DEF After
      <4>2. \A i \in g + 1 .. h : T[i] \in S
          BY <1>2
      <4>3. /\ v \in Seq(S) /\ Len(v) = IF g + 1 <= h THEN h - (g + 1) + 1 ELSE 0
            /\ \A i \in 1 .. h - (g + 1) + 1 : v[i] = T[g + 1 + i - 1]
          BY <1>2, <4>1, <4>2, SubSeqProperties
      <4>4. Len(v) = a /\ \A i \in 1 .. a : i \in 1 .. h - (g + 1) + 1 /\ g + 1 + i - 1 = g + i
          BY <1>2, <4>1, <4>3
      <4> QED
          BY <4>3, <4>4, LenProperties
    <3> QED
        BY <3>1, <3>2
  <2>11. f + a < n
      BY <2>1, <2>6, <2>7, <2>8, <2>9, <2>10
  <2>12. Shape(T, h, n, d, g, l, t)
    <3>1. \A i \in 1 .. g - 1 - l : QuadItem(T[i], d)
        BY <2>1, <2>4, <2>7, <2>9 DEF WellFormed, QuadItem
    <3>2. \A i \in g + 1 .. h - t : QuadItem(T[i], d)
      <4> SUFFICES ASSUME NEW i \in g + 1 .. h - t PROVE QuadItem(T[i], d)
          OBVIOUS
      <4>1. i - g \in 1 .. a /\ g + (i - g) = i
          BY <1>2, <2>3, <2>5
      <4>2. v[i - g] = T[i]
          BY <2>10, <4>1
      <4>3. QuadItem(v[i - g], d)
          BY <2>1, <2>8, <2>10, <4>1 DEF WellFormed, QuadItem
      <4> QED
          BY <4>2, <4>3
    <3>3. l = 1 => g = 2 /\ T[1] = Item(<<>>, d)
        BY <2>2
    <3>4. t = 1 => g = h - 1 /\ T[h].word = <<>> /\ T[h].then \in Ends
        BY <1>2, <2>3
    <3>5. (g - 1 - l) + (h - g - t) < n
        BY <2>4, <2>5, <2>11
    <3> QED
        BY <1>2, <2>1, <2>2, <2>3, <3>1, <3>2, <3>3, <3>4, <3>5 DEF Shape
  <2>13. quads = AllQuads(T, h, n, g, l, t)
    <3> DEFINE x == Quads(u)
               y == Quads(v)
    <3>1. IsList(x, f) /\ \A i \in 1 .. f : x[i] = QuadAt(T, i)
        BY <2>9 DEF Quads, QuadAt, IsList
    <3>2. IsList(y, a) /\ \A i \in 1 .. a : y[i] = QuadAt(T, g + i)
        BY <2>10 DEF Quads, QuadAt, IsList
    <3>3. n - Len(u) - Len(v) = n - f - a
        BY <2>9, <2>10
    <3>5. quads = x \o Zeros(n - f - a) \o y
        BY <2>1, <2>7, <2>8, <3>3 DEF Zeros
    <3> HIDE DEF x, y
    <3>7. PICK w : w = AllQuads(T, h, n, g, l, t)
        OBVIOUS
    <3>8. /\ IsList(w, n)
          /\ \A j \in 1 .. n : w[j] = IF j <= f THEN QuadAt(T, j) ELSE IF j <= n - a THEN 0
                                      ELSE QuadAt(T, j - n + h - t)
        BY <2>4, <2>5, <3>7 DEF AllQuads, IsList
    <3>9. \A i \in 1 .. f : w[i] = x[i]
      <4>1. \A i \in 1 .. f : i \in 1 .. n /\ i <= f
          BY <2>6, <2>11
      <4> QED
          BY <3>1, <3>8, <4>1
    <3>10. \A i \in f + 1 .. n - a : w[i] = 0
      <4>1. \A i \in f + 1 .. n - a : i \in 1 .. n /\ ~(i <= f) /\ i <= n - a
          BY <2>6, <2>11
      <4> QED
          BY <3>8, <4>1
    <3>11. \A i \in 1 .. a : w[n - a + i] = y[i]
      <4>1. \A i \in 1 .. a : /\ n - a + i \in 1 .. n /\ ~(n - a + i <= f) /\ ~(n - a + i <= n - a)
                              /\ (n - a + i) - n + h - t = g + i
          BY <1>2, <2>3, <2>5, <2>6, <2>11
      <4> QED
          BY <3>2, <3>8, <4>1
    <3>12. Spread(w, x, y, f, a, n)
        BY <3>8, <3>9, <3>10, <3>11 DEF Spread
    <3>13. x \o Zeros(n - f - a) \o y = w
        BY <2>6, <2>11, <3>1, <3>2, <3>12, ThreeJoined
    <3> QED
        BY <3>5, <3>7, <3>13
  <2> QED
      BY <1>1, <2>12, <2>13
<1>5. \/ h = n /\ WellFormed(T, d) /\ quads = Quads(T)
      \/ \E gap \in {i \in 2 .. h : T[i] = Item(<<>>, d)} :
              /\ n - Len(Before(T, gap, d)) - Len(After(T, gap)) >= 1
              /\ WellFormed(Before(T, gap, d), d) /\ WellFormed(After(T, gap), d)
              /\ quads = Quads(Before(T, gap, d))
                            \o [i \in 1 .. n - Len(Before(T, gap, d)) - Len(After(T, gap)) |-> 0]
                            \o Quads(After(T, gap))
    BY <1>1 DEF Denoted
<1> QED
    BY <1>3, <1>4, <1>5

LEMMA SameShape ==
    ASSUME NEW A, NEW T, NEW h, NEW n, NEW d, NEW g, NEW l, NEW t, Shape(A, h, n, d, g, l, t),
           \A i \in 1 .. h : A[i] = T[i]
    PROVE  /\ Shape(T, h, n, d, g, l, t)
           /\ AllQuads(A, h, n, g, l, t) = AllQuads(T, h, n, g, l, t)
<1>1. /\ d \in {":", "-"} /\ n \in {6, 8} /\ h \in Nat /\ g \in Nat /\ l \in {0, 1} /\ t \in {0, 1}
    BY DEF Shape
<1>2. CASE /\ g = h + 1 /\ h = n /\ l = 0 /\ t = 0
           /\ \A i \in 1 .. h : QuadItem(A[i], d)
  <2>1. \A i \in 1 .. h : QuadItem(T[i], d)
      BY <1>2
  <2>2. \A j \in 1 .. n : j <= g - 1 - l /\ QuadAt(A, j) = QuadAt(T, j)
      BY <1>1, <1>2 DEF QuadAt
  <2> QED
      BY <1>1, <1>2, <2>1, <2>2 DEF Shape, AllQuads
<1>3. CASE /\ g \in 2 .. h /\ A[g] = Item(<<>>, d)
           /\ l = 1 => g = 2 /\ A[1] = Item(<<>>, d)
           /\ t = 1 => g = h - 1 /\ A[h].word = <<>> /\ A[h].then \in Ends
           /\ (g - 1 - l) + (h - g - t) < n
           /\ \A i \in 1 .. g - 1 - l : QuadItem(A[i], d)
           /\ \A i \in g + 1 .. h - t : QuadItem(A[i], d)
  <2>1. /\ g \in 2 .. h /\ T[g] = Item(<<>>, d)
        /\ l = 1 => g = 2 /\ T[1] = Item(<<>>, d)
        /\ t = 1 => g = h - 1 /\ T[h].word = <<>> /\ T[h].then \in Ends
        /\ (g - 1 - l) + (h - g - t) < n
    <3>1. 1 \in 1 .. h /\ h \in 1 .. h /\ g \in 1 .. h
        BY <1>1, <1>3
    <3> QED
        BY <1>3, <3>1
  <2>2. \A i \in 1 .. g - 1 - l : QuadItem(T[i], d)
    <3>1. \A i \in 1 .. g - 1 - l : i \in 1 .. h
        BY <1>1, <1>3
    <3> QED
        BY <1>3, <3>1
  <2>3. \A i \in g + 1 .. h - t : QuadItem(T[i], d)
    <3>1. \A i \in g + 1 .. h - t : i \in 1 .. h
        BY <1>1, <1>3
    <3> QED
        BY <1>3, <3>1
  <2>4. ASSUME NEW j \in 1 .. n
        PROVE  (IF j <= g - 1 - l THEN QuadAt(A, j)
                ELSE IF j <= n - (h - g - t) THEN 0 ELSE QuadAt(A, j - n + h - t))
               = (IF j <= g - 1 - l THEN QuadAt(T, j)
                ELSE IF j <= n - (h - g - t) THEN 0 ELSE QuadAt(T, j - n + h - t))
    <3>1. CASE j <= g - 1 - l
      <4>1. j \in 1 .. h
          BY <1>1, <1>3, <3>1
      <4> QED
          BY <3>1, <4>1 DEF QuadAt
    <3>2. CASE ~(j <= g - 1 - l) /\ ~(j <= n - (h - g - t))
      <4>1. j - n + h - t \in 1 .. h
          BY <1>1, <1>3, <3>2
      <4> QED
          BY <3>2, <4>1 DEF QuadAt
    <3>3. CASE ~(j <= g - 1 - l) /\ j <= n - (h - g - t)
        BY <3>3
    <3> QED
        BY <3>1, <3>2, <3>3
  <2>5. Shape(T, h, n, d, g, l, t)
      BY <1>1, <2>1, <2>2, <2>3 DEF Shape
  <2>6. AllQuads(A, h, n, g, l, t) = AllQuads(T, h, n, g, l, t)
      BY <2>4 DEF AllQuads
  <2> QED
      BY <2>5, <2>6
<1> QED
    BY <1>2, <1>3 DEF Shape

LowQuads(low) == <<256 * low[1] + low[2], 256 * low[3] + low[4]>>

Address(T, quads, h, n, d, g, l, t) ==
    /\ Shape(T, h, n, d, g, l, t)
    /\ \/ n = 8 /\ h = Len(T) /\ quads = AllQuads(T, h, 8, g, l, t)
       \/ /\ n = 6 /\ h = Len(T) - 4 /\ d = ":" /\ t = 0
          /\ \A i \in 1 .. 3 : T[h + i].then = "."
          /\ \A i \in 1 .. 4 : DecimalItem(T[h + i])
          /\ quads = AllQuads(T, h, 6, g, l, 0) \o LowQuads(DecimalsRead(T, h, 4))

LEMMA MeaningForms ==
    ASSUME NEW S, NEW T \in Seq(S), Ended(T), NEW quads \in Meaning6(T)
    PROVE  \E h, n, d, g, l, t : Address(T, quads, h, n, d, g, l, t)
<1> DEFINE len == Len(T)
           head == SubSeq(T, 1, len - 4)
           tail == SubSeq(T, len - 3, len)
           low == Bytes(tail)
<1>1. len \in Nat /\ T \in [1 .. len -> S]
    BY LenProperties
<1>2. ASSUME NEW d \in {":", "-"}, quads \in Denoted(T, 8, d)
      PROVE  \E h, n, e, g, l, t : Address(T, quads, h, n, e, g, l, t)
  <2>1. PICK g, l, t : Shape(T, Len(T), 8, d, g, l, t) /\ quads = AllQuads(T, Len(T), 8, g, l, t)
    <3>1. 8 \in {6, 8}
        OBVIOUS
    <3> QED
        BY <1>2, <3>1, DenotedForms
  <2>2. Address(T, quads, Len(T), 8, d, g, l, t)
      BY <2>1 DEF Address
  <2> QED
      BY <2>2
<1>3. ASSUME len >= 4, WellFormedDecimals(tail),
             NEW front \in Denoted(head, 6, ":"), quads = front \o LowQuads(low)
      PROVE  \E h, n, d, g, l, t : Address(T, quads, h, n, d, g, l, t)
  <2> HIDE DEF len
  <2>1. PICK h \in Nat : h = len - 4
      BY <1>1, <1>3
  <2>2. head \in Seq(S) /\ Len(head) = h /\ \A i \in 1 .. h : head[i] = T[i]
    <3>1. \A i \in 1 .. len - 4 : T[i] \in S
        BY <1>1
    <3>2. /\ head \in Seq(S) /\ Len(head) = IF 1 <= len - 4 THEN (len - 4) - 1 + 1 ELSE 0
          /\ \A i \in 1 .. (len - 4) - 1 + 1 : head[i] = T[1 + i - 1]
        BY <1>1, <3>1, SubSeqProperties
    <3>3. /\ \A i \in 1 .. h : i \in 1 .. (len - 4) - 1 + 1 /\ 1 + i - 1 = i
          /\ h = IF 1 <= len - 4 THEN (len - 4) - 1 + 1 ELSE 0
        BY <1>1, <2>1
    <3> HIDE DEF head
    <3> QED
        BY <3>2, <3>3
  <2>3. tail \in Seq(S) /\ Len(tail) = 4 /\ \A i \in 1 .. 4 : tail[i] = T[h + i]
    <3>1. \A i \in len - 3 .. len : T[i] \in S
        BY <1>1, <1>3
    <3>2. /\ tail \in Seq(S)
          /\ Len(tail) = IF len - 3 <= len THEN len - (len - 3) + 1 ELSE 0
          /\ \A i \in 1 .. len - (len - 3) + 1 : tail[i] = T[len - 3 + i - 1]
        BY <1>1, <3>1, SubSeqProperties
    <3>3. /\ \A i \in 1 .. 4 : i \in 1 .. len - (len - 3) + 1 /\ len - 3 + i - 1 = h + i
          /\ 4 = IF len - 3 <= len THEN len - (len - 3) + 1 ELSE 0
        BY <1>1, <2>1
    <3> HIDE DEF tail
    <3> QED
        BY <3>2, <3>3
  <2> HIDE DEF head, tail
  <2>4. DOMAIN tail = 1 .. 4
      BY <2>3, LenProperties
  <2>5. low = DecimalsRead(T, h, 4)
      BY <2>3, <2>4 DEF Bytes, DecimalsRead
  <2>6. \A i \in 1 .. 3 : T[h + i].then = "."
    <3>1. \A i \in 1 .. 3 : i \in 1 .. 4
        OBVIOUS
    <3> QED
        BY <1>3, <2>3, <3>1 DEF WellFormedDecimals
  <2>7. \A i \in 1 .. 4 : DecimalItem(T[h + i])
      BY <1>3, <2>3 DEF WellFormedDecimals, DecimalItem
  <2>8. PICK g, l, t : Shape(head, h, 6, ":", g, l, t) /\ front = AllQuads(head, h, 6, g, l, t)
    <3>1. 6 \in {6, 8} /\ ":" \in {":", "-"}
        OBVIOUS
    <3>2. \E g, l, t : Shape(head, Len(head), 6, ":", g, l, t) /\ front = AllQuads(head, Len(head), 6, g, l, t)
        BY <1>3, <2>2, <3>1, DenotedForms
    <3> QED
        BY <2>2, <3>2
  <2>9. Shape(T, h, 6, ":", g, l, t) /\ front = AllQuads(T, h, 6, g, l, t)
      BY <2>2, <2>8, SameShape
  <2>10. t = 0
    <3> SUFFICES ASSUME t # 0 PROVE FALSE
        OBVIOUS
    <3>1. h >= 2 /\ T[h].then \in Ends
        BY <2>9 DEF Shape
    <3>2. h \in 1 .. len - 1
        BY <1>1, <2>1, <3>1
    <3> QED
        BY <3>1, <3>2 DEF Ended, len
  <2>11. Address(T, quads, h, 6, ":", g, l, 0)
    <3> HIDE DEF low
    <3> QED
        BY <1>3, <2>1, <2>5, <2>6, <2>7, <2>9, <2>10 DEF Address, len
  <2> QED
      BY <2>11
<1>4. \/ quads \in Denoted(T, 8, ":") \/ quads \in Denoted(T, 8, "-")
      \/ /\ len >= 4 /\ WellFormedDecimals(tail)
         /\ \E front \in Denoted(head, 6, ":") : quads = front \o LowQuads(low)
    BY DEF Meaning6, LowQuads
<1> QED
    BY <1>2, <1>3, <1>4

(***************************************************************************)
(* The parser after k items of an address.                                 *)
(***************************************************************************)
PartlyRead(q, T, h, d, g, l, k) ==
    /\ k <= h => Reading(q, T, d, g, l, k)
    /\ k > h => InDecimals(q, T, h, g, l, k - h)

LEMMA NothingRead ==
    ASSUME NEW T, NEW quads, NEW h, NEW n, NEW d, NEW g, NEW l, NEW t,
           Address(T, quads, h, n, d, g, l, t), NEW kind
    PROVE  PartlyRead(Start("ipv6", kind), T, h, d, g, l, 0)
<1>1. h \in Nat /\ g \in Nat /\ g >= 2
    BY DEF Address, Shape
<1>2. PICK q : q = Start("ipv6", kind)
    OBVIOUS
<1>3. /\ DOMAIN q = Parts /\ q.version = "ipv6" /\ q.status = "reading" /\ q.delimiter = "none"
      /\ q.start /\ ~q.need /\ ~q.deflated /\ q.quads = <<>> /\ q.decimals = <<>>
    BY <1>2 DEF Start, Parts
<1>4. QuadsRead(T, g, l, Count(g, l, 0)) = <<>>
    BY DEF QuadsRead, Count
<1>5. Reading(q, T, d, g, l, 0)
    BY <1>1, <1>3, <1>4 DEF Reading
<1> QED
    BY <1>1, <1>2, <1>5 DEF PartlyRead

\* The delimiter after an item that is not the last one.
LEMMA Delimited ==
    ASSUME NEW T, NEW h, NEW n, NEW d, NEW g, NEW l, NEW t, Shape(T, h, n, d, g, l, t),
           NEW k \in Nat, k < h, T[k + 1].then \notin Ends
    PROVE  T[k + 1].then = d
<1>1. PICK i \in 1 .. h : i = k + 1
    BY DEF Shape
<1>2. CASE QuadItem(T[i], d)
    BY <1>1, <1>2 DEF QuadItem
<1>3. CASE T[i] = Item(<<>>, d)
    BY <1>1, <1>3 DEF Item
<1>4. QuadItem(T[i], d) \/ T[i] = Item(<<>>, d)
  <2>1. CASE g = h + 1
      BY <2>1 DEF Shape
  <2>2. CASE g # h + 1
    <3>1. /\ h \in Nat /\ g \in 2 .. h /\ l \in {0, 1} /\ t \in {0, 1} /\ T[g] = Item(<<>>, d)
          /\ l = 1 => g = 2 /\ T[1] = Item(<<>>, d)
          /\ t = 1 => T[h].then \in Ends
          /\ \A j \in 1 .. g - 1 - l : QuadItem(T[j], d)
          /\ \A j \in g + 1 .. h - t : QuadItem(T[j], d)
        BY <2>2 DEF Shape
    <3>2. h \in Nat /\ g \in 2 .. h /\ l \in {0, 1} /\ t \in {0, 1} /\ (l = 1 => g = 2)
        BY <3>1
    <3>3. \/ i = g \/ i \in 1 .. g - 1 - l \/ i \in g + 1 .. h - t
          \/ (l = 1 /\ i = 1) \/ (t = 1 /\ i = h)
        BY <3>2
    <3> QED
        BY <1>1, <3>1, <3>3
  <2> QED
      BY <2>1, <2>2
<1> QED
    BY <1>2, <1>3, <1>4

LEMMA NextRead ==
    ASSUME NEW S, NEW T \in Seq(S), Ended(T),
           NEW quads, NEW h, NEW n, NEW d, NEW g, NEW l, NEW t,
           Address(T, quads, h, n, d, g, l, t),
           NEW k \in Nat, k + 1 < Len(T), NEW item, item = T[k + 1],
           NEW q, PartlyRead(q, T, h, d, g, l, k)
    PROVE  PartlyRead(Token6(q, item), T, h, d, g, l, k + 1)
<1>1. Shape(T, h, n, d, g, l, t) /\ h \in Nat
    BY DEF Address, Shape
<1>2. item.then \notin Ends
  <2>1. k + 1 \in 1 .. Len(T) - 1
      BY LenProperties
  <2> QED
      BY <2>1 DEF Ended
<1>3. CASE k < h
  <2>1. T[k + 1].then = d
      BY <1>1, <1>2, <1>3, Delimited
  <2>2. Reading(q, T, d, g, l, k)
      BY <1>1, <1>3 DEF PartlyRead
  <2>3. Reading(Token6(q, T[k + 1]), T, d, g, l, k + 1)
      BY <1>1, <1>3, <2>1, <2>2, ItemRead
  <2>4. k + 1 <= h
      BY <1>1, <1>3
  <2> QED
      BY <1>1, <2>3, <2>4 DEF PartlyRead
<1>4. CASE ~(k < h)
  <2>1. /\ h = Len(T) - 4 /\ n = 6 /\ d = ":" /\ t = 0
        /\ \A i \in 1 .. 3 : T[h + i].then = "."
        /\ \A i \in 1 .. 4 : DecimalItem(T[h + i])
    <3>1. h # Len(T)
        BY <1>1, <1>4
    <3> QED
        BY <3>1 DEF Address
  <2>2. PICK m \in 0 .. 2 : m = k - h
    <3>1. Len(T) \in Nat
        BY LenProperties
    <3> QED
        BY <1>1, <1>4, <2>1, <3>1
  <2>3. h + (m + 1) = k + 1 /\ h + m + 1 = k + 1 /\ m + 1 \in 1 .. 3 /\ m + 1 \in 1 .. 4
      BY <1>1, <2>2
  <2>4. DecimalItem(item) /\ item.then = "." /\ item = T[h + m + 1]
    <3>1. DecimalItem(T[h + (m + 1)]) /\ T[h + (m + 1)].then = "."
        BY <2>1, <2>3
    <3> QED
        BY <2>3, <3>1
  <2>5. InDecimals(q, T, h, g, l, m)
    <3>1. CASE m = 0
      <4>1. Reading(q, T, ":", g, l, h)
        <5>1. k = h
            BY <1>1, <2>2, <3>1
        <5> QED
            BY <1>1, <2>1, <5>1 DEF PartlyRead
      <4>2. Shape(T, h, 6, ":", g, l, t)
          BY <1>1, <2>1
      <4> QED
          BY <3>1, <4>1, <4>2, DecimalsBegin
    <3>2. CASE m # 0
      <4>1. k > h /\ k - h = m
          BY <1>1, <2>2, <3>2
      <4> QED
          BY <4>1 DEF PartlyRead
    <3> QED
        BY <3>1, <3>2
  <2>6. InDecimals(Token6(q, item), T, h, g, l, m + 1)
      BY <1>1, <2>4, <2>5, DecimalRead
  <2>7. k + 1 > h /\ ~(k + 1 <= h) /\ (k + 1) - h = m + 1
      BY <1>1, <2>2
  <2> QED
      BY <2>6, <2>7 DEF PartlyRead
<1> QED
    BY <1>3, <1>4

LEMMA AllRead ==
    ASSUME NEW S, NEW T \in Seq(S), Ended(T),
           NEW quads, NEW h, NEW n, NEW d, NEW g, NEW l, NEW t,
           Address(T, quads, h, n, d, g, l, t),
           NEW k \in Nat, k + 1 = Len(T), NEW item, item = T[k + 1],
           NEW q, PartlyRead(q, T, h, d, g, l, k), q.kind = "host" \/ item.then = "/"
    PROVE  /\ Token6(q, item).status \in {"done", "slash"}
           /\ Numbers6(Token6(q, item)) = quads
<1>1. Shape(T, h, n, d, g, l, t) /\ h \in Nat
    BY DEF Address, Shape
<1>2. item.then \in Ends
    BY DEF Ended
<1>3. PICK r : r = Token6(q, item)
    OBVIOUS
<1>4. CASE n = 8 /\ h = Len(T) /\ quads = AllQuads(T, h, 8, g, l, t)
  <2>1. h - 1 = k /\ h = k + 1
      BY <1>1, <1>4
  <2>2. Reading(q, T, d, g, l, h - 1)
      BY <2>1 DEF PartlyRead
  <2>3. Shape(T, h, 8, d, g, l, t)
      BY <1>1, <1>4
  <2>4. /\ Token6(q, T[h]).status \in {"done", "slash"}
        /\ Token6(q, T[h]).quads = AllQuads(T, h, 8, g, l, t)
        /\ Token6(q, T[h]).decimals = <<>>
      BY <1>2, <2>1, <2>2, <2>3, LastRead
  <2> QED
      BY <1>4, <2>1, <2>4 DEF Numbers6
<1>5. CASE /\ n = 6 /\ h = Len(T) - 4 /\ d = ":" /\ t = 0
           /\ \A i \in 1 .. 4 : DecimalItem(T[h + i])
           /\ quads = AllQuads(T, h, 6, g, l, 0) \o LowQuads(DecimalsRead(T, h, 4))
  <2>1. k = h + 3 /\ k + 1 = h + 4 /\ k > h /\ k - h = 3 /\ 4 \in 1 .. 4
    <3>1. Len(T) \in Nat
        BY LenProperties
    <3> QED
        BY <1>1, <1>5, <3>1
  <2>2. InDecimals(q, T, h, g, l, 3)
      BY <2>1 DEF PartlyRead
  <2>3. Shape(T, h, 6, ":", g, l, 0)
      BY <1>1, <1>5
  <2>4. DecimalItem(item) /\ item = T[h + 4]
      BY <1>5, <2>1
  <2>5. /\ r.status \in {"done", "slash"}
        /\ r.quads = AllQuads(T, h, 6, g, l, 0)
        /\ r.decimals = DecimalsRead(T, h, 4)
      BY <1>2, <1>3, <2>2, <2>3, <2>4, LastDecimalRead
  <2>6. r.decimals # <<>>
    <3>1. Len(DecimalsRead(T, h, 4)) = 4
        BY DEF DecimalsRead
    <3>2. Len(<<>>) = 0 /\ 4 # 0
        OBVIOUS
    <3>3. DecimalsRead(T, h, 4) # <<>>
        BY <3>1, <3>2, Zenon
    <3> QED
        BY <2>5, <3>3
  <2>7. Numbers6(r) = r.quads \o LowQuads(r.decimals)
      BY <2>6 DEF Numbers6, LowQuads
  <2> QED
      BY <1>3, <1>5, <2>5, <2>7
<1> QED
    BY <1>4, <1>5 DEF Address

\* Reading leaves alone what the object is.
Kept(q, r) == DOMAIN r = Parts /\ r.version = q.version /\ r.kind = q.kind

LEMMA FinishedKeeps ==
    ASSUME NEW q, DOMAIN q = Parts, NEW then
    PROVE  Kept(q, Finished(q, then))
<1>1. PICK r : r = [q EXCEPT !.quads = IF q.deflated THEN Inflated(q) ELSE @]
    OBVIOUS
<1>2. Kept(q, r)
    BY <1>1 DEF Kept, Parts
<1>3. Kept(q, Undefined(q)) /\ Kept(q, Failed(q))
    BY DEF Kept, Undefined, Failed, Parts
<1>4. Kept(q, Complete(r, then))
    BY <1>2 DEF Kept, Complete, Failed, Parts
<1> QED
    BY <1>1, <1>3, <1>4 DEF Finished

LEMMA ReadKeeps ==
    ASSUME NEW q, DOMAIN q = Parts, NEW item
    PROVE  Kept(q, Read(q, item))
<1>1. Kept(q, Failed(q))
    BY DEF Kept, Failed, Parts
<1>2. \A c : Kept(q, Compression(q, c))
    BY DEF Kept, Compression, Failed, Parts
<1>3. \A word : Kept(q, Decimal(q, word))
    BY DEF Kept, Decimal, Failed, Undefined, Parts
<1>4. \A word : Kept(q, Quad(q, word))
    BY DEF Kept, Quad, Failed, Parts
<1>5. \A c, word : Kept(q, Quad([q EXCEPT !.delimiter = c], word))
  <2> TAKE c, word
  <2>1. PICK r : r = [q EXCEPT !.delimiter = c]
      OBVIOUS
  <2>2. Kept(q, r)
      BY <2>1 DEF Kept, Parts
  <2>3. Kept(q, Quad(r, word))
      BY <2>2 DEF Kept, Quad, Failed, Parts
  <2> QED
      BY <2>1, <2>3
<1>6. \A then : Kept(q, Finished(q, then))
    BY FinishedKeeps
<1>7. \A r, then : Kept(q, r) => Kept(q, Finished(r, then))
    BY FinishedKeeps DEF Kept
<1>8. Kept(q, Token6(q, item))
    BY <1>1, <1>2, <1>3, <1>4, <1>5, <1>6, <1>7 DEF Token6
<1>9. Kept(q, MaskRead(q, item.word))
    BY DEF Kept, MaskRead, Failed, Parts
<1>10. Kept(q, Token4(q, item))
  <2>1. \A x, then : LET r == [q EXCEPT !.decimals = x] IN Kept(q, r) /\ Kept(q, Complete(r, then))
    <3> TAKE x, then
    <3>1. PICK r : r = [q EXCEPT !.decimals = x]
        OBVIOUS
    <3>2. Kept(q, r)
        BY <3>1 DEF Kept, Parts
    <3>3. Kept(q, Complete(r, then))
        BY <3>2 DEF Kept, Complete, Failed, Parts
    <3> QED
        BY <3>1, <3>2, <3>3
  <2> QED
      BY <1>1, <2>1 DEF Token4
<1> QED
    BY <1>8, <1>9, <1>10 DEF Read

(***************************************************************************)
(* The items read so far, against every address they may be the beginning  *)
(* of.                                                                     *)
(***************************************************************************)
TextItems == [word : Seq(0 .. 15), then : Terminators]

LeadsTo(text, T) == Len(text) <= Len(T) /\ \A i \in 1 .. Len(text) : T[i] = text[i]

ReadSoFar(q, text) ==
    \A T \in Seq(TextItems) : Ended(T) /\ LeadsTo(text, T) =>
        \A quads, h, n, d, g, l, t : Address(T, quads, h, n, d, g, l, t) =>
            /\ Len(text) < Len(T) => PartlyRead(q, T, h, d, g, l, Len(text))
            /\ Len(text) = Len(T) /\ (q.kind = "host" \/ T[Len(T)].then = "/")
                  => q.status \in {"done", "slash"} /\ Numbers6(q) = quads

ParserInv ==
    /\ input \in Seq(TextItems) /\ held \in Seq(0 .. 15)
    /\ DOMAIN p = Parts /\ p.version \in {"ipv4", "ipv6"} /\ p.kind \in {"host", "network"}
    /\ p.version = "ipv6" => ReadSoFar(p, input)

LEMMA ItemsHaveWords ==
    ASSUME NEW q, NEW item \in Items(q)
    PROVE  item.word \in Seq(0 .. 15) /\ item.then \in Terminators \cup {"space"}
<1>1. CASE q.status = "slash"
  <2>1. PICK word \in Masks : item = Item(word, "end")
      BY <1>1 DEF Items
  <2> QED
      BY <2>1, ItemsAssumption DEF Item, Terminators
<1>2. CASE q.status # "slash"
  <2>1. item \in Items6 \cup Items4
      BY <1>2 DEF Items
  <2>2. item \in [word : Seq(0 .. 15), then : Terminators \cup {"space"}]
      BY <2>1, ItemsAssumption
  <2> QED
      BY <2>2
<1> QED
    BY <1>1, <1>2

LEMMA WholeIsText ==
    ASSUME held \in Seq(0 .. 15), NEW q, NEW item \in Items(q)
    PROVE  Whole(item) \in TextItems /\ held \o item.word \in Seq(0 .. 15)
<1>1. item.word \in Seq(0 .. 15) /\ item.then \in Terminators \cup {"space"}
    BY ItemsHaveWords
<1>2. held \o item.word \in Seq(0 .. 15)
    BY <1>1, ConcatProperties
<1>3. (IF item.then = "space" THEN "end" ELSE item.then) \in Terminators
    BY <1>1 DEF Terminators
<1> QED
    BY <1>2, <1>3 DEF Whole, Item, TextItems

LEMMA PartlyReadReads ==
    ASSUME NEW q, NEW T, NEW h, NEW n, NEW d, NEW g, NEW l, NEW t, NEW quads,
           Address(T, quads, h, n, d, g, l, t), NEW k \in Nat, PartlyRead(q, T, h, d, g, l, k)
    PROVE  q.status = "reading" /\ q.version = "ipv6"
<1>1. h \in Nat
    BY DEF Address, Shape
<1> QED
    BY <1>1 DEF PartlyRead, Reading, InDecimals

LEMMA StartInv ==
    ASSUME NEW version \in {"ipv4", "ipv6"}, NEW kind \in {"host", "network"},
           NEW q, q = Start(version, kind), NEW text, text = <<>>
    PROVE  /\ DOMAIN q = Parts /\ q.version \in {"ipv4", "ipv6"} /\ q.kind \in {"host", "network"}
           /\ q.version = "ipv6" => ReadSoFar(q, text)
<1>1. DOMAIN q = Parts /\ q.version = version /\ q.kind = kind
    BY DEF Start, Parts
<1>2. Len(text) = 0
    OBVIOUS
<1>3. ASSUME q.version = "ipv6" PROVE ReadSoFar(q, text)
  <2> SUFFICES ASSUME NEW T \in Seq(TextItems), Ended(T),
                      NEW quads, NEW h, NEW n, NEW d, NEW g, NEW l, NEW t,
                      Address(T, quads, h, n, d, g, l, t)
               PROVE  /\ Len(text) < Len(T) => PartlyRead(q, T, h, d, g, l, Len(text))
                      /\ Len(text) # Len(T)
      BY DEF ReadSoFar
  <2>1. Len(T) # 0
      BY LenProperties, EmptySeq DEF Ended
  <2>2. q = Start("ipv6", kind)
      BY <1>1, <1>3
  <2>3. PartlyRead(q, T, h, d, g, l, 0)
      BY <2>2, NothingRead
  <2> QED
      BY <1>2, <2>1, <2>3
<1> QED
    BY <1>1, <1>3

LEMMA TakeInv ==
    ASSUME ParserInv, NEW taken \in Items(p), Take(taken)
    PROVE  ParserInv'
<1> USE DEF ParserInv
<1>0. PICK item : item = Whole(taken)
    OBVIOUS
<1>1. /\ item \in TextItems
      /\ p.status \in {"reading", "slash"} /\ p' = Read(p, item) /\ input' = Append(input, item)
      /\ held' \in Seq(0 .. 15)
    BY <1>0, WholeIsText, EmptySeq DEF Take
<1>2. /\ input' \in Seq(TextItems) /\ Len(input') = Len(input) + 1
      /\ Len(input) \in Nat
      /\ \A i \in 1 .. Len(input) : input'[i] = input[i]
      /\ input'[Len(input) + 1] = item
    BY <1>1, AppendProperties, LenProperties
<1>3. Kept(p, p')
    BY <1>1, ReadKeeps
<1>4. DOMAIN p' = Parts /\ p'.version = p.version /\ p'.kind = p.kind
    BY <1>3 DEF Kept
<1>5. ASSUME p'.version = "ipv6" PROVE ReadSoFar(p, input)'
  <2> SUFFICES ASSUME NEW T \in Seq(TextItems), Ended(T), LeadsTo(input', T),
                      NEW quads, NEW h, NEW n, NEW d, NEW g, NEW l, NEW t,
                      Address(T, quads, h, n, d, g, l, t)
               PROVE  /\ Len(input') < Len(T) => PartlyRead(p', T, h, d, g, l, Len(input'))
                      /\ Len(input') = Len(T) /\ (p'.kind = "host" \/ T[Len(T)].then = "/")
                            => p'.status \in {"done", "slash"} /\ Numbers6(p') = quads
      BY DEF ReadSoFar
  <2>1. PICK k \in Nat : k = Len(input)
      BY <1>2
  <2>2. /\ LeadsTo(input, T) /\ k < Len(T) /\ T[k + 1] = item
        /\ Len(input') = k + 1
    <3>1. Len(T) \in Nat
        BY LenProperties
    <3>2. Len(input') <= Len(T) /\ \A i \in 1 .. k + 1 : T[i] = input'[i]
        BY <1>2, <2>1 DEF LeadsTo
    <3>3. k < Len(T) /\ k <= Len(T)
        BY <1>2, <2>1, <3>1, <3>2
    <3>4. \A i \in 1 .. k : i \in 1 .. k + 1
        OBVIOUS
    <3>5. k + 1 \in 1 .. k + 1
        OBVIOUS
    <3> QED
        BY <1>2, <2>1, <3>2, <3>3, <3>4, <3>5 DEF LeadsTo
  <2>3. PartlyRead(p, T, h, d, g, l, k)
      BY <1>4, <1>5, <2>1, <2>2 DEF ReadSoFar
  <2>4. p' = Token6(p, item)
    <3>1. p.status = "reading" /\ p.version = "ipv6"
        BY <2>3, PartlyReadReads
    <3> QED
        BY <1>1, <3>1 DEF Read
  <2>5. ASSUME Len(input') < Len(T) PROVE PartlyRead(p', T, h, d, g, l, Len(input'))
    <3>1. k + 1 < Len(T)
        BY <2>2, <2>5
    <3>2. PartlyRead(Token6(p, item), T, h, d, g, l, k + 1)
        BY <2>2, <2>3, <3>1, NextRead
    <3> QED
        BY <2>2, <2>4, <3>2
  <2>6. ASSUME Len(input') = Len(T), p'.kind = "host" \/ T[Len(T)].then = "/"
        PROVE  p'.status \in {"done", "slash"} /\ Numbers6(p') = quads
    <3>1. k + 1 = Len(T) /\ (p.kind = "host" \/ item.then = "/")
        BY <1>4, <2>2, <2>6
    <3>2. /\ Token6(p, item).status \in {"done", "slash"}
          /\ Numbers6(Token6(p, item)) = quads
        BY <2>2, <2>3, <3>1, AllRead
    <3> QED
        BY <2>4, <3>2
  <2> QED
      BY <2>5, <2>6
<1> QED
    BY <1>1, <1>2, <1>4, <1>5

LEMMA ParserInvHolds == TextSpec => []ParserInv
<1>1. TextInit => ParserInv
  <2> SUFFICES ASSUME TextInit PROVE ParserInv
      OBVIOUS
  <2>1. PICK version \in {"ipv4", "ipv6"}, kind \in {"host", "network"} : p = Start(version, kind)
      BY DEF TextInit
  <2>2. input = <<>> /\ held = <<>>
      BY DEF TextInit
  <2> QED
      BY <2>1, <2>2, StartInv, EmptySeq DEF ParserInv
<1>2. ParserInv /\ [TextNext]_textVars => ParserInv'
  <2> SUFFICES ASSUME ParserInv, [TextNext]_textVars PROVE ParserInv'
      OBVIOUS
  <2>1. ASSUME NEW item \in Items(p), Take(item) PROVE ParserInv'
      BY <2>1, TakeInv
  <2>5. ASSUME NEW item \in Items(p), SkipSpace(item) PROVE ParserInv'
    <3>1. held' \in Seq(0 .. 15) /\ UNCHANGED <<input, p>>
        BY <2>5, WholeIsText DEF SkipSpace, ParserInv
    <3> QED
        BY <3>1 DEF ParserInv, ReadSoFar
  <2>2. ASSUME NEW style \in Styles, Write(style) PROVE ParserInv'
      BY <2>2 DEF Write, ParserInv, ReadSoFar
  <2>3. ASSUME NEW version \in {"ipv4", "ipv6"}, NEW kind \in {"host", "network"}, Again(version, kind)
        PROVE  ParserInv'
    <3>1. p' = Start(version, kind) /\ input' = <<>> /\ held' = held
        BY <2>3 DEF Again
    <3>2. /\ DOMAIN p' = Parts /\ p'.version \in {"ipv4", "ipv6"} /\ p'.kind \in {"host", "network"}
          /\ p'.version = "ipv6" => ReadSoFar(p', input')
        BY <3>1, StartInv
    <3> QED
        BY <3>1, <3>2 DEF ParserInv, ReadSoFar
  <2>4. CASE UNCHANGED textVars
      BY <2>4 DEF textVars, ParserInv, ReadSoFar
  <2> QED
      BY <2>1, <2>2, <2>3, <2>4, <2>5 DEF TextNext
<1> QED
    BY <1>1, <1>2, PTL DEF TextSpec

LEMMA EndingsEnd ==
    ASSUME NEW rest \in Endings
    PROVE  /\ rest \in Seq(TextItems) /\ rest # <<>> /\ Ended(rest)
<1>1. \A d \in {":", "-", "."}, then \in {":", "-", ".", "end"} :
         Item(<<1>>, then) \in TextItems /\ Item(<<>>, then) \in TextItems
    BY DEF TextItems, Item, Terminators
<1>2. ASSUME NEW n \in 1 .. 8, NEW d \in {":", "-", "."}, rest = OnesBetween(n, d)
      PROVE  rest \in Seq(TextItems) /\ rest # <<>> /\ Ended(rest)
  <2>1. /\ rest = [i \in 1 .. n |-> rest[i]]
        /\ \A i \in 1 .. n : rest[i] = Item(<<1>>, IF i = n THEN "end" ELSE d)
      BY <1>2 DEF OnesBetween
  <2>2. \A i \in 1 .. n : rest[i] \in TextItems
      BY <1>1, <2>1
  <2>3. rest \in Seq(TextItems) /\ Len(rest) = n
    <3>1. rest \in [1 .. n -> TextItems]
        BY <2>1, <2>2
    <3> QED
        BY <3>1
  <2>4. \A i \in 1 .. n : rest[i].then = IF i = n THEN "end" ELSE d
      BY <2>1 DEF Item
  <2>5. rest # <<>>
      BY <2>3
  <2> QED
      BY <2>3, <2>4, <2>5 DEF Ended, Ends
<1>3. ASSUME NEW d \in {":", "-"}, rest = <<Item(<<>>, d)>> \o OnesBetween(1, d)
      PROVE  rest \in Seq(TextItems) /\ rest # <<>> /\ Ended(rest)
  <2>1. OnesBetween(1, d) = <<Item(<<1>>, "end")>>
      BY DEF OnesBetween
  <2>2. PICK x \in TextItems : x = Item(<<>>, d)
      BY <1>1
  <2>3. PICK y \in TextItems : y = Item(<<1>>, "end")
      BY <1>1
  <2>4. /\ <<x>> \in Seq(TextItems) /\ <<y>> \in Seq(TextItems)
        /\ Len(<<x>>) = 1 /\ Len(<<y>>) = 1 /\ <<x>>[1] = x /\ <<y>>[1] = y
      OBVIOUS
  <2>5. rest = <<x>> \o <<y>>
      BY <1>3, <2>1, <2>2, <2>3
  <2>6. /\ rest \in Seq(TextItems) /\ Len(rest) = Len(<<x>>) + Len(<<y>>)
        /\ \A i \in 1 .. Len(<<x>>) + Len(<<y>>) :
              rest[i] = IF i <= Len(<<x>>) THEN <<x>>[i] ELSE <<y>>[i - Len(<<x>>)]
      BY <2>4, <2>5, ConcatProperties
  <2>7. Len(rest) = 2 /\ rest[1] = x /\ rest[2] = y
      BY <2>4, <2>6
  <2>8. x.then = d /\ y.then = "end"
      BY <2>2, <2>3 DEF Item
  <2>9. rest # <<>>
    <3>1. Len(<<>>) = 0 /\ 2 # 0
        OBVIOUS
    <3> QED
        BY <2>7, <3>1, Zenon
  <2>10. \A i \in 1 .. 2 - 1 : i = 1
      OBVIOUS
  <2> QED
      BY <2>6, <2>7, <2>8, <2>9, <2>10 DEF Ended, Ends
<1>4. ASSUME rest = <<Item(<<>>, "end")>>
      PROVE  rest \in Seq(TextItems) /\ rest # <<>> /\ Ended(rest)
    BY <1>1, <1>4 DEF Ended, Ends, Item
<1> QED
    BY <1>2, <1>3, <1>4 DEF Endings

\* What an ending makes of the text.
LEMMA EndingAdded ==
    ASSUME NEW text \in Seq(TextItems), \A i \in DOMAIN text : text[i].then \notin Ends,
           NEW rest \in Endings, NEW T, T = text \o rest
    PROVE  T \in Seq(TextItems) /\ Ended(T) /\ LeadsTo(text, T) /\ Len(text) < Len(T)
<1>1. PICK a : a = Len(text)
    OBVIOUS
<1>2. PICK b : b = Len(rest)
    OBVIOUS
<1>3. /\ a \in Nat /\ b \in Nat /\ b # 0
      /\ rest \in Seq(TextItems) /\ Ended(rest) /\ DOMAIN text = 1 .. a
    BY <1>1, <1>2, EndingsEnd, LenProperties, EmptySeq
<1>4. /\ T \in Seq(TextItems) /\ Len(T) = a + b
      /\ \A i \in 1 .. a + b : T[i] = IF i <= a THEN text[i] ELSE rest[i - a]
    BY <1>1, <1>2, <1>3, ConcatProperties
<1>5. \A i \in 1 .. a : T[i] = text[i]
    BY <1>3, <1>4
<1>6. ASSUME NEW i \in 1 .. a + b - 1 PROVE T[i].then \notin Ends
  <2>1. CASE i <= a
    <3>1. i \in 1 .. a
        BY <1>3, <2>1
    <3> QED
        BY <1>3, <1>5, <3>1
  <2>2. CASE ~(i <= a)
    <3>1. i \in 1 .. a + b /\ i - a \in 1 .. b - 1
        BY <1>3, <2>2
    <3>2. T[i] = rest[i - a]
        BY <1>4, <2>2, <3>1
    <3> QED
        BY <1>2, <1>3, <3>1, <3>2 DEF Ended
  <2> QED
      BY <2>1, <2>2
<1>7. T[a + b].then \in Ends
  <2>1. a + b \in 1 .. a + b /\ ~(a + b <= a) /\ (a + b) - a = b
      BY <1>3
  <2>2. T[a + b] = rest[b]
      BY <1>4, <2>1
  <2> QED
      BY <1>2, <1>3, <2>2 DEF Ended
<1>8. T # <<>> /\ a <= a + b /\ a < a + b
    BY <1>3, <1>4, EmptySeq
<1>9. Ended(T)
  <2>1. PICK m : m = Len(T)
      OBVIOUS
  <2>2. m = a + b
      BY <1>4, <2>1
  <2>3. T[m].then \in Ends
      BY <1>7, <2>2, Zenon
  <2>4. ASSUME NEW i \in 1 .. m - 1 PROVE T[i].then \notin Ends
    <3>1. i \in 1 .. a + b - 1
        BY <1>3, <2>2
    <3> QED
        BY <1>6, <3>1, Zenon
  <2> QED
      BY <1>8, <2>1, <2>3, <2>4, Zenon DEF Ended
<1>10. LeadsTo(text, T) /\ Len(text) < Len(T)
    BY <1>1, <1>4, <1>5, <1>8 DEF LeadsTo
<1> QED
    BY <1>4, <1>9, <1>10

\* Whatever the items of the texts are and wherever white space stands before the
\* slash, the parser of IPv6 addresses reads every text that is in the notation
\* without its white space as the address this denotes, and never gives up a text
\* that may still become one (parser::parse, fetch, the handlers and inflate).
THEOREM NotationIsRead == TextSpec => []ReadsTheNotation
<1>1. ParserInv => ReadsTheNotation
  <2> SUFFICES ASSUME ParserInv, p.version = "ipv6" PROVE ReadsTheNotation
      BY DEF ReadsTheNotation
  <2>1. input \in Seq(TextItems) /\ ReadSoFar(p, input) /\ p.kind \in {"host", "network"}
      BY DEF ParserInv
  <2>2. ASSUME p.status # "reading", Begins(input) PROVE FALSE
    <3>1. PICK rest \in Endings : Meaning6(input \o rest) # {}
        BY <2>2 DEF Begins
    <3>2. PICK T : T = input \o rest
        OBVIOUS
    <3>3. T \in Seq(TextItems) /\ Ended(T) /\ LeadsTo(input, T) /\ Len(input) < Len(T)
        BY <2>1, <2>2, <3>2, EndingAdded DEF Begins
    <3>4. PICK quads \in Meaning6(T) : TRUE
        BY <3>1, <3>2
    <3>5. PICK h, n, d, g, l, t : Address(T, quads, h, n, d, g, l, t)
        BY <3>3, MeaningForms
    <3>6. PartlyRead(p, T, h, d, g, l, Len(input))
        BY <2>1, <3>3, <3>5 DEF ReadSoFar
    <3>7. Len(input) \in Nat
        BY <2>1, LenProperties
    <3> QED
        BY <2>2, <3>5, <3>6, <3>7, PartlyReadReads
  <2>3. ASSUME Ended(input), p.kind = "network" => input[Len(input)].then = "/",
               NEW quads \in Meaning6(input)
        PROVE  p.status \in {"done", "slash"} /\ Numbers6(p) = quads
    <3>1. PICK h, n, d, g, l, t : Address(input, quads, h, n, d, g, l, t)
        BY <2>1, <2>3, MeaningForms
    <3>2. LeadsTo(input, input)
        BY <2>1, LenProperties DEF LeadsTo
    <3>3. p.kind = "host" \/ input[Len(input)].then = "/"
        BY <2>1, <2>3
    <3> QED
        BY <2>1, <2>3, <3>1, <3>2, <3>3 DEF ReadSoFar
  <2> QED
      BY <2>2, <2>3 DEF ReadsTheNotation
<1> QED
    BY <1>1, ParserInvHolds, PTL
-----------------------------------------------------------------------------
(***************************************************************************)
(* IpText: what is written is read back.                                   *)
(*                                                                         *)
(* The folds over words and texts, an item at a time: a fold takes the     *)
(* greatest index of a set last.                                           *)
(***************************************************************************)
LEMMA GreatestIndex ==
    ASSUME NEW m \in Nat
    PROVE  /\ \A s \in SUBSET (1 .. m + 1) : m + 1 \in s => Max(s) = m + 1
           /\ (1 .. m + 1) \ {m + 1} = 1 .. m
<1>1. ASSUME NEW s \in SUBSET (1 .. m + 1), m + 1 \in s PROVE Max(s) = m + 1
  <2>1. \A y \in s : m + 1 >= y
      OBVIOUS
  <2>2. \A x \in s : (\A y \in s : x >= y) => x = m + 1
      BY <1>1
  <2> QED
      BY <1>1, <2>1, <2>2 DEF Max
<1> QED
    BY <1>1

\* The fold of Value, on the sets of the first m digits.
Horner(f, word, base, m) ==
    f = [s \in SUBSET (1 .. m) |->
            IF s = {} THEN 0 ELSE base * f[s \ {Max(s)}] + word[Max(s)]]

LEMMA HornerExists ==
    ASSUME NEW word, NEW base
    PROVE  \A m \in Nat : \E f : Horner(f, word, base, m)
<1> DEFINE T == {m \in Nat : \E f : Horner(f, word, base, m)}
<1>1. 0 \in T
  <2>1. PICK f : f = [s \in SUBSET (1 .. 0) |-> 0]
      OBVIOUS
  <2>2. SUBSET (1 .. 0) = {{}}
      OBVIOUS
  <2>3. Horner(f, word, base, 0)
      BY <2>1, <2>2 DEF Horner
  <2> QED
      BY <2>3
<1>2. ASSUME NEW m \in Nat, m \in T PROVE m + 1 \in T
  <2>1. PICK g : Horner(g, word, base, m)
      BY <1>2
  <2> DEFINE Last1(s) == base * g[s \ {m + 1}] + word[m + 1]
  <2>2. PICK f : f = [s \in SUBSET (1 .. m + 1) |-> IF m + 1 \in s THEN Last1(s) ELSE g[s]]
      OBVIOUS
  <2>3. ASSUME NEW s \in SUBSET (1 .. m + 1)
        PROVE  f[s] = IF s = {} THEN 0 ELSE base * f[s \ {Max(s)}] + word[Max(s)]
    <3>1. CASE m + 1 \in s
      <4>1. Max(s) = m + 1 /\ s # {}
          BY <3>1, GreatestIndex
      <4>2. f[s \ {m + 1}] = g[s \ {m + 1}] /\ f[s] = Last1(s)
          BY <2>2, <3>1
      <4> QED
          BY <4>1, <4>2
    <3>2. CASE m + 1 \notin s
      <4>1. s \in SUBSET (1 .. m) /\ s \ {Max(s)} \in SUBSET (1 .. m + 1)
        <5>1. \A x \in s : x \in 1 .. m + 1 /\ x # m + 1
            BY <3>2
        <5>2. \A x \in 1 .. m + 1 : x # m + 1 => x \in 1 .. m
            OBVIOUS
        <5> QED
            BY <5>1, <5>2, Zenon
      <4>2. f[s] = g[s] /\ f[s \ {Max(s)}] = g[s \ {Max(s)}]
          BY <2>2, <3>2, <4>1
      <4>3. g[s] = IF s = {} THEN 0 ELSE base * g[s \ {Max(s)}] + word[Max(s)]
          BY <2>1, <4>1 DEF Horner
      <4> QED
          BY <4>2, <4>3
    <3> QED
        BY <3>1, <3>2
  <2>4. Horner(f, word, base, m + 1)
      BY <2>2, <2>3 DEF Horner
  <2> QED
      BY <2>4
<1> HIDE DEF T
<1>3. \A m \in Nat : m \in T
    BY <1>1, <1>2, AllNumbers
<1> QED
    BY <1>3 DEF T

\* The value of a word, from digit to digit.
LEMMA ValueByDigits ==
    ASSUME NEW word, NEW n \in Nat, DOMAIN word = 1 .. n, NEW base
    PROVE  \E v : /\ v[0] = 0 /\ v[n] = Value(word, base)
                  /\ \A i \in 0 .. n - 1 : v[i + 1] = base * v[i] + word[i + 1]
<1>1. PICK f : f = CHOOSE g : Horner(g, word, base, n)
    OBVIOUS
<1>2. Horner(f, word, base, n)
    BY <1>1, HornerExists
<1>3. Value(word, base) = f[1 .. n]
    BY <1>1 DEF Value, FoldLeft, MapThenFoldSet, Horner
<1>4. PICK v : v = [i \in 0 .. n |-> f[1 .. i]]
    OBVIOUS
<1>5. v[0] = 0
  <2>1. 1 .. 0 = {} /\ {} \in SUBSET (1 .. n)
      OBVIOUS
  <2> QED
      BY <1>2, <1>4, <2>1 DEF Horner
<1>6. ASSUME NEW i \in 0 .. n - 1 PROVE v[i + 1] = base * v[i] + word[i + 1]
  <2>1. /\ 1 .. i + 1 \in SUBSET (1 .. n) /\ 1 .. i + 1 # {} /\ i \in Nat
        /\ i \in 0 .. n /\ i + 1 \in 0 .. n
      OBVIOUS
  <2>2. Max(1 .. i + 1) = i + 1 /\ (1 .. i + 1) \ {i + 1} = 1 .. i
    <3>1. 1 .. i + 1 \in SUBSET (1 .. i + 1) /\ i + 1 \in 1 .. i + 1
        BY <2>1
    <3> QED
        BY <2>1, <3>1, GreatestIndex, Zenon
  <2>3. f[1 .. i + 1] = base * f[(1 .. i + 1) \ {i + 1}] + word[i + 1]
      BY <1>2, <2>1, <2>2 DEF Horner
  <2> QED
      BY <1>4, <2>1, <2>2, <2>3
<1>7. n \in 0 .. n
    OBVIOUS
<1> QED
    BY <1>3, <1>4, <1>5, <1>6, <1>7

\* One item, unless the parser has stopped.
ReadOne(r, item) == IF r.status \in {"reading", "slash"} THEN Read(r, item) ELSE r

Folded(f, q, text, m) ==
    f = [s \in SUBSET (1 .. m) |->
            IF s = {} THEN q ELSE ReadOne(f[s \ {Max(s)}], text[Max(s)])]

LEMMA FoldedExists ==
    ASSUME NEW q, NEW text
    PROVE  \A m \in Nat : \E f : Folded(f, q, text, m)
<1> DEFINE T == {m \in Nat : \E f : Folded(f, q, text, m)}
<1>1. 0 \in T
  <2>1. PICK f : f = [s \in SUBSET (1 .. 0) |-> q]
      OBVIOUS
  <2>2. SUBSET (1 .. 0) = {{}}
      OBVIOUS
  <2>3. Folded(f, q, text, 0)
      BY <2>1, <2>2 DEF Folded
  <2> QED
      BY <2>3
<1>2. ASSUME NEW m \in Nat, m \in T PROVE m + 1 \in T
  <2>1. PICK g : Folded(g, q, text, m)
      BY <1>2
  <2>2. PICK f : f = [s \in SUBSET (1 .. m + 1) |->
                        IF m + 1 \in s THEN ReadOne(g[s \ {m + 1}], text[m + 1]) ELSE g[s]]
      OBVIOUS
  <2>3. ASSUME NEW s \in SUBSET (1 .. m + 1)
        PROVE  f[s] = IF s = {} THEN q ELSE ReadOne(f[s \ {Max(s)}], text[Max(s)])
    <3>1. CASE m + 1 \in s
      <4>1. Max(s) = m + 1 /\ s # {}
          BY <3>1, GreatestIndex
      <4>2. /\ f[s \ {m + 1}] = g[s \ {m + 1}]
            /\ f[s] = ReadOne(g[s \ {m + 1}], text[m + 1])
          BY <2>2, <3>1
      <4> QED
          BY <4>1, <4>2
    <3>2. CASE m + 1 \notin s
      <4>1. s \in SUBSET (1 .. m) /\ s \ {Max(s)} \in SUBSET (1 .. m + 1)
        <5>1. \A x \in s : x \in 1 .. m + 1 /\ x # m + 1
            BY <3>2
        <5>2. \A x \in 1 .. m + 1 : x # m + 1 => x \in 1 .. m
            OBVIOUS
        <5> QED
            BY <5>1, <5>2, Zenon
      <4>2. f[s] = g[s] /\ f[s \ {Max(s)}] = g[s \ {Max(s)}]
          BY <2>2, <3>2, <4>1
      <4>3. g[s] = IF s = {} THEN q ELSE ReadOne(g[s \ {Max(s)}], text[Max(s)])
          BY <2>1, <4>1 DEF Folded
      <4> QED
          BY <4>2, <4>3
    <3> QED
        BY <3>1, <3>2
  <2>4. Folded(f, q, text, m + 1)
      BY <2>2, <2>3 DEF Folded
  <2> QED
      BY <2>4
<1> HIDE DEF T
<1>3. \A m \in Nat : m \in T
    BY <1>1, <1>2, AllNumbers
<1> QED
    BY <1>3 DEF T

\* A text, from item to item.
LEMMA ReadByItems ==
    ASSUME NEW q, NEW text, NEW n \in Nat, DOMAIN text = 1 .. n
    PROVE  \E at : /\ at[0] = q /\ at[n] = ReadAll(q, text)
                   /\ \A i \in 0 .. n - 1 : at[i + 1] = ReadOne(at[i], text[i + 1])
<1>1. PICK f : f = CHOOSE g : Folded(g, q, text, n)
    OBVIOUS
<1>2. Folded(f, q, text, n)
    BY <1>1, FoldedExists
<1>3. ReadAll(q, text) = f[1 .. n]
    BY <1>1 DEF ReadAll, FoldLeft, MapThenFoldSet, Folded, ReadOne
<1>4. PICK at : at = [i \in 0 .. n |-> f[1 .. i]]
    OBVIOUS
<1>5. at[0] = q
  <2>1. 1 .. 0 = {} /\ {} \in SUBSET (1 .. n)
      OBVIOUS
  <2> QED
      BY <1>2, <1>4, <2>1 DEF Folded
<1>6. ASSUME NEW i \in 0 .. n - 1 PROVE at[i + 1] = ReadOne(at[i], text[i + 1])
  <2>1. /\ 1 .. i + 1 \in SUBSET (1 .. n) /\ 1 .. i + 1 # {} /\ i \in Nat
        /\ i \in 0 .. n /\ i + 1 \in 0 .. n
      OBVIOUS
  <2>2. Max(1 .. i + 1) = i + 1 /\ (1 .. i + 1) \ {i + 1} = 1 .. i
    <3>1. 1 .. i + 1 \in SUBSET (1 .. i + 1) /\ i + 1 \in 1 .. i + 1
        BY <2>1
    <3> QED
        BY <2>1, <3>1, GreatestIndex, Zenon
  <2>3. f[1 .. i + 1] = ReadOne(f[(1 .. i + 1) \ {i + 1}], text[i + 1])
      BY <1>2, <2>1, <2>2 DEF Folded
  <2> QED
      BY <1>4, <2>1, <2>2, <2>3
<1>7. n \in 0 .. n
    OBVIOUS
<1> QED
    BY <1>3, <1>4, <1>5, <1>6, <1>7

-----------------------------------------------------------------------------
Words == Seq(0 .. 15)

LEMMA MaxQuadIs == MaxQuad \in Nat /\ MaxQuad = 16 * 4095 + 15
  BY DEF MaxQuad

LEMMA MaxQuadNumber == MaxQuad \in Nat
  BY MaxQuadIs

LEMMA WordValue ==
    ASSUME NEW word \in Words, NEW base \in {10, 16}
    PROVE  /\ Value(word, base) \in Nat
           /\ base = 16 /\ Len(word) <= 4 => Value(word, base) <= MaxQuad
<1>1. PICK n \in Nat : n = Len(word) /\ DOMAIN word = 1 .. n
    BY LenProperties DEF Words
<1>2. PICK v : /\ v[0] = 0 /\ v[n] = Value(word, base)
               /\ \A i \in 0 .. n - 1 : v[i + 1] = base * v[i] + word[i + 1]
    BY <1>1, ValueByDigits
<1>3. \A i \in 1 .. n : word[i] \in 0 .. 15
    BY <1>1, ElementOfSeq DEF Words
<1>4. \A i \in Nat : i <= n => v[i] \in Nat
  <2> DEFINE T == {i \in Nat : i <= n => v[i] \in Nat}
  <2>1. 0 \in T
      BY <1>2
  <2>2. ASSUME NEW i \in Nat, i \in T, i + 1 <= n PROVE v[i + 1] \in Nat
    <3>1. v[i] \in Nat /\ i \in 0 .. n - 1 /\ i + 1 \in 1 .. n
        BY <2>2
    <3>2. v[i + 1] = base * v[i] + word[i + 1] /\ word[i + 1] \in 0 .. 15
        BY <1>2, <1>3, <3>1
    <3>3. CASE base = 10
        BY <3>1, <3>2, <3>3
    <3>4. CASE base = 16
        BY <3>1, <3>2, <3>4
    <3> QED
        BY <3>3, <3>4
  <2>3. \A i \in Nat : i \in T => i + 1 \in T
      BY <2>2
  <2> HIDE DEF T
  <2>4. \A i \in Nat : i \in T
      BY <2>1, <2>3, AllNumbers
  <2> QED
      BY <2>4 DEF T
<1>5. ASSUME base = 16, n <= 4 PROVE v[n] <= MaxQuad
  <2>1. ASSUME NEW i \in 0 .. 3, i + 1 <= n, NEW most \in Nat, v[i] <= most
        PROVE  v[i + 1] <= 16 * most + 15
    <3>1. i \in 0 .. n - 1 /\ i + 1 \in 1 .. n /\ i \in Nat /\ i <= n
        BY <2>1
    <3>2. v[i] \in Nat /\ word[i + 1] \in 0 .. 15 /\ v[i + 1] = 16 * v[i] + word[i + 1]
        BY <1>2, <1>3, <1>4, <1>5, <3>1, Zenon
    <3> QED
        BY <2>1, <3>2
  <2>2. n >= 1 => v[1] <= 15
    <3>1. 0 \in 0 .. 3 /\ 0 \in Nat /\ 0 + 1 = 1 /\ 16 * 0 + 15 = 15 /\ 0 <= 0 /\ (n >= 1 => 1 <= n)
        OBVIOUS
    <3> QED
        BY <1>2, <2>1, <3>1
  <2>3. n >= 2 => v[2] <= 255
    <3>1. 1 \in 0 .. 3 /\ 15 \in Nat /\ 1 + 1 = 2 /\ 16 * 15 + 15 = 255 /\ (n >= 2 => n >= 1 /\ 2 <= n)
        OBVIOUS
    <3> QED
        BY <2>1, <2>2, <3>1
  <2>4. n >= 3 => v[3] <= 4095
    <3>1. 2 \in 0 .. 3 /\ 255 \in Nat /\ 2 + 1 = 3 /\ 16 * 255 + 15 = 4095 /\ (n >= 3 => n >= 2 /\ 3 <= n)
        OBVIOUS
    <3> QED
        BY <2>1, <2>3, <3>1
  <2>5. n >= 4 => v[4] <= MaxQuad
    <3>1. 3 \in 0 .. 3 /\ 4095 \in Nat /\ 3 + 1 = 4 /\ (n >= 4 => n >= 3 /\ 4 <= n)
        OBVIOUS
    <3> QED
        BY <2>1, <2>4, <3>1, MaxQuadIs
  <2>11. \A most \in Nat : v[n] \in Nat /\ v[n] <= most /\ most <= MaxQuad => v[n] <= MaxQuad
      BY MaxQuadIs
  <2>12. v[n] \in Nat /\ 0 <= MaxQuad /\ 15 <= MaxQuad /\ 255 <= MaxQuad /\ 4095 <= MaxQuad
      BY <1>4, MaxQuadIs
  <2>6. CASE n = 0
      BY <1>2, <2>6, <2>12
  <2>7. CASE n = 1
    <3>1. v[n] <= 15
        BY <2>2, <2>7
    <3> QED
        BY <2>11, <2>12, <3>1
  <2>8. CASE n = 2
    <3>1. v[n] <= 255
        BY <2>3, <2>8
    <3> QED
        BY <2>11, <2>12, <3>1
  <2>9. CASE n = 3
    <3>1. v[n] <= 4095
        BY <2>4, <2>9
    <3> QED
        BY <2>11, <2>12, <3>1
  <2>10. CASE n = 4
      BY <2>5, <2>10
  <2> QED
      BY <1>5, <2>6, <2>7, <2>8, <2>9, <2>10
<1> QED
    BY <1>1, <1>2, <1>4, <1>5

\* A digit more.
LEMMA ValueAppend ==
    ASSUME NEW word \in Words, NEW d \in 0 .. 15, NEW base \in {10, 16}
    PROVE  /\ Append(word, d) \in Words /\ Len(Append(word, d)) = Len(word) + 1
           /\ Value(Append(word, d), base) = base * Value(word, base) + d
<1>1. PICK n \in Nat : n = Len(word) /\ DOMAIN word = 1 .. n
    BY LenProperties DEF Words
<1>2. PICK longer : longer = Append(word, d)
    OBVIOUS
<1>3. /\ longer \in Words /\ Len(longer) = n + 1 /\ longer[n + 1] = d
      /\ \A i \in 1 .. n : longer[i] = word[i]
    BY <1>1, <1>2, AppendProperties DEF Words
<1>4. DOMAIN longer = 1 .. n + 1
    BY <1>3, LenProperties DEF Words
<1>5. PICK v : /\ v[0] = 0 /\ v[n] = Value(word, base)
               /\ \A i \in 0 .. n - 1 : v[i + 1] = base * v[i] + word[i + 1]
    BY <1>1, ValueByDigits
<1>6. n + 1 \in Nat /\ (n + 1) - 1 = n
    OBVIOUS
<1>7. PICK u : /\ u[0] = 0 /\ u[n + 1] = Value(longer, base)
               /\ \A i \in 0 .. n : u[i + 1] = base * u[i] + longer[i + 1]
  <2>1. \E u : /\ u[0] = 0 /\ u[n + 1] = Value(longer, base)
               /\ \A i \in 0 .. (n + 1) - 1 : u[i + 1] = base * u[i] + longer[i + 1]
      BY <1>4, <1>6, ValueByDigits
  <2> QED
      BY <1>6, <2>1
<1>8. \A i \in Nat : i <= n => u[i] = v[i]
  <2> DEFINE T == {i \in Nat : i <= n => u[i] = v[i]}
  <2>1. 0 \in T
      BY <1>5, <1>7
  <2>2. ASSUME NEW i \in Nat, i \in T, i + 1 <= n PROVE u[i + 1] = v[i + 1]
    <3>1. u[i] = v[i] /\ i \in 0 .. n - 1 /\ i \in 0 .. n /\ i + 1 \in 1 .. n
        BY <2>2
    <3> QED
        BY <1>3, <1>5, <1>7, <3>1, Zenon
  <2>3. \A i \in Nat : i \in T => i + 1 \in T
      BY <2>2
  <2> HIDE DEF T
  <2>4. \A i \in Nat : i \in T
      BY <2>1, <2>3, AllNumbers
  <2> QED
      BY <2>4 DEF T
<1>9. n \in 0 .. n /\ n <= n
    OBVIOUS
<1>10. u[n + 1] = base * v[n] + d
    BY <1>3, <1>7, <1>8, <1>9
<1> QED
    BY <1>1, <1>2, <1>3, <1>5, <1>7, <1>10

\* The recursion of Digits, up to the number m.
DigitsUpTo(f, base, m) ==
    f = [v \in 0 .. m |-> IF v < base THEN <<v>> ELSE Append(f[v \div base], v % base)]

Divided(v, base, q, d) == v = base * q + d

LEMMA Quotients ==
    ASSUME NEW v \in Nat, NEW base \in {10, 16}
    PROVE  /\ v \div base \in Nat /\ v % base \in 0 .. base - 1
           /\ Divided(v, base, v \div base, v % base)
           /\ v >= base => v \div base < v
<1>1. PICK q : q = v \div base
    OBVIOUS
<1>2. PICK d : d = v % base
    OBVIOUS
<1>3. q \in Nat /\ d \in 0 .. base - 1 /\ v = base * q + d /\ (v >= base => q < v)
  <2>1. CASE base = 10
    <3>1. q \in Int /\ d \in Int
        BY <1>1, <1>2, <2>1
    <3> QED
        BY <1>1, <1>2, <2>1, <3>1
  <2>2. CASE base = 16
    <3>1. q \in Int /\ d \in Int
        BY <1>1, <1>2, <2>2
    <3> QED
        BY <1>1, <1>2, <2>2, <3>1
  <2> QED
      BY <2>1, <2>2
<1>4. v \div base \in Nat /\ (v >= base => v \div base < v)
    BY <1>1, <1>3, Zenon
<1>5. v % base \in 0 .. base - 1
    BY <1>2, <1>3, Zenon
<1>6. Divided(v, base, q, d)
    BY <1>3 DEF Divided
<1>7. Divided(v, base, v \div base, v % base)
    BY <1>1, <1>2, <1>6, Zenon
<1> QED
    BY <1>4, <1>5, <1>7, Zenon

LEMMA DigitsExist ==
    ASSUME NEW base \in {10, 16}
    PROVE  \A m \in Nat : \E f : DigitsUpTo(f, base, m)
<1> DEFINE T == {m \in Nat : \E f : DigitsUpTo(f, base, m)}
<1>1. 0 \in T
  <2>1. PICK f : f = [v \in 0 .. 0 |-> <<v>>]
      OBVIOUS
  <2>2. \A v \in 0 .. 0 : v < base
      OBVIOUS
  <2>3. DigitsUpTo(f, base, 0)
      BY <2>1, <2>2 DEF DigitsUpTo
  <2> QED
      BY <2>3
<1>2. ASSUME NEW m \in Nat, m \in T PROVE m + 1 \in T
  <2>1. PICK g : DigitsUpTo(g, base, m)
      BY <1>2
  <2>2. PICK f : f = [v \in 0 .. m + 1 |->
                        IF v < base THEN <<v>> ELSE Append(g[v \div base], v % base)]
      OBVIOUS
  <2>3. ASSUME NEW v \in 0 .. m + 1, ~(v < base)
        PROVE  f[v \div base] = g[v \div base]
    <3>1. PICK u : u = v \div base
        OBVIOUS
    <3>2. u \in 0 .. m /\ u \in 0 .. m + 1
      <4>1. v \in Nat /\ v <= m + 1 /\ v >= base
          BY <2>3
      <4>2. u \in Nat /\ u < v
          BY <3>1, <4>1, Quotients, Zenon
      <4> QED
          BY <4>1, <4>2
    <3>3. f[u] = IF u < base THEN <<u>> ELSE Append(g[u \div base], u % base)
        BY <2>2, <3>2, Zenon
    <3>4. g[u] = IF u < base THEN <<u>> ELSE Append(g[u \div base], u % base)
        BY <2>1, <3>2, Zenon DEF DigitsUpTo
    <3> QED
        BY <3>1, <3>3, <3>4
  <2>4. ASSUME NEW v \in 0 .. m + 1
        PROVE  f[v] = IF v < base THEN <<v>> ELSE Append(f[v \div base], v % base)
    <3>1. f[v] = IF v < base THEN <<v>> ELSE Append(g[v \div base], v % base)
        BY <2>2, Zenon
    <3>2. CASE v < base
        BY <3>1, <3>2, Zenon
    <3>3. CASE ~(v < base)
      <4>1. f[v \div base] = g[v \div base]
          BY <2>3, <3>3, Zenon
      <4> QED
          BY <3>1, <3>3, <4>1, Zenon
    <3> QED
        BY <3>2, <3>3, Zenon
  <2>5. \A v \in 0 .. m + 1 : (IF v < base THEN <<v>> ELSE Append(g[v \div base], v % base))
                               = IF v < base THEN <<v>> ELSE Append(f[v \div base], v % base)
    <3> SUFFICES ASSUME NEW v \in 0 .. m + 1
                 PROVE  (IF v < base THEN <<v>> ELSE Append(g[v \div base], v % base))
                        = IF v < base THEN <<v>> ELSE Append(f[v \div base], v % base)
        BY Zenon
    <3>1. f[v] = IF v < base THEN <<v>> ELSE Append(g[v \div base], v % base)
        BY <2>2, Zenon
    <3>2. PICK x : x = IF v < base THEN <<v>> ELSE Append(g[v \div base], v % base)
        BY Zenon
    <3>3. PICK y : y = IF v < base THEN <<v>> ELSE Append(f[v \div base], v % base)
        BY Zenon
    <3>4. f[v] = y
        BY <2>4, <3>3, Zenon
    <3>5. f[v] = x
        BY <3>1, <3>2, Zenon
    <3>6. x = y
        BY <3>4, <3>5, Zenon
    <3> QED
        BY <3>2, <3>3, <3>6, Zenon
  <2>6. f = [v \in 0 .. m + 1 |-> IF v < base THEN <<v>> ELSE Append(f[v \div base], v % base)]
      BY <2>2, <2>5
  <2>7. DigitsUpTo(f, base, m + 1)
      BY <2>6 DEF DigitsUpTo
  <2> QED
      BY <2>7
<1> HIDE DEF T
<1>3. \A m \in Nat : m \in T
    BY <1>1, <1>2, AllNumbers
<1> QED
    BY <1>3 DEF T

\* What is written for a number: digits of the base, k of them at most, of its value.
HasDigits(base, v, k) ==
    /\ Digits(base, v) \in Seq(0 .. base - 1)
    /\ Len(Digits(base, v)) \in 1 .. k
    /\ Value(Digits(base, v), base) = v

LEMMA DigitsWritten ==
    ASSUME NEW base \in {10, 16}, NEW v \in Nat, v <= MaxQuad
    PROVE  /\ v < base => Digits(base, v) = <<v>>
           /\ v >= base => Digits(base, v) = Append(Digits(base, v \div base), v % base)
<1>1. PICK f : f = CHOOSE g : DigitsUpTo(g, base, MaxQuad)
    BY Zenon
<1>2. DigitsUpTo(f, base, MaxQuad)
  <2>1. \E g : DigitsUpTo(g, base, MaxQuad)
      BY DigitsExist, MaxQuadNumber, Zenon
  <2> QED
      BY <1>1, <2>1, Zenon
<1>3. ASSUME NEW w PROVE Digits(base, w) = f[w]
    BY <1>1, Zenon DEF Digits, DigitsUpTo
<1>4. v \in 0 .. MaxQuad
    BY MaxQuadNumber
<1>5. f[v] = IF v < base THEN <<v>> ELSE Append(f[v \div base], v % base)
    BY <1>2, <1>4, Zenon DEF DigitsUpTo
<1>6. base \in Nat /\ (v >= base => ~(v < base))
    OBVIOUS
<1> QED
    BY <1>3, <1>5, <1>6, Zenon

LEMMA FewDigits ==
    ASSUME NEW base \in {10, 16}, NEW v \in Nat, v <= MaxQuad, NEW k \in Nat \ {0}
    PROVE  /\ v < base => HasDigits(base, v, k)
           /\ HasDigits(base, v \div base, k) => HasDigits(base, v, k + 1)
<1>1. 0 .. base - 1 \subseteq 0 .. 15
    OBVIOUS
<1>2. ASSUME v < base PROVE HasDigits(base, v, k) /\ HasDigits(base, v, k + 1)
  <2>1. PICK w : w = <<v>>
      OBVIOUS
  <2>2. Digits(base, v) = w
      BY <1>2, <2>1, DigitsWritten
  <2>3. w \in Seq(0 .. base - 1) /\ Len(w) = 1 /\ w[1] = v /\ DOMAIN w = 1 .. 1
    <3>1. v \in 0 .. base - 1
        BY <1>2
    <3> QED
        BY <2>1, <3>1
  <2>4. PICK u : /\ u[0] = 0 /\ u[1] = Value(w, base)
                 /\ \A i \in 0 .. 1 - 1 : u[i + 1] = base * u[i] + w[i + 1]
    <3>1. PICK n \in Nat : n = 1
        OBVIOUS
    <3>2. DOMAIN w = 1 .. n
        BY <2>3, <3>1
    <3>3. \E u : /\ u[0] = 0 /\ u[n] = Value(w, base)
                /\ \A i \in 0 .. n - 1 : u[i + 1] = base * u[i] + w[i + 1]
        BY <3>2, ValueByDigits
    <3> QED
        BY <3>1, <3>3
  <2>5. u[1] = v
    <3>1. 0 \in 0 .. 1 - 1 /\ 0 + 1 = 1 /\ base * 0 + v = v
        OBVIOUS
    <3>2. u[1] = base * u[0] + w[1]
        BY <2>4, <3>1, Zenon
    <3> QED
        BY <2>3, <2>4, <3>1, <3>2, Zenon
  <2>6. Value(w, base) = v
      BY <2>4, <2>5
  <2>7. 1 \in 1 .. k /\ 1 \in 1 .. k + 1
      OBVIOUS
  <2> QED
      BY <2>2, <2>3, <2>6, <2>7, Zenon DEF HasDigits
<1>3. ASSUME HasDigits(base, v \div base, k), v >= base PROVE HasDigits(base, v, k + 1)
  <2>1. PICK q : q = v \div base
      OBVIOUS
  <2>2. PICK d : d = v % base
      OBVIOUS
  <2>3. d \in 0 .. base - 1 /\ v = base * q + d
    <3>1. d \in 0 .. base - 1 /\ Divided(v, base, q, d)
        BY <2>1, <2>2, Quotients, Zenon
    <3> QED
        BY <3>1 DEF Divided
  <2>4. PICK w : w = Digits(base, q)
      OBVIOUS
  <2>5. w \in Seq(0 .. base - 1) /\ Len(w) \in 1 .. k /\ Value(w, base) = q
      BY <1>3, <2>1, <2>4 DEF HasDigits
  <2>6. w \in Words /\ d \in 0 .. 15
    <3>1. d \in 0 .. 15
        BY <1>1, <2>3
    <3>2. w \in Seq(0 .. 15)
        BY <1>1, <2>5, SeqMonotonic, Zenon
    <3> QED
        BY <3>1, <3>2 DEF Words
  <2>7. PICK longer : longer = Append(w, d)
      OBVIOUS
  <2>8. Value(longer, base) = base * Value(w, base) + d
      BY <2>6, <2>7, ValueAppend
  <2>9. longer \in Seq(0 .. base - 1) /\ Len(longer) = Len(w) + 1
      BY <2>3, <2>5, <2>7, AppendProperties
  <2>10. Digits(base, v) = longer
      BY <1>3, <2>1, <2>2, <2>4, <2>7, DigitsWritten
  <2>11. Len(longer) \in 1 .. k + 1
      BY <2>5, <2>9
  <2>12. Value(longer, base) = v
      BY <2>3, <2>5, <2>8
  <2> QED
      BY <2>9, <2>10, <2>11, <2>12, Zenon DEF HasDigits
<1> QED
  <2>1. v < base \/ v >= base
      OBVIOUS
  <2> QED
      BY <1>2, <1>3, <2>1

\* Quads have four digits at most, bytes and mask lengths three.
LEMMA DigitsAreRead ==
    /\ \A v \in Nat : v <= MaxQuad => HasDigits(16, v, 4)
    /\ \A v \in Nat : v <= 999 => HasDigits(10, v, 3)
<1>1. ASSUME NEW v \in Nat, v <= MaxQuad PROVE HasDigits(16, v, 4)
  <2>1. PICK v1 \in Int : v1 = v \div 16
      OBVIOUS
  <2>2. PICK v2 \in Int : v2 = v1 \div 16
      OBVIOUS
  <2>3. PICK v3 \in Int : v3 = v2 \div 16
      OBVIOUS
  <2>4. v1 \in Nat /\ v1 <= 4095
      BY <1>1, <2>1, MaxQuadIs
  <2>5. v2 \in Nat /\ v2 <= 255
      BY <2>2, <2>4
  <2>6. v3 \in Nat /\ v3 <= 15
      BY <2>3, <2>5
  <2>7. HasDigits(16, v3, 1)
    <3>1. v3 \in Nat /\ v3 <= MaxQuad /\ v3 < 16 /\ 1 \in Nat \ {0}
        BY <2>6, MaxQuadIs
    <3> QED
        BY <3>1, FewDigits
  <2>8. HasDigits(16, v2, 2)
    <3>1. v2 \in Nat /\ v2 <= MaxQuad /\ 1 \in Nat \ {0} /\ 1 + 1 = 2
        BY <2>5, MaxQuadIs
    <3> QED
        BY <2>3, <2>7, <3>1, FewDigits
  <2>9. HasDigits(16, v1, 3)
    <3>1. v1 \in Nat /\ v1 <= MaxQuad /\ 2 \in Nat \ {0} /\ 2 + 1 = 3
        BY <2>4, MaxQuadIs
    <3> QED
        BY <2>2, <2>8, <3>1, FewDigits
  <2> QED
    <3>1. 3 \in Nat \ {0} /\ 3 + 1 = 4
        OBVIOUS
    <3> QED
        BY <1>1, <2>1, <2>9, <3>1, FewDigits
<1>2. ASSUME NEW v \in Nat, v <= 999 PROVE HasDigits(10, v, 3)
  <2>1. PICK v1 \in Int : v1 = v \div 10
      OBVIOUS
  <2>2. PICK v2 \in Int : v2 = v1 \div 10
      OBVIOUS
  <2>3. v1 \in Nat /\ v1 <= 99
      BY <1>2, <2>1
  <2>4. v2 \in Nat /\ v2 <= 9
      BY <2>2, <2>3
  <2>5. HasDigits(10, v2, 1)
    <3>1. v2 \in Nat /\ v2 <= MaxQuad /\ v2 < 10 /\ 1 \in Nat \ {0}
        BY <2>4, MaxQuadIs
    <3> QED
        BY <3>1, FewDigits
  <2>6. HasDigits(10, v1, 2)
    <3>1. v1 \in Nat /\ v1 <= MaxQuad /\ 1 \in Nat \ {0} /\ 1 + 1 = 2
        BY <2>3, MaxQuadIs
    <3> QED
        BY <2>2, <2>5, <3>1, FewDigits
  <2> QED
    <3>1. v \in Nat /\ v <= MaxQuad /\ 2 \in Nat \ {0} /\ 2 + 1 = 3
        BY <1>2, MaxQuadIs
    <3> QED
        BY <2>1, <2>6, <3>1, FewDigits
<1> QED
    BY <1>1, <1>2

-----------------------------------------------------------------------------
(***************************************************************************)
(* How an address ends: a host is done, a network goes on to its mask; the *)
(* items of the address leave the mask alone.                              *)
(***************************************************************************)
EndsAs(q, r) ==
    /\ DOMAIN r = Parts /\ r.kind = q.kind /\ r.mask = q.mask
    /\ r.status = "done" => q.kind = "host"
    /\ r.status = "slash" => q.kind # "host"

LEMMA FinishedEnds ==
    ASSUME NEW q, DOMAIN q = Parts, q.status = "reading", NEW then
    PROVE  EndsAs(q, Finished(q, then))
<1>1. PICK r : r = [q EXCEPT !.quads = IF q.deflated THEN Inflated(q) ELSE @]
    OBVIOUS
<1>2. DOMAIN r = Parts /\ r.kind = q.kind /\ r.mask = q.mask /\ r.status = q.status
    BY <1>1 DEF Parts
<1>3. EndsAs(q, Undefined(q)) /\ EndsAs(q, Failed(q))
    BY DEF EndsAs, Undefined, Failed, Parts
<1>4. EndsAs(q, Complete(r, then))
    BY <1>2 DEF EndsAs, Complete, Failed, Parts
<1> QED
    BY <1>1, <1>3, <1>4 DEF Finished

LEMMA TokenEnds ==
    ASSUME NEW q, DOMAIN q = Parts, q.status = "reading", NEW item
    PROVE  EndsAs(q, Token6(q, item))
<1>1. EndsAs(q, Failed(q))
    BY DEF EndsAs, Failed, Parts
<1>2. \A c : EndsAs(q, Compression(q, c))
    BY DEF EndsAs, Compression, Failed, Parts
<1>3. \A word : EndsAs(q, Decimal(q, word))
    BY DEF EndsAs, Decimal, Failed, Undefined, Parts
<1>4. \A word : EndsAs(q, Quad(q, word))
    BY DEF EndsAs, Quad, Failed, Parts
<1>5. \A c, word : EndsAs(q, Quad([q EXCEPT !.delimiter = c], word))
  <2> TAKE c, word
  <2>1. PICK r : r = [q EXCEPT !.delimiter = c]
      OBVIOUS
  <2>2. EndsAs(q, r) /\ r.status = "reading"
      BY <2>1 DEF EndsAs, Parts
  <2>3. EndsAs(q, Quad(r, word))
      BY <2>2 DEF EndsAs, Quad, Failed, Parts
  <2> QED
      BY <2>1, <2>3
<1>6. \A then : EndsAs(q, Finished(q, then))
    BY FinishedEnds
<1>7. \A r, then : EndsAs(q, r) /\ r.status = "reading" => EndsAs(q, Finished(r, then))
  <2> TAKE r, then
  <2> SUFFICES ASSUME EndsAs(q, r), r.status = "reading" PROVE EndsAs(q, Finished(r, then))
      OBVIOUS
  <2>1. EndsAs(r, Finished(r, then))
      BY FinishedEnds DEF EndsAs
  <2> QED
      BY <2>1 DEF EndsAs
<1> QED
    BY <1>1, <1>2, <1>3, <1>4, <1>5, <1>6, <1>7 DEF Token6

(***************************************************************************)
(* An address alone, read item by item from the start.                     *)
(***************************************************************************)
Steps(at, T, m) == \A i \in 0 .. m - 1 : at[i + 1] = ReadOne(at[i], T[i + 1])

LEMMA AddressRead ==
    ASSUME NEW S, NEW T \in Seq(S), Ended(T),
           NEW quads, NEW h, NEW n, NEW d, NEW g, NEW l, NEW t,
           Address(T, quads, h, n, d, g, l, t),
           NEW kind, kind = "host" \/ T[Len(T)].then = "/",
           NEW at, at[0] = Start("ipv6", kind), Steps(at, T, Len(T)),
           NEW q, q = at[Len(T)]
    PROVE  /\ q.status = IF kind = "host" THEN "done" ELSE "slash"
           /\ Numbers6(q) = quads
           /\ DOMAIN q = Parts /\ q.version = "ipv6" /\ q.kind = kind /\ q.mask = 0
<1>1. PICK m \in Nat : m + 1 = Len(T)
  <2>1. Len(T) \in Nat \ {0}
    <3>1. T # <<>>
        BY DEF Ended
    <3> QED
        BY <3>1, EmptySeq, Zenon
  <2>2. Len(T) - 1 \in Nat /\ (Len(T) - 1) + 1 = Len(T)
      BY <2>1
  <2> QED
      BY <2>2
<1> DEFINE Good(r) == DOMAIN r = Parts /\ r.kind = kind /\ r.mask = 0
           K == {k \in Nat : k <= m => PartlyRead(at[k], T, h, d, g, l, k) /\ Good(at[k])}
<1>2. ASSUME NEW k \in Nat, k <= m, PartlyRead(at[k], T, h, d, g, l, k), Good(at[k])
      PROVE  /\ at[k + 1] = Token6(at[k], T[k + 1])
             /\ at[k].status = "reading" /\ at[k].version = "ipv6"
             /\ EndsAs(at[k], at[k + 1]) /\ Kept(at[k], at[k + 1])
  <2>1. at[k].status = "reading" /\ at[k].version = "ipv6"
      BY <1>2, PartlyReadReads
  <2>2. k \in 0 .. Len(T) - 1
      BY <1>1, <1>2
  <2>3. at[k + 1] = ReadOne(at[k], T[k + 1])
      BY <2>2 DEF Steps
  <2>4. ReadOne(at[k], T[k + 1]) = Read(at[k], T[k + 1]) /\ Read(at[k], T[k + 1]) = Token6(at[k], T[k + 1])
      BY <2>1 DEF ReadOne, Read
  <2>5. EndsAs(at[k], Token6(at[k], T[k + 1]))
      BY <1>2, <2>1, TokenEnds, Zenon
  <2>6. Kept(at[k], Read(at[k], T[k + 1]))
      BY <1>2, ReadKeeps, Zenon
  <2> QED
      BY <2>1, <2>3, <2>4, <2>5, <2>6, Zenon
<1>3. 0 \in K
  <2>1. PartlyRead(Start("ipv6", kind), T, h, d, g, l, 0)
      BY NothingRead
  <2>2. Good(Start("ipv6", kind))
      BY DEF Start, Parts
  <2> HIDE DEF Good
  <2> QED
      BY <2>1, <2>2
<1>4. ASSUME NEW k \in Nat, k \in K, k + 1 <= m
      PROVE  PartlyRead(at[k + 1], T, h, d, g, l, k + 1) /\ Good(at[k + 1])
  <2>1. k <= m /\ k + 1 < Len(T)
      BY <1>1, <1>4
  <2>2. PartlyRead(at[k], T, h, d, g, l, k) /\ Good(at[k])
      BY <1>4, <2>1
  <2>3. /\ at[k + 1] = Token6(at[k], T[k + 1])
        /\ EndsAs(at[k], at[k + 1])
      BY <1>2, <2>1, <2>2, Zenon
  <2>4. PartlyRead(Token6(at[k], T[k + 1]), T, h, d, g, l, k + 1)
      BY <2>1, <2>2, NextRead
  <2>5. Good(at[k + 1])
      BY <2>2, <2>3 DEF EndsAs
  <2> QED
      BY <2>3, <2>4, <2>5
<1>5. \A k \in Nat : k \in K => k + 1 \in K
  <2> SUFFICES ASSUME NEW k \in Nat, k \in K PROVE k + 1 \in K
      OBVIOUS
  <2>1. k + 1 \in Nat
      OBVIOUS
  <2> HIDE DEF Good
  <2> QED
      BY <1>4, <2>1, Zenon
<1> HIDE DEF K
<1>6. \A k \in Nat : k \in K
    BY <1>3, <1>5, AllNumbers
<1>7. PartlyRead(at[m], T, h, d, g, l, m) /\ Good(at[m])
  <2>1. m <= m
      BY <1>1
  <2> HIDE DEF Good
  <2> QED
      BY <1>1, <1>6, <2>1, Zenon DEF K
<1>8. /\ q = Token6(at[m], T[m + 1])
      /\ at[m].version = "ipv6" /\ EndsAs(at[m], q) /\ Kept(at[m], q)
  <2>1. m <= m
      BY <1>1
  <2> HIDE DEF Good
  <2> QED
      BY <1>1, <1>2, <1>7, <2>1, Zenon
<1>9. q.status \in {"done", "slash"} /\ Numbers6(q) = quads
  <2>1. at[m].kind = "host" \/ T[m + 1].then = "/"
      BY <1>1, <1>7
  <2> QED
      BY <1>1, <1>7, <1>8, <2>1, AllRead
<1> QED
    BY <1>7, <1>8, <1>9 DEF EndsAs, Kept

-----------------------------------------------------------------------------
(***************************************************************************)
(* What is written, item by item.                                          *)
(***************************************************************************)
LEMMA ListIsSeq ==
    ASSUME NEW m \in Nat, NEW u, IsList(u, m)
    PROVE  \E S : u \in Seq(S) /\ Len(u) = m /\ DOMAIN u = 1 .. m
<1> DEFINE S == {u[i] : i \in 1 .. m}
<1>1. u \in [1 .. m -> S]
    BY DEF IsList
<1> HIDE DEF S
<1>2. u \in Seq(S) /\ Len(u) = m /\ DOMAIN u = 1 .. m
    BY <1>1
<1> QED
    BY <1>2

LEMMA SubList ==
    ASSUME NEW n \in Nat, NEW u, IsList(u, n), NEW i \in 1 .. n + 1, NEW m \in Nat, i + m <= n + 1,
           NEW j, j = i + m - 1
    PROVE  /\ IsList(SubSeq(u, i, j), m) /\ Len(SubSeq(u, i, j)) = m
           /\ \A k \in 1 .. m : SubSeq(u, i, j)[k] = u[i - 1 + k]
<1>1. PICK S : u \in Seq(S) /\ Len(u) = n /\ DOMAIN u = 1 .. n
    BY ListIsSeq
<1>2. \A k \in i .. j : u[k] \in S
  <2>1. \A k \in i .. j : k \in 1 .. Len(u)
      BY <1>1
  <2> QED
      BY <1>1, <2>1, ElementOfSeq
<1>3. PICK v : v = SubSeq(u, i, j)
    OBVIOUS
<1>4. /\ v \in Seq(S)
      /\ Len(v) = IF i <= j THEN j - i + 1 ELSE 0
      /\ \A k \in 1 .. j - i + 1 : v[k] = u[i + k - 1]
    BY <1>2, <1>3, SubSeqProperties
<1>5. Len(v) = m /\ j - i + 1 = m
    BY <1>4
<1>6. v \in [1 .. m -> S]
    BY <1>4, <1>5, LenProperties
<1>7. IsList(v, m)
    BY <1>6 DEF IsList
<1>8. \A k \in 1 .. m : v[k] = u[i - 1 + k]
  <2>1. \A k \in 1 .. m : k \in 1 .. j - i + 1 /\ i + k - 1 = i - 1 + k
      BY <1>5
  <2> QED
      BY <1>4, <2>1
<1> QED
    BY <1>3, <1>5, <1>7, <1>8

LEMMA RowItems ==
    ASSUME NEW m \in Nat, NEW u, IsList(u, m), NEW base, NEW d, NEW then
    PROVE  /\ IsList(Row(u, base, d, then), m)
           /\ \A i \in 1 .. m : Row(u, base, d, then)[i] = Item(Digits(base, u[i]), IF i = m THEN then ELSE d)
<1>1. Len(u) = m /\ DOMAIN u = 1 .. m
    BY ListIsSeq
<1>2. PICK v : v = Row(u, base, d, then)
    OBVIOUS
<1>3. v = [i \in 1 .. m |-> Item(Digits(base, u[i]), IF i = m THEN then ELSE d)]
    BY <1>1, <1>2 DEF Row
<1> QED
    BY <1>2, <1>3 DEF IsList

\* One item as a list.
LEMMA OneItem ==
    ASSUME NEW item
    PROVE  IsList(<<item>>, 1) /\ <<item>>[1] = item
  BY DEF IsList

\* Q is n numbers that fit quads.
QuadList(Q, n) == IsList(Q, n) /\ \A i \in 1 .. n : Q[i] \in Nat /\ Q[i] <= MaxQuad

LEMMA WrittenQuad ==
    ASSUME NEW v \in Nat, v <= MaxQuad, NEW d, NEW then, then \in {d} \cup Ends
    PROVE  /\ QuadItem(Item(Digits(16, v), then), d)
           /\ Value(Item(Digits(16, v), then).word, 16) = v
<1>1. HasDigits(16, v, 4)
    BY DigitsAreRead
<1> QED
    BY <1>1 DEF HasDigits, QuadItem, Item

\* All the quads written.
LEMMA ExpandedShape ==
    ASSUME NEW n \in {6, 8}, NEW Q, QuadList(Q, n), NEW then, then \in {":"} \cup Ends, NEW T,
           \A i \in 1 .. n : T[i] = Item(Digits(16, Q[i]), IF i = n THEN then ELSE ":")
    PROVE  /\ Shape(T, n, n, ":", n + 1, 0, 0)
           /\ AllQuads(T, n, n, n + 1, 0, 0) = Q
<1>1. ASSUME NEW i \in 1 .. n
      PROVE  QuadItem(T[i], ":") /\ QuadAt(T, i) = Q[i]
  <2>1. PICK c : c = IF i = n THEN then ELSE ":"
      OBVIOUS
  <2>2. c \in {":"} \cup Ends /\ T[i] = Item(Digits(16, Q[i]), c) /\ Q[i] \in Nat /\ Q[i] <= MaxQuad
      BY <2>1 DEF QuadList
  <2> QED
      BY <2>2, WrittenQuad DEF QuadAt
<1>2. n \in Nat
    OBVIOUS
<1>3. Shape(T, n, n, ":", n + 1, 0, 0)
    BY <1>1 DEF Shape
<1>4. PICK w : w = AllQuads(T, n, n, n + 1, 0, 0)
    OBVIOUS
<1>5. IsList(w, n) /\ \A i \in 1 .. n : w[i] = QuadAt(T, i)
  <2>1. \A i \in 1 .. n : i <= n + 1 - 1 - 0
      OBVIOUS
  <2> QED
      BY <1>4, <2>1 DEF AllQuads, IsList
<1>6. w = Q
    BY <1>1, <1>2, <1>5, SameList DEF QuadList
<1> QED
    BY <1>3, <1>4, <1>6

(***************************************************************************)
(* A run of z zeros left out between b quads and a quads; with t the text  *)
(* ends with the compression.                                              *)
(***************************************************************************)
Compressed(T, Q, n, d, then, b, z, a, l, t) ==
    /\ b \in Nat /\ z \in Nat /\ z >= 1 /\ a \in Nat /\ b + z + a = n
    /\ l \in {0, 1} /\ (l = 1 <=> b = 0) /\ t \in {0, 1} /\ (t = 1 => a = 0)
    /\ \A i \in 1 .. b : T[i] = Item(Digits(16, Q[i]), d)
    /\ \A i \in 1 .. 1 + l : T[b + i] = Item(<<>>, d)
    /\ \A i \in 1 .. a : T[b + 1 + l + i] = Item(Digits(16, Q[b + z + i]), IF i = a THEN then ELSE d)
    /\ t = 1 => T[b + 1 + l + 1] = Item(<<>>, then)

LEMMA CompressedShape ==
    ASSUME NEW n \in {6, 8}, NEW Q, QuadList(Q, n), NEW d \in {":", "-"}, NEW then,
           NEW T, NEW b, NEW z, NEW a, NEW l, NEW t,
           Compressed(T, Q, n, d, then, b, z, a, l, t),
           then \in {d} \cup Ends, t = 1 => then \in Ends,
           \A i \in 1 .. z : Q[b + i] = 0,
           NEW g, g = b + 1 + l, NEW h, h = g + a + t
    PROVE  /\ Shape(T, h, n, d, g, l, t)
           /\ AllQuads(T, h, n, g, l, t) = Q
<1>1. /\ b \in Nat /\ z \in Nat /\ z >= 1 /\ a \in Nat /\ b + z + a = n
      /\ l \in {0, 1} /\ (l = 1 <=> b = 0) /\ t \in {0, 1} /\ (t = 1 => a = 0)
    BY DEF Compressed
<1>2. /\ g \in Nat /\ h \in Nat /\ g \in 2 .. h /\ g - 1 - l = b /\ h - g - t = a
      /\ n \in Nat /\ n - a = b + z /\ b + a < n
    BY <1>1
<1>3. ASSUME NEW i \in 1 .. b PROVE QuadItem(T[i], d) /\ QuadAt(T, i) = Q[i]
  <2>1. i \in 1 .. n
      BY <1>1
  <2>2. T[i] = Item(Digits(16, Q[i]), d) /\ Q[i] \in Nat /\ Q[i] <= MaxQuad
      BY <2>1 DEF QuadList, Compressed
  <2> QED
      BY <2>2, WrittenQuad DEF QuadAt
<1>4. ASSUME NEW i \in 1 .. a PROVE QuadItem(T[g + i], d) /\ QuadAt(T, g + i) = Q[b + z + i]
  <2>1. b + z + i \in 1 .. n
      BY <1>1
  <2>2. PICK c : c = IF i = a THEN then ELSE d
      OBVIOUS
  <2>3. /\ T[b + 1 + l + i] = Item(Digits(16, Q[b + z + i]), c)
        /\ Q[b + z + i] \in Nat /\ Q[b + z + i] <= MaxQuad
      BY <2>1, <2>2 DEF QuadList, Compressed
  <2>4. c \in {d} \cup Ends
      BY <2>2
  <2> QED
      BY <2>3, <2>4, WrittenQuad DEF QuadAt
<1>5. T[g] = Item(<<>>, d) /\ (l = 1 => g = 2 /\ T[1] = Item(<<>>, d))
  <2>1. 1 \in 1 .. 1 + l /\ 1 + l \in 1 .. 1 + l /\ b + (1 + l) = g /\ (l = 1 => b + 1 = 1)
      BY <1>1
  <2>2. T[b + 1] = Item(<<>>, d) /\ T[b + (1 + l)] = Item(<<>>, d)
      BY <2>1 DEF Compressed
  <2> QED
      BY <1>1, <2>1, <2>2
<1>6. t = 1 => g = h - 1 /\ T[h].word = <<>> /\ T[h].then \in Ends
  <2>1. t = 1 => h = g + 1 /\ h = b + 1 + l + 1 /\ g = h - 1
      BY <1>1, <1>2
  <2> QED
      BY <2>1 DEF Compressed, Item
<1>7. Shape(T, h, n, d, g, l, t)
  <2>1. \A i \in 1 .. g - 1 - l : QuadItem(T[i], d)
      BY <1>2, <1>3
  <2>2. \A i \in g + 1 .. h - t : QuadItem(T[i], d)
    <3> SUFFICES ASSUME NEW i \in g + 1 .. h - t PROVE QuadItem(T[i], d)
        OBVIOUS
    <3>1. i - g \in 1 .. a /\ g + (i - g) = i
        BY <1>1, <1>2
    <3>2. QuadItem(T[g + (i - g)], d)
        BY <1>4, <3>1
    <3> QED
        BY <3>1, <3>2
  <2>3. (g - 1 - l) + (h - g - t) < n
      BY <1>2
  <2> QED
      BY <1>1, <1>2, <1>5, <1>6, <2>1, <2>2, <2>3 DEF Shape
<1>8. PICK w : w = AllQuads(T, h, n, g, l, t)
    OBVIOUS
<1>9. IsList(w, n) /\ \A j \in 1 .. n : w[j] = IF j <= b THEN QuadAt(T, j) ELSE IF j <= n - a THEN 0
                                               ELSE QuadAt(T, j - n + h - t)
    BY <1>2, <1>8 DEF AllQuads, IsList
<1>10. ASSUME NEW j \in 1 .. n PROVE w[j] = Q[j]
  <2>1. CASE j <= b
    <3>1. j \in 1 .. b
        BY <1>1, <2>1
    <3> QED
        BY <1>3, <1>9, <2>1, <3>1
  <2>2. CASE ~(j <= b) /\ j <= n - a
    <3>1. j - b \in 1 .. z /\ b + (j - b) = j
        BY <1>1, <1>2, <2>2
    <3>2. Q[b + (j - b)] = 0
        BY <3>1
    <3> QED
        BY <1>9, <2>2, <3>1, <3>2
  <2>3. CASE ~(j <= b) /\ ~(j <= n - a)
    <3>1. PICK i \in 1 .. a : i = j - (n - a)
        BY <1>1, <1>2, <2>3
    <3>2. j - n + h - t = g + i /\ b + z + i = j
        BY <1>1, <1>2, <3>1
    <3>3. w[j] = QuadAt(T, g + i)
        BY <1>9, <2>3, <3>2
    <3> QED
        BY <1>4, <3>2, <3>3
  <2> QED
      BY <2>1, <2>2, <2>3
<1>11. w = Q
    BY <1>2, <1>9, <1>10, SameList DEF QuadList
<1> QED
    BY <1>7, <1>8, <1>11

LEMMA EmptyList ==
    ASSUME NEW m \in Nat, NEW u, IsList(u, m)
    PROVE  u = <<>> <=> m = 0
<1>1. PICK S : u \in Seq(S) /\ Len(u) = m
    BY ListIsSeq
<1>2. Len(<<>>) = 0
    OBVIOUS
<1>3. u # <<>> => Len(u) \in Nat \ {0}
    BY <1>1, EmptySeq, Zenon
<1> QED
    BY <1>1, <1>2, <1>3

\* The run that is left out.
Run(Q, n, r) ==
    /\ r[1] \in 1 .. n /\ r[2] \in 2 .. n /\ r[1] + r[2] - 1 <= n
    /\ \A i \in 1 .. r[2] : Q[r[1] - 1 + i] = 0

LEMMA ZeroRun ==
    ASSUME NEW n \in Nat, NEW Q, IsList(Q, n), find_zero_sequence(Q) # {},
           NEW r, r = CHOOSE z \in find_zero_sequence(Q) : TRUE
    PROVE  /\ Run(Q, n, r)
           /\ ends_with_deflated(Q) <=> r[1] + r[2] > n
<1>1. r \in find_zero_sequence(Q)
    BY Zenon
<1>2. Len(Q) = n /\ DOMAIN Q = 1 .. n
    BY ListIsSeq
<1>3. ASSUME NEW s \in find_zero_sequence(Q)
      PROVE  /\ s[1] \in 1 .. n /\ s[2] \in 2 .. n /\ s[1] + s[2] - 1 <= n
             /\ \A i \in s[1] .. s[1] + s[2] - 1 : Q[i] = 0
             /\ \A u \in find_zero_sequence(Q) : u[2] < s[2] \/ (u[2] = s[2] /\ s[1] <= u[1])
    BY <1>2 DEF find_zero_sequence
<1>4. Run(Q, n, r)
  <2>1. ASSUME NEW i \in 1 .. r[2] PROVE Q[r[1] - 1 + i] = 0
    <3>1. r[1] \in 1 .. n /\ r[2] \in 2 .. n /\ \A k \in r[1] .. r[1] + r[2] - 1 : Q[k] = 0
        BY <1>1, <1>3
    <3>2. r[1] - 1 + i \in r[1] .. r[1] + r[2] - 1
        BY <3>1
    <3> QED
        BY <3>1, <3>2
  <2> QED
      BY <1>1, <1>3, <2>1 DEF Run
<1>5. ASSUME NEW s \in find_zero_sequence(Q) PROVE s[1] = r[1] /\ s[2] = r[2]
  <2>1. /\ s[1] \in Int /\ s[2] \in Int /\ r[1] \in Int /\ r[2] \in Int
        /\ r[2] < s[2] \/ (r[2] = s[2] /\ s[1] <= r[1])
        /\ s[2] < r[2] \/ (s[2] = r[2] /\ r[1] <= s[1])
      BY <1>1, <1>3
  <2> QED
      BY <2>1
<1>6. ends_with_deflated(Q) <=> r[1] + r[2] > n
    BY <1>1, <1>2, <1>5 DEF ends_with_deflated
<1> QED
    BY <1>4, <1>6

\* What deflated writes around the run.
Around(before, after, d, then) ==
    Row(before, 16, d, d) \o <<Item(<<>>, d)>>
        \o (IF before = <<>> THEN <<Item(<<>>, d)>> ELSE <<>>)
        \o (IF after = <<>> THEN <<Item(<<>>, then)>> ELSE Row(after, 16, d, then))

AroundRun(Q, r, d, then) ==
    Around(SubSeq(Q, 1, r[1] - 1), SubSeq(Q, r[1] + r[2], Len(Q)), d, then)

LEMMA DeflatedIs ==
    ASSUME NEW Q, find_zero_sequence(Q) # {}, NEW d, NEW then
    PROVE  deflated(Q, d, then) = AroundRun(Q, CHOOSE z \in find_zero_sequence(Q) : TRUE, d, then)
  BY Zenon DEF deflated, AroundRun, Around

LEMMA DeflatedText ==
    ASSUME NEW n \in Nat, NEW Q, IsList(Q, n), find_zero_sequence(Q) # {},
           NEW d, NEW then, NEW T, T = deflated(Q, d, then)
    PROVE  \E b, z, a, l, t :
              /\ Compressed(T, Q, n, d, then, b, z, a, l, t)
              /\ IsList(T, b + 1 + l + a + t)
              /\ \A i \in 1 .. z : Q[b + i] = 0
              /\ t = 1 <=> a = 0
              /\ t = 1 <=> ends_with_deflated(Q)
<1>1. PICK r : r = CHOOSE z \in find_zero_sequence(Q) : TRUE
    OBVIOUS
<1>2. Run(Q, n, r) /\ (ends_with_deflated(Q) <=> r[1] + r[2] > n)
    BY <1>1, ZeroRun
<1>3. PICK b \in Nat : b = r[1] - 1
    BY <1>2 DEF Run
<1>4. PICK z \in Nat : z = r[2]
    BY <1>2 DEF Run
<1>5. b + z <= n /\ z >= 2
    BY <1>2, <1>3, <1>4 DEF Run
<1>6. PICK a \in Nat : a = n - b - z
    BY <1>5
<1>7. PICK l \in {0, 1} : l = 1 <=> b = 0
    OBVIOUS
<1>8. PICK t \in {0, 1} : t = 1 <=> a = 0
    OBVIOUS
<1>9. PICK before : before = SubSeq(Q, 1, r[1] - 1)
    OBVIOUS
<1>10. PICK after : after = SubSeq(Q, r[1] + r[2], Len(Q))
    OBVIOUS
<1>11. /\ IsList(before, b) /\ \A i \in 1 .. b : before[i] = Q[i]
       /\ before = <<>> <=> b = 0
  <2>1. 1 \in 1 .. n + 1 /\ 1 + b <= n + 1 /\ r[1] - 1 = 1 + b - 1
      BY <1>2, <1>3, <1>5 DEF Run
  <2>2. IsList(before, b) /\ \A i \in 1 .. b : before[i] = Q[1 - 1 + i]
      BY <1>9, <2>1, SubList
  <2>3. \A i \in 1 .. b : 1 - 1 + i = i
      OBVIOUS
  <2> QED
      BY <2>2, <2>3, EmptyList
<1>12. /\ IsList(after, a) /\ \A i \in 1 .. a : after[i] = Q[b + z + i]
       /\ after = <<>> <=> a = 0
  <2>1. PICK i : i = r[1] + r[2]
      OBVIOUS
  <2>2. r[1] \in Int /\ r[2] \in Int
      BY <1>2 DEF Run
  <2>3. i = b + 1 + z
      BY <1>3, <1>4, <2>1, <2>2
  <2>4. Len(Q) = n
      BY ListIsSeq
  <2>5. i \in 1 .. n + 1 /\ i + a <= n + 1 /\ n = i + a - 1 /\ i - 1 = b + z
      BY <1>5, <1>6, <2>3
  <2>6. IsList(after, a) /\ \A k \in 1 .. a : after[k] = Q[i - 1 + k]
    <3>1. after = SubSeq(Q, i, n)
        BY <1>10, <2>1, <2>4
    <3>2. PICK j : j = n
        OBVIOUS
    <3>3. j = i + a - 1 /\ i + a <= n + 1 /\ i \in 1 .. n + 1
        BY <2>5, <3>2
    <3> HIDE <3>2
    <3>4. /\ IsList(SubSeq(Q, i, j), a)
          /\ \A k \in 1 .. a : SubSeq(Q, i, j)[k] = Q[i - 1 + k]
        BY <3>3, SubList
    <3> QED
        BY <3>1, <3>2, <3>4, Zenon
  <2> QED
      BY <2>5, <2>6, EmptyList
<1>13. PICK first : first = Row(before, 16, d, d)
    OBVIOUS
<1>14. PICK empty : empty = <<Item(<<>>, d)>>
    OBVIOUS
<1>15. PICK mid : mid = IF before = <<>> THEN <<Item(<<>>, d)>> ELSE <<>>
    OBVIOUS
<1>16. PICK last : last = IF after = <<>> THEN <<Item(<<>>, then)>> ELSE Row(after, 16, d, then)
    OBVIOUS
<1>17. T = first \o empty \o mid \o last
  <2>1. T = AroundRun(Q, r, d, then)
      BY <1>1, DeflatedIs
  <2>2. T = Around(before, after, d, then)
      BY <1>9, <1>10, <2>1, Zenon DEF AroundRun
  <2> QED
      BY <1>13, <1>14, <1>15, <1>16, <2>2 DEF Around
<1>18. IsList(first, b) /\ \A i \in 1 .. b : first[i] = Item(Digits(16, Q[i]), d)
    BY <1>11, <1>13, RowItems
<1>19. IsList(empty, 1) /\ empty[1] = Item(<<>>, d)
    BY <1>14, OneItem
<1>20. IsList(mid, l) /\ (l = 1 => mid[1] = Item(<<>>, d))
  <2>1. CASE l = 1
      BY <1>7, <1>11, <1>15, <2>1, OneItem
  <2>2. CASE l = 0
    <3>1. mid = <<>>
        BY <1>7, <1>11, <1>15, <2>2
    <3> QED
        BY <2>2, <3>1 DEF IsList
  <2> QED
      BY <2>1, <2>2
<1>21. /\ IsList(last, a + t)
       /\ \A i \in 1 .. a : last[i] = Item(Digits(16, Q[b + z + i]), IF i = a THEN then ELSE d)
       /\ t = 1 => last[1] = Item(<<>>, then)
  <2>1. CASE t = 1
    <3>1. a = 0 /\ a + t = 1 /\ last = <<Item(<<>>, then)>>
        BY <1>8, <1>12, <1>16, <2>1
    <3>2. \A i \in 1 .. a : FALSE
        BY <3>1
    <3> QED
        BY <3>1, <3>2, OneItem
  <2>2. CASE t = 0
    <3>1. a + t = a /\ last = Row(after, 16, d, then)
        BY <1>8, <1>12, <1>16, <2>2
    <3>2. /\ IsList(last, a)
          /\ \A i \in 1 .. a : last[i] = Item(Digits(16, after[i]), IF i = a THEN then ELSE d)
        BY <1>12, <3>1, RowItems
    <3> QED
        BY <1>12, <2>2, <3>1, <3>2
  <2> QED
      BY <2>1, <2>2
<1>22. PICK x : x = first \o empty
    OBVIOUS
<1>23. /\ IsList(x, b + 1) /\ x[b + 1] = Item(<<>>, d)
       /\ \A i \in 1 .. b : x[i] = first[i]
  <2>1. Join(x, first, empty, b, 1)
      BY <1>18, <1>19, <1>22, Joined
  <2>2. 1 \in 1 .. 1
      OBVIOUS
  <2> QED
      BY <1>19, <2>1, <2>2 DEF Join
<1>24. PICK y : y = x \o mid
    OBVIOUS
<1>25. /\ IsList(y, b + 1 + l) /\ \A i \in 1 .. b + 1 : y[i] = x[i]
       /\ \A i \in 1 .. l : y[b + 1 + i] = mid[i]
  <2>1. b + 1 \in Nat /\ l \in Nat
      OBVIOUS
  <2>2. Join(y, x, mid, b + 1, l)
      BY <1>20, <1>23, <1>24, <2>1, Joined
  <2> QED
      BY <2>2 DEF Join
<1>26. /\ IsList(T, b + 1 + l + (a + t)) /\ \A i \in 1 .. b + 1 + l : T[i] = y[i]
       /\ \A i \in 1 .. a + t : T[b + 1 + l + i] = last[i]
  <2>1. b + 1 + l \in Nat /\ a + t \in Nat /\ T = y \o last
      BY <1>17, <1>22, <1>24
  <2>2. Join(T, y, last, b + 1 + l, a + t)
      BY <1>21, <1>25, <2>1, Joined
  <2> QED
      BY <2>2 DEF Join
<1>27. IsList(T, b + 1 + l + a + t)
  <2>1. b + 1 + l + (a + t) = b + 1 + l + a + t
      OBVIOUS
  <2> QED
      BY <1>26, <2>1
<1>28. ASSUME NEW i \in 1 .. b PROVE T[i] = Item(Digits(16, Q[i]), d)
  <2>1. i \in 1 .. b + 1 /\ i \in 1 .. b + 1 + l
      OBVIOUS
  <2> QED
      BY <1>18, <1>23, <1>25, <1>26, <2>1
<1>29. ASSUME NEW i \in 1 .. 1 + l PROVE T[b + i] = Item(<<>>, d)
  <2>1. b + i \in 1 .. b + 1 + l
      OBVIOUS
  <2>2. T[b + i] = y[b + i]
      BY <1>26, <2>1
  <2>3. CASE i = 1
    <3>1. b + 1 \in 1 .. b + 1
        OBVIOUS
    <3>2. y[b + 1] = Item(<<>>, d)
        BY <1>23, <1>25, <3>1
    <3> QED
        BY <2>2, <2>3, <3>2
  <2>4. CASE i # 1
    <3>1. i = 2 /\ l = 1 /\ b + i = b + 1 + 1 /\ 1 \in 1 .. l
        BY <2>4
    <3>2. y[b + 1 + 1] = Item(<<>>, d)
        BY <1>20, <1>25, <3>1
    <3> QED
        BY <2>2, <3>1, <3>2
  <2> QED
      BY <2>3, <2>4
<1>30. ASSUME NEW i \in 1 .. a
       PROVE  T[b + 1 + l + i] = Item(Digits(16, Q[b + z + i]), IF i = a THEN then ELSE d)
  <2>1. i \in 1 .. a + t
      OBVIOUS
  <2> QED
      BY <1>21, <1>26, <2>1
<1>31. t = 1 => T[b + 1 + l + 1] = Item(<<>>, then)
  <2>1. t = 1 => 1 \in 1 .. a + t
      OBVIOUS
  <2> QED
      BY <1>21, <1>26, <2>1
<1>32. Compressed(T, Q, n, d, then, b, z, a, l, t)
  <2>1. z >= 1 /\ b + z + a = n /\ (t = 1 => a = 0)
      BY <1>5, <1>6, <1>8
  <2> QED
      BY <1>7, <1>28, <1>29, <1>30, <1>31, <2>1 DEF Compressed
<1>33. \A i \in 1 .. z : Q[b + i] = 0
    BY <1>2, <1>3, <1>4 DEF Run
<1>34. t = 1 <=> ends_with_deflated(Q)
  <2>1. r[1] + r[2] > n <=> a = 0
      BY <1>2, <1>3, <1>4, <1>6, <1>5 DEF Run
  <2> QED
      BY <1>2, <1>8, <2>1
<1> QED
    BY <1>8, <1>27, <1>32, <1>33, <1>34

(***************************************************************************)
(* A text that is read as the quads Q: a list of items that ends with then *)
(* and is an address.                                                      *)
(***************************************************************************)
Readable(T, Q, then) ==
    \E m, h, n, d, g, l, t :
        /\ m \in Nat /\ IsList(T, m) /\ Len(T) = m /\ m # 0 /\ Ended(T) /\ T[m].then = then
        /\ Address(T, Q, h, n, d, g, l, t)

LEMMA EndedList ==
    ASSUME NEW m \in Nat, m # 0, NEW T, IsList(T, m), T[m].then \in Ends,
           \A i \in 1 .. m - 1 : T[i].then \notin Ends
    PROVE  Ended(T) /\ Len(T) = m
<1>1. Len(T) = m
    BY ListIsSeq
<1>2. T # <<>>
    BY EmptyList
<1> QED
    BY <1>1, <1>2 DEF Ended

\* A text that is an address, read from the start.
LEMMA ReadableRead ==
    ASSUME NEW T, NEW Q, NEW then, Readable(T, Q, then),
           NEW kind, kind = "host" \/ then = "/",
           NEW at, at[0] = Start("ipv6", kind), Steps(at, T, Len(T)),
           NEW q, q = at[Len(T)]
    PROVE  /\ q.status = IF kind = "host" THEN "done" ELSE "slash"
           /\ Numbers6(q) = Q
           /\ DOMAIN q = Parts /\ q.version = "ipv6" /\ q.kind = kind /\ q.mask = 0
<1>1. PICK m, h, n, d, g, l, t :
        /\ m \in Nat /\ IsList(T, m) /\ Len(T) = m /\ m # 0 /\ Ended(T) /\ T[m].then = then
        /\ Address(T, Q, h, n, d, g, l, t)
    BY Zenon DEF Readable
<1>2. PICK S : T \in Seq(S)
    BY <1>1, ListIsSeq
<1>3. kind = "host" \/ T[Len(T)].then = "/"
    BY <1>1, Zenon
<1>4. Ended(T) /\ Address(T, Q, h, n, d, g, l, t)
    BY <1>1, Zenon
<1> QED
    BY <1>2, <1>3, <1>4, AddressRead

\* Reading a host back.
LEMMA HostBack ==
    ASSUME NEW T, NEW Q, NEW then, Readable(T, Q, then),
           NEW o, o = [version |-> "ipv6", kind |-> "host", mask |-> 0, numbers |-> Q]
    PROVE  ReadBack(o, T)
<1>1. PICK m, h, n, d, g, l, t :
        /\ m \in Nat /\ IsList(T, m) /\ Len(T) = m /\ m # 0 /\ Ended(T) /\ T[m].then = then
        /\ Address(T, Q, h, n, d, g, l, t)
    BY DEF Readable
<1>2. PICK S : T \in Seq(S) /\ DOMAIN T = 1 .. m
    BY <1>1, ListIsSeq
<1>3. PICK s : s = Start("ipv6", "host")
    OBVIOUS
<1>4. PICK at : /\ at[0] = s /\ at[m] = ReadAll(s, T)
                /\ \A i \in 0 .. m - 1 : at[i + 1] = ReadOne(at[i], T[i + 1])
    BY <1>1, <1>2, ReadByItems
<1>5. PICK q : q = at[Len(T)]
    OBVIOUS
<1>6. Steps(at, T, Len(T)) /\ at[0] = Start("ipv6", "host")
    BY <1>1, <1>3, <1>4 DEF Steps
<1>7. PICK kind : kind = "host"
    OBVIOUS
<1>8. /\ q.status = IF kind = "host" THEN "done" ELSE "slash"
      /\ Numbers6(q) = Q
      /\ DOMAIN q = Parts /\ q.version = "ipv6" /\ q.kind = kind /\ q.mask = 0
  <2>1. at[0] = Start("ipv6", kind) /\ (kind = "host" \/ T[Len(T)].then = "/")
      BY <1>6, <1>7
  <2> QED
      BY <1>1, <1>2, <1>5, <1>6, <2>1, AddressRead
<1>9. Object(q) = o
    BY <1>7, <1>8 DEF Object
<1>10. q = ReadAll(Start(o.version, o.kind), T)
    BY <1>1, <1>3, <1>4, <1>5
<1>11. Streamed(q, o.mask) = o
    BY <1>7, <1>8, <1>9 DEF Streamed
<1> QED
    BY <1>7, <1>8, <1>9, <1>10, <1>11 DEF ReadBack

\* Bytes and mask lengths, written with decimal digits.
LEMMA DecimalWritten ==
    ASSUME NEW v \in Nat, v <= 999, NEW word, word = Digits(10, v)
    PROVE  /\ IsDecimal(word) /\ DecimalPrefix(word) = word /\ word # <<>>
           /\ Len(word) \in 1 .. 3 /\ Value(word, 10) = v
<1>1. word \in Seq(0 .. 9) /\ Len(word) \in 1 .. 3 /\ Value(word, 10) = v
    BY DigitsAreRead DEF HasDigits
<1>2. IsDecimal(word)
  <2>1. \A i \in DOMAIN word : word[i] \in 0 .. 9
      BY <1>1, LenProperties, ElementOfSeq
  <2> QED
      BY <2>1 DEF IsDecimal
<1>3. DecimalPrefix(word) = word
    BY <1>2 DEF DecimalPrefix
<1>4. word # <<>>
  <2>1. word = <<>> => Len(word) = 0
      OBVIOUS
  <2>2. PICK len : len = Len(word)
      OBVIOUS
  <2>3. len \in 1 .. 3
      BY <1>1, <2>2, Zenon
  <2>4. len # 0
      BY <2>3
  <2> QED
      BY <2>1, <2>2, <2>4, Zenon
<1> QED
    BY <1>1, <1>2, <1>3, <1>4

LEMMA MaskBack ==
    ASSUME NEW q, DOMAIN q = Parts, q.status = "slash", q.version \in {"ipv4", "ipv6"},
           NEW mask \in Nat, mask <= Limit(q.version),
           NEW item, item = Item(Digits(10, mask), "end")
    PROVE  ReadOne(q, item) = [q EXCEPT !.status = "done", !.mask = mask]
<1>1. mask <= 999 /\ ~(mask > Limit(q.version))
    BY DEF Limit
<1>2. PICK word : word = Digits(10, mask)
    OBVIOUS
<1>3. DecimalPrefix(word) = word /\ word # <<>> /\ Value(word, 10) = mask
    BY <1>1, <1>2, DecimalWritten
<1>4. MaskRead(q, word) = [q EXCEPT !.status = "done", !.mask = mask]
    BY <1>1, <1>3 DEF MaskRead
<1>5. item.word = word
    BY <1>2 DEF Item
<1> QED
    BY <1>4, <1>5 DEF ReadOne, Read

\* The parser before and after each item of a text.
Trace(at, q, text, n) ==
    /\ at[0] = q /\ at[n] = ReadAll(q, text)
    /\ \A i \in 0 .. n - 1 : at[i + 1] = ReadOne(at[i], text[i + 1])

LEMMA ListRead ==
    ASSUME NEW q, NEW n \in Nat, NEW text, IsList(text, n)
    PROVE  \E at : Trace(at, q, text, n)
<1>1. PICK S : text \in Seq(S) /\ DOMAIN text = 1 .. n
    BY ListIsSeq
<1> QED
    BY <1>1, ReadByItems DEF Trace

\* Reading a network back.
LEMMA NetworkBack ==
    ASSUME NEW T, NEW Q, Readable(T, Q, "/"), NEW mask \in Nat, mask <= 128,
           MaskedNumbers(Q, 16, mask) = Q,
           NEW o, o = [version |-> "ipv6", kind |-> "network", mask |-> mask, numbers |-> Q],
           NEW W, W = T \o <<Item(Digits(10, mask), "end")>>
    PROVE  ReadBack(o, W)
<1>1. PICK m, h, n, d, g, l, t :
        /\ m \in Nat /\ IsList(T, m) /\ Len(T) = m /\ m # 0 /\ Ended(T) /\ T[m].then = "/"
        /\ Address(T, Q, h, n, d, g, l, t)
    BY DEF Readable
<1>2. PICK S : T \in Seq(S) /\ DOMAIN T = 1 .. m
    BY <1>1, ListIsSeq
<1>3. PICK s : s = Start("ipv6", "network")
    OBVIOUS
<1>4. PICK item : item = Item(Digits(10, mask), "end")
    OBVIOUS
<1>5. /\ IsList(W, m + 1) /\ W[m + 1] = item
      /\ \A i \in 1 .. m : W[i] = T[i]
  <2>1. PICK e : e = <<item>>
      OBVIOUS
  <2>2. IsList(e, 1) /\ e[1] = item /\ W = T \o e
      BY <1>4, <2>1, OneItem
  <2>3. Join(W, T, e, m, 1)
      BY <1>1, <2>2, Joined
  <2>4. 1 \in 1 .. 1
      OBVIOUS
  <2> QED
      BY <2>2, <2>3, <2>4 DEF Join
<1>6. PICK k \in Nat : k = m + 1
    BY <1>1
<1>7. IsList(W, k)
    BY <1>5, <1>6
<1>8. PICK at : Trace(at, s, W, k)
    BY <1>7, ListRead, Zenon
<1>9. Steps(at, T, Len(T)) /\ at[0] = Start("ipv6", "network")
  <2>1. \A i \in 0 .. m - 1 : i \in 0 .. k - 1 /\ i + 1 \in 1 .. m
      BY <1>1, <1>6
  <2> QED
      BY <1>1, <1>3, <1>5, <1>8, <2>1 DEF Steps, Trace
<1>10. PICK q : q = at[Len(T)]
    OBVIOUS
<1>11. PICK kind : kind = "network"
    OBVIOUS
<1>12. /\ q.status = IF kind = "host" THEN "done" ELSE "slash"
       /\ Numbers6(q) = Q
       /\ DOMAIN q = Parts /\ q.version = "ipv6" /\ q.kind = kind /\ q.mask = 0
  <2>1. at[0] = Start("ipv6", kind) /\ (kind = "host" \/ "/" = "/")
      BY <1>9, <1>11
  <2>2. Steps(at, T, Len(T))
      BY <1>9
  <2> QED
      BY <1>10, <2>1, <2>2, ReadableRead
<1>13. PICK r : r = [q EXCEPT !.status = "done", !.mask = mask]
    OBVIOUS
<1>14. r = ReadAll(Start(o.version, o.kind), W)
  <2>1. m \in 0 .. k - 1 /\ q = at[m]
      BY <1>1, <1>6, <1>10
  <2>2. at[k] = ReadOne(q, item)
    <3>1. at[m + 1] = ReadOne(at[m], W[m + 1])
        BY <1>8, <2>1 DEF Trace
    <3> QED
        BY <1>5, <1>6, <2>1, <3>1
  <2>3. ReadOne(q, item) = r
    <3>1. q.status = "slash" /\ mask <= Limit(q.version)
        BY <1>11, <1>12 DEF Limit
    <3>2. DOMAIN q = Parts /\ q.version \in {"ipv4", "ipv6"}
        BY <1>12
    <3>3. ReadOne(q, item) = [q EXCEPT !.status = "done", !.mask = mask]
        BY <1>4, <3>1, <3>2, MaskBack, Zenon
    <3> QED
        BY <1>13, <3>3
  <2> QED
      BY <1>3, <1>8, <2>2, <2>3 DEF Trace
<1>15. /\ r.status = "done" /\ r.mask = mask /\ r.version = "ipv6" /\ r.kind = "network"
       /\ r.quads = q.quads /\ r.decimals = q.decimals
    BY <1>11, <1>12, <1>13 DEF Parts
<1>16. Numbers6(r) = Q
  <2>1. Numbers6(r) = Numbers6(q)
      BY <1>15, Zenon DEF Numbers6
  <2> QED
      BY <1>12, <2>1
<1>17. Object(r) = o
    BY <1>15, <1>16 DEF Object
<1>18. Streamed(r, o.mask) = o
    BY <1>15, <1>17 DEF Streamed
<1> QED
    BY <1>14, <1>15, <1>17, <1>18 DEF ReadBack

\* Which items of a compressed address end with a delimiter.
LEMMA CompressedDelimits ==
    ASSUME NEW T, NEW Q, NEW n, NEW d, NEW then, NEW b, NEW z, NEW a, NEW l, NEW t,
           Compressed(T, Q, n, d, then, b, z, a, l, t), t = 1 <=> a = 0,
           NEW m, m = b + 1 + l + a + t
    PROVE  /\ m \in Nat /\ m # 0 /\ T[m].then = then
           /\ \A i \in 1 .. m - 1 : T[i].then = d
<1>1. b \in Nat /\ a \in Nat /\ l \in {0, 1} /\ t \in {0, 1} /\ (t = 1 => a = 0)
    BY DEF Compressed
<1>2. m \in Nat /\ m # 0
    BY <1>1
<1>3. T[m].then = then
  <2>1. CASE t = 1
    <3>1. m = b + 1 + l + 1
        BY <1>1, <2>1
    <3>2. T[b + 1 + l + 1] = Item(<<>>, then)
        BY <2>1 DEF Compressed
    <3> QED
        BY <3>1, <3>2 DEF Item
  <2>2. CASE t = 0
    <3>1. m = b + 1 + l + a /\ a \in 1 .. a
        BY <1>1, <2>2
    <3>2. T[b + 1 + l + a] = Item(Digits(16, Q[b + z + a]), then)
        BY <3>1 DEF Compressed
    <3> QED
        BY <3>1, <3>2 DEF Item
  <2> QED
      BY <1>1, <2>1, <2>2
<1>4. ASSUME NEW i \in 1 .. m - 1 PROVE T[i].then = d
  <2>1. CASE i <= b
    <3>1. i \in 1 .. b
        BY <1>1, <2>1
    <3>2. T[i] = Item(Digits(16, Q[i]), d)
        BY <3>1 DEF Compressed
    <3> QED
        BY <3>2 DEF Item
  <2>2. CASE ~(i <= b) /\ i <= b + 1 + l
    <3>1. PICK k \in 1 .. 1 + l : b + k = i
      <4>1. i - b \in 1 .. 1 + l /\ b + (i - b) = i
          BY <1>1, <2>2
      <4> QED
          BY <4>1
    <3>2. T[b + k] = Item(<<>>, d)
        BY DEF Compressed
    <3> QED
        BY <3>1, <3>2 DEF Item
  <2>3. CASE ~(i <= b + 1 + l)
    <3>1. t = 0
        BY <1>1, <2>3
    <3>2. PICK k \in 1 .. a : b + 1 + l + k = i /\ k # a
      <4>1. PICK k \in Int : k = i - (b + 1 + l)
          BY <1>1
      <4>2. k \in 1 .. a /\ b + 1 + l + k = i /\ k # a
          BY <1>1, <2>3, <3>1, <4>1
      <4> QED
          BY <4>2
    <3>3. T[b + 1 + l + k] = Item(Digits(16, Q[b + z + k]), d)
        BY <3>2 DEF Compressed
    <3> QED
        BY <3>2, <3>3 DEF Item
  <2> QED
      BY <2>1, <2>2, <2>3
<1> QED
    BY <1>2, <1>3, <1>4

LEMMA ExpandedReadable ==
    ASSUME NEW Q, QuadList(Q, 8), NEW then \in Ends, NEW T, T = expanded(Q, then)
    PROVE  Readable(T, Q, then)
<1>1. IsList(Q, 8) /\ 8 \in Nat
    BY DEF QuadList
<1>2. /\ IsList(T, 8)
      /\ \A i \in 1 .. 8 : T[i] = Item(Digits(16, Q[i]), IF i = 8 THEN then ELSE ":")
    BY <1>1, RowItems DEF expanded
<1>3. T[8].then = then /\ \A i \in 1 .. 8 - 1 : T[i].then = ":"
    BY <1>2 DEF Item
<1>4. ":" \notin Ends
    BY DEF Ends
<1>5. Ended(T) /\ Len(T) = 8
  <2>1. PICK m \in Nat : m = 8
      OBVIOUS
  <2>2. m # 0 /\ IsList(T, m) /\ T[m].then \in Ends /\ \A i \in 1 .. m - 1 : T[i].then \notin Ends
      BY <1>2, <1>3, <1>4, <2>1
  <2> HIDE <2>1
  <2>3. Ended(T) /\ Len(T) = m
      BY <2>2, EndedList
  <2> QED
      BY <2>1, <2>3
<1>6. Shape(T, 8, 8, ":", 8 + 1, 0, 0) /\ AllQuads(T, 8, 8, 8 + 1, 0, 0) = Q
    BY <1>2, ExpandedShape
<1>7. Address(T, Q, 8, 8, ":", 8 + 1, 0, 0)
    BY <1>5, <1>6 DEF Address
<1> QED
    BY <1>1, <1>2, <1>3, <1>5, <1>7 DEF Readable

LEMMA DeflatedReadable ==
    ASSUME NEW Q, QuadList(Q, 8), NEW d \in {":", "-"}, NEW then \in Ends,
           NEW T, T = deflated(Q, d, then)
    PROVE  Readable(T, Q, then)
<1>1. CASE find_zero_sequence(Q) = {}
    BY <1>1, ExpandedReadable, Zenon DEF deflated
<1>2. CASE find_zero_sequence(Q) # {}
  <2>1. IsList(Q, 8) /\ 8 \in Nat
      BY DEF QuadList
  <2>2. PICK b, z, a, l, t :
          /\ Compressed(T, Q, 8, d, then, b, z, a, l, t)
          /\ IsList(T, b + 1 + l + a + t)
          /\ \A i \in 1 .. z : Q[b + i] = 0
          /\ t = 1 <=> a = 0
      BY <1>2, <2>1, DeflatedText
  <2>3. PICK g : g = b + 1 + l
      OBVIOUS
  <2>4. PICK h : h = g + a + t
      OBVIOUS
  <2>5. IsList(T, h) /\ h = b + 1 + l + a + t
      BY <2>2, <2>3, <2>4
  <2>6. /\ h \in Nat /\ h # 0 /\ T[h].then = then
        /\ \A i \in 1 .. h - 1 : T[i].then = d
      BY <2>2, <2>5, CompressedDelimits
  <2>7. Ended(T) /\ Len(T) = h
    <3>1. d \notin Ends
        BY DEF Ends
    <3> QED
        BY <2>5, <2>6, <3>1, EndedList
  <2>8. Shape(T, h, 8, d, g, l, t) /\ AllQuads(T, h, 8, g, l, t) = Q
    <3>1. 8 \in {6, 8} /\ then \in {d} \cup Ends
        OBVIOUS
    <3> QED
        BY <2>2, <2>3, <2>4, <3>1, CompressedShape
  <2>9. Address(T, Q, h, 8, d, g, l, t)
      BY <2>7, <2>8 DEF Address
  <2> QED
      BY <2>5, <2>6, <2>7, <2>9, Zenon DEF Readable
<1> QED
    BY <1>1, <1>2

\* The bytes of the last two quads, and the items they are written as.
TwoBytes(x, q, d) == q \in Nat /\ q <= 255 /\ d \in Nat /\ d <= 255 /\ 256 * q + d = x

LEMMA BytesOfQuads ==
    ASSUME NEW x \in Nat, x <= MaxQuad
    PROVE  TwoBytes(x, x \div 256, x % 256)
<1>1. PICK q \in Int : q = x \div 256
    OBVIOUS
<1>2. PICK d \in Int : d = x % 256
    OBVIOUS
<1>3. TwoBytes(x, q, d)
    BY <1>1, <1>2, MaxQuadIs DEF TwoBytes
<1> QED
    BY <1>1, <1>2, <1>3, Zenon

LEMMA BytesWritten ==
    ASSUME NEW v, IsList(v, 4), \A i \in 1 .. 4 : v[i] \in Nat /\ v[i] <= 255,
           NEW tail, tail = Row(v, 10, ".", "end")
    PROVE  /\ IsList(tail, 4)
           /\ \A i \in 1 .. 4 : /\ tail[i].then = IF i = 4 THEN "end" ELSE "."
                                /\ DecimalItem(tail[i]) /\ Value(tail[i].word, 10) = v[i]
<1>1. /\ IsList(tail, 4)
      /\ \A i \in 1 .. 4 : tail[i] = Item(Digits(10, v[i]), IF i = 4 THEN "end" ELSE ".")
  <2>1. 4 \in Nat
      OBVIOUS
  <2> QED
      BY <2>1, RowItems
<1>2. ASSUME NEW i \in 1 .. 4
      PROVE  /\ tail[i].then = IF i = 4 THEN "end" ELSE "."
             /\ DecimalItem(tail[i]) /\ Value(tail[i].word, 10) = v[i]
  <2>1. PICK x : x = v[i]
      OBVIOUS
  <2>2. x \in Nat /\ x <= 255 /\ x <= 999
      BY <2>1
  <2>3. PICK word : word = Digits(10, x)
      OBVIOUS
  <2>4. tail[i] = Item(word, IF i = 4 THEN "end" ELSE ".")
      BY <1>1, <2>1, <2>3
  <2>5. tail[i].word = word /\ tail[i].then = IF i = 4 THEN "end" ELSE "."
      BY <2>4 DEF Item
  <2>6. IsDecimal(word) /\ Len(word) \in 1 .. 3 /\ Value(word, 10) = x
      BY <2>2, <2>3, DecimalWritten
  <2>7. x \in 0 .. 255
      BY <2>2
  <2>8. DecimalItem(tail[i])
      BY <2>5, <2>6, <2>7, Zenon DEF DecimalItem
  <2> QED
      BY <2>1, <2>5, <2>6, <2>8, Zenon
<1> QED
    BY <1>1, <1>2

\* The text of six quads, with a colon after each.
HeadText(H, h, g, l, head) ==
    /\ h \in Nat /\ IsList(H, h) /\ \A i \in 1 .. h : H[i].then = ":"
    /\ Shape(H, h, 6, ":", g, l, 0) /\ AllQuads(H, h, 6, g, l, 0) = head

SameItems(H, T, h) == \A i \in 1 .. h : H[i] = T[i]

LEMMA HeadOfText ==
    ASSUME NEW H, NEW h, NEW g, NEW l, NEW head, HeadText(H, h, g, l, head),
           NEW T, SameItems(H, T, h)
    PROVE  Shape(T, h, 6, ":", g, l, 0) /\ AllQuads(T, h, 6, g, l, 0) = head
<1>1. Shape(H, h, 6, ":", g, l, 0) /\ AllQuads(H, h, 6, g, l, 0) = head
    BY DEF HeadText
<1> QED
    BY <1>1, SameShape DEF SameItems

\* An address with its last two quads as decimals.
LEMMA DottedReadable ==
    ASSUME NEW Q, QuadList(Q, 8), NEW H, NEW h, NEW g, NEW l, HeadText(H, h, g, l, SubSeq(Q, 1, 6)),
           NEW T, T = H \o Row(LastBytes(Q), 10, ".", "end")
    PROVE  Readable(T, Q, "end")
<1>0. /\ h \in Nat /\ IsList(H, h) /\ \A i \in 1 .. h : H[i].then = ":"
      /\ Shape(H, h, 6, ":", g, l, 0) /\ AllQuads(H, h, 6, g, l, 0) = SubSeq(Q, 1, 6)
    BY DEF HeadText
<1>a. PICK tail : tail = Row(LastBytes(Q), 10, ".", "end")
    OBVIOUS
<1>1. IsList(Q, 8) /\ Q[7] \in Nat /\ Q[8] \in Nat /\ Q[7] <= MaxQuad /\ Q[8] <= MaxQuad
    BY DEF QuadList
<1>2. PICK v : v = LastBytes(Q)
    OBVIOUS
<1>3. /\ v[1] = Q[7] \div 256 /\ v[2] = Q[7] % 256
      /\ v[3] = Q[8] \div 256 /\ v[4] = Q[8] % 256
      /\ IsList(v, 4)
    BY <1>2 DEF LastBytes, IsList
<1>4. TwoBytes(Q[7], v[1], v[2]) /\ TwoBytes(Q[8], v[3], v[4])
  <2>1. TwoBytes(Q[7], Q[7] \div 256, Q[7] % 256) /\ TwoBytes(Q[8], Q[8] \div 256, Q[8] % 256)
      BY <1>1, BytesOfQuads, Zenon
  <2> QED
      BY <1>3, <2>1, Zenon
<1>5. \A i \in 1 .. 4 : v[i] \in Nat /\ v[i] <= 255
  <2>1. /\ v[1] \in Nat /\ v[1] <= 255 /\ v[2] \in Nat /\ v[2] <= 255
        /\ v[3] \in Nat /\ v[3] <= 255 /\ v[4] \in Nat /\ v[4] <= 255
      BY <1>4, Zenon DEF TwoBytes
  <2>2. \A i \in 1 .. 4 : i \in {1, 2, 3, 4}
      OBVIOUS
  <2> QED
      BY <2>1, <2>2, Zenon
<1>6. /\ IsList(tail, 4)
      /\ \A i \in 1 .. 4 : /\ tail[i].then = IF i = 4 THEN "end" ELSE "."
                           /\ DecimalItem(tail[i]) /\ Value(tail[i].word, 10) = v[i]
  <2>1. tail = Row(v, 10, ".", "end")
      BY <1>a, <1>2, Zenon
  <2> QED
      BY <1>3, <1>5, <2>1, BytesWritten
<1>7. /\ IsList(T, h + 4) /\ \A i \in 1 .. h : T[i] = H[i]
      /\ \A i \in 1 .. 4 : T[h + i] = tail[i]
  <2>1. Join(T, H, tail, h, 4)
      BY <1>0, <1>a, <1>6, Joined
  <2> QED
      BY <2>1 DEF Join
<1>8. PICK m \in Nat : m = h + 4
    BY <1>0
<1>b. PICK head : head = SubSeq(Q, 1, 6)
    OBVIOUS
<1>9. T[m].then = "end" /\ \A i \in 1 .. m - 1 : T[i].then \in {":", "."}
  <2>1. \A i \in 1 .. 4 : T[h + i].then = IF i = 4 THEN "end" ELSE "."
      BY <1>6, <1>7
  <2>2. ASSUME NEW i \in 1 .. m - 1 PROVE T[i].then \in {":", "."}
    <3>1. CASE i \in 1 .. h
        BY <1>0, <1>7, <3>1
    <3>2. CASE i \notin 1 .. h
      <4>1. PICK k \in 1 .. 3 : i = h + k
        <5>1. i - h \in 1 .. 3 /\ i = h + (i - h)
            BY <1>0, <1>8, <3>2
        <5> QED
            BY <5>1
      <4>2. k \in 1 .. 4 /\ k # 4
          OBVIOUS
      <4> QED
          BY <2>1, <4>1, <4>2
    <3> QED
        BY <3>1, <3>2
  <2>3. T[m].then = "end"
    <3>1. PICK k \in 1 .. 4 : k = 4
        OBVIOUS
    <3>2. m = h + k
        BY <1>8, <3>1
    <3> QED
        BY <2>1, <3>1, <3>2
  <2> QED
      BY <2>2, <2>3
<1>10. IsList(T, m) /\ m # 0 /\ Ended(T) /\ Len(T) = m
  <2>1. m # 0 /\ IsList(T, m)
    <3>1. IsList(T, h + 4)
        BY <1>7
    <3>2. m # 0
        BY <1>0, <1>8
    <3> QED
        BY <1>8, <3>1, <3>2, Zenon
  <2>2. T[m].then \in Ends /\ \A i \in 1 .. m - 1 : T[i].then \notin Ends
      BY <1>9 DEF Ends
  <2> HIDE <1>8
  <2>3. Ended(T) /\ Len(T) = m
      BY <2>1, <2>2, EndedList
  <2> QED
      BY <2>1, <2>3
<1>11. Shape(T, h, 6, ":", g, l, 0) /\ AllQuads(T, h, 6, g, l, 0) = head
  <2>1. SameItems(H, T, h)
      BY <1>7, Zenon DEF SameItems
  <2>2. HeadText(H, h, g, l, head)
      BY <1>b, Zenon
  <2>3. Shape(T, h, 6, ":", g, l, 0)
      BY <2>1, <2>2, HeadOfText, Zenon
  <2>4. AllQuads(T, h, 6, g, l, 0) = head
      BY <2>1, <2>2, HeadOfText, SMT
  <2> QED
      BY <2>3, <2>4
<1>12. PICK low : low = LowQuads(DecimalsRead(T, h, 4))
    OBVIOUS
<1>13. IsList(low, 2) /\ low[1] = Q[7] /\ low[2] = Q[8]
  <2>1. PICK w : w = DecimalsRead(T, h, 4)
      OBVIOUS
  <2>2. \A i \in 1 .. 4 : w[i] = v[i]
    <3>1. \A i \in 1 .. 4 : w[i] = Value(T[h + i].word, 10)
        BY <2>1 DEF DecimalsRead
    <3>2. \A i \in 1 .. 4 : T[h + i].word = tail[i].word
        BY <1>7
    <3>3. \A i \in 1 .. 4 : Value(tail[i].word, 10) = v[i]
        BY <1>6
    <3> QED
        BY <3>1, <3>2, <3>3, Zenon
  <2>3. low = <<256 * v[1] + v[2], 256 * v[3] + v[4]>>
      BY <1>12, <2>1, <2>2 DEF LowQuads
  <2> QED
      BY <1>4, <2>3 DEF IsList, TwoBytes
<1>14. PICK all : all = head \o low
    OBVIOUS
<1>15. all = Q
  <2>1. IsList(head, 6)
      BY <1>11 DEF AllQuads, IsList
  <2>2. Join(all, head, low, 6, 2)
      BY <1>13, <1>14, <2>1, Joined
  <2>3. IsList(all, 8) /\ \A i \in 1 .. 6 : all[i] = Q[i]
    <3>1. \A i \in 1 .. 6 : head[i] = Q[i]
      <4>1. PICK one : one = 1
          OBVIOUS
      <4>2. PICK six : six = 6
          OBVIOUS
      <4>3. /\ 8 \in Nat /\ one \in 1 .. 8 + 1 /\ six \in Nat /\ one + six <= 8 + 1
            /\ six = one + six - 1 /\ \A i \in 1 .. six : one - 1 + i = i
          BY <4>1, <4>2
      <4> HIDE <4>1, <4>2
      <4>4. \A i \in 1 .. six : SubSeq(Q, one, six)[i] = Q[one - 1 + i]
          BY <1>1, <4>3, SubList
      <4> QED
          BY <1>b, <4>1, <4>2, <4>3, <4>4
    <3> QED
        BY <2>2, <3>1 DEF Join
  <2>4. all[7] = Q[7] /\ all[8] = Q[8]
      BY <1>13, <2>2 DEF Join
  <2>5. \A i \in 1 .. 8 : all[i] = Q[i]
    <3>1. \A i \in 1 .. 8 : i \in 1 .. 6 \/ i = 7 \/ i = 8
        OBVIOUS
    <3> QED
        BY <2>3, <2>4, <3>1
  <2> QED
      BY <1>1, <2>3, <2>5, SameList
<1>16. Address(T, Q, h, 6, ":", g, l, 0)
  <2>1. h = Len(T) - 4
      BY <1>0, <1>8, <1>10
  <2>2. \A i \in 1 .. 3 : T[h + i].then = "."
    <3>1. \A i \in 1 .. 3 : i \in 1 .. 4 /\ i # 4
        OBVIOUS
    <3>2. \A i \in 1 .. 4 : T[h + i].then = IF i = 4 THEN "end" ELSE "."
        BY <1>6, <1>7, Zenon
    <3> QED
        BY <3>1, <3>2, Zenon
  <2>3. \A i \in 1 .. 4 : DecimalItem(T[h + i])
      BY <1>6, <1>7
  <2>4. Q = AllQuads(T, h, 6, g, l, 0) \o LowQuads(DecimalsRead(T, h, 4))
      BY <1>11, <1>12, <1>14, <1>15, Zenon
  <2> QED
      BY <1>11, <2>1, <2>2, <2>3, <2>4 DEF Address
<1> QED
    BY <1>8, <1>9, <1>10, <1>16, Zenon DEF Readable

\* The quads before the decimals, written with and without a run of zeros.
LEMMA PlainHead ==
    ASSUME NEW head, QuadList(head, 6), NEW H, H = expanded(head, ":")
    PROVE  HeadText(H, 6, 7, 0, head)
<1>1. PICK n \in {6, 8} : n = 6
    OBVIOUS
<1>2. IsList(head, n) /\ n \in Nat /\ QuadList(head, n)
    BY <1>1 DEF QuadList
<1> HIDE <1>1
<1>3. PICK then : then = ":"
    OBVIOUS
<1>4. H = Row(head, 16, ":", then) /\ then \in {":"} \cup Ends
    BY <1>3 DEF expanded
<1>5. /\ IsList(H, n) /\ \A i \in 1 .. n : H[i].then = ":"
      /\ Shape(H, n, n, ":", n + 1, 0, 0) /\ AllQuads(H, n, n, n + 1, 0, 0) = head
  <2> HIDE <1>3
  <2>1. /\ IsList(H, n)
        /\ \A i \in 1 .. n : H[i] = Item(Digits(16, head[i]), IF i = n THEN then ELSE ":")
      BY <1>2, <1>4, RowItems
  <2>2. Shape(H, n, n, ":", n + 1, 0, 0) /\ AllQuads(H, n, n, n + 1, 0, 0) = head
      BY <1>2, <1>4, <2>1, ExpandedShape
  <2>3. ASSUME NEW i \in 1 .. n PROVE H[i].then = ":"
    <3>1. PICK c : c = IF i = n THEN then ELSE ":"
        OBVIOUS
    <3>2. H[i] = Item(Digits(16, head[i]), c) /\ c = ":"
        BY <1>3, <2>1, <3>1, Zenon
    <3> QED
        BY <3>2 DEF Item
  <2> QED
      BY <2>1, <2>2, <2>3
<1>6. n + 1 = 7
    BY <1>1
<1> QED
    BY <1>1, <1>2, <1>5, <1>6 DEF HeadText

LEMMA CompressedHead ==
    ASSUME NEW head, QuadList(head, 6), NEW H, NEW b, NEW z, NEW a, NEW l,
           Compressed(H, head, 6, ":", ":", b, z, a, l, 0),
           \A i \in 1 .. z : head[b + i] = 0,
           NEW g, g = b + 1 + l, NEW h, h = g + a,
           IsList(H, h), \A i \in 1 .. h : H[i].then = ":"
    PROVE  HeadText(H, h, g, l, head)
<1>1. b \in Nat /\ a \in Nat /\ l \in {0, 1}
    BY DEF Compressed
<1>2. h \in Nat /\ h = g + a + 0
    BY <1>1
<1>3. Shape(H, h, 6, ":", g, l, 0) /\ AllQuads(H, h, 6, g, l, 0) = head
  <2>1. PICK n \in {6, 8} : n = 6
      OBVIOUS
  <2>2. PICK t : t = 0
      OBVIOUS
  <2>3. /\ QuadList(head, n) /\ Compressed(H, head, n, ":", ":", b, z, a, l, t)
        /\ h = g + a + t /\ (t = 1 => ":" \in Ends)
        /\ ":" \in {":"} \cup Ends /\ ":" \in {":", "-"}
      BY <1>2, <2>1, <2>2
  <2> HIDE <2>1, <2>2
  <2>4. Shape(H, h, n, ":", g, l, t) /\ AllQuads(H, h, n, g, l, t) = head
      BY <2>3, CompressedShape
  <2> QED
      BY <2>1, <2>2, <2>4
<1> QED
    BY <1>2, <1>3 DEF HeadText

LEMMA NoRun ==
    ASSUME NEW Q, NEW bytes, find_zero_sequence(SubSeq(Q, 1, 6)) = {}
    PROVE  deflated(SubSeq(Q, 1, 6), ":", ":") \o Row(bytes, 10, ".", "end") \in dotted_quad(Q, bytes)
<1>1. ~ends_with_deflated(SubSeq(Q, 1, 6))
    BY DEF ends_with_deflated
<1> QED
    BY <1>1, Zenon DEF dotted_quad

LEMMA DottedQuadReadable ==
    ASSUME NEW Q, QuadList(Q, 8)
    PROVE  \E T \in dotted_quad(Q, LastBytes(Q)) : Readable(T, Q, "end")
<1>1. PICK head : head = SubSeq(Q, 1, 6)
    OBVIOUS
<1>2. QuadList(head, 6)
  <2>1. PICK one : one = 1
      OBVIOUS
  <2>2. PICK six : six = 6
      OBVIOUS
  <2>3. /\ 8 \in Nat /\ one \in 1 .. 8 + 1 /\ six \in Nat /\ one + six <= 8 + 1
        /\ six = one + six - 1 /\ \A i \in 1 .. six : one - 1 + i = i /\ i \in 1 .. 8
      BY <2>1, <2>2
  <2>4. IsList(Q, 8) /\ \A i \in 1 .. 8 : Q[i] \in Nat /\ Q[i] <= MaxQuad
      BY DEF QuadList
  <2>5. head = SubSeq(Q, one, six)
      BY <1>1, <2>1, <2>2
  <2> HIDE <2>1, <2>2
  <2>6. IsList(head, six) /\ \A i \in 1 .. six : head[i] = Q[one - 1 + i]
      BY <2>3, <2>4, <2>5, SubList
  <2>7. \A i \in 1 .. six : head[i] \in Nat /\ head[i] <= MaxQuad
      BY <2>3, <2>4, <2>6
  <2> QED
      BY <2>2, <2>6, <2>7 DEF QuadList
<1>3. PICK tail : tail = Row(LastBytes(Q), 10, ".", "end")
    OBVIOUS
<1>4. PICK shown : shown = deflated(head, ":", ":")
    OBVIOUS
<1>5. /\ find_zero_sequence(head) = {} => shown \o tail \in dotted_quad(Q, LastBytes(Q))
      /\ find_zero_sequence(head) # {} /\ ends_with_deflated(head)
            => Front(shown) \o tail \in dotted_quad(Q, LastBytes(Q))
      /\ find_zero_sequence(head) # {} /\ ~ends_with_deflated(head)
            => shown \o tail \in dotted_quad(Q, LastBytes(Q))
  <2>1. CASE find_zero_sequence(head) = {}
    <3>1. shown \o tail \in dotted_quad(Q, LastBytes(Q))
        BY <1>1, <1>3, <1>4, <2>1, NoRun, Zenon
    <3> QED
        BY <2>1, <3>1, Zenon
  <2>2. CASE find_zero_sequence(head) # {} /\ ends_with_deflated(head)
    <3>1. dotted_quad(Q, LastBytes(Q)) = {Front(shown) \o tail}
        BY <1>1, <1>3, <1>4, <2>2, Zenon DEF dotted_quad
    <3> QED
        BY <2>2, <3>1, Zenon
  <2>3. CASE find_zero_sequence(head) # {} /\ ~ends_with_deflated(head)
    <3>1. dotted_quad(Q, LastBytes(Q)) = {shown \o tail}
        BY <1>1, <1>3, <1>4, <2>3, Zenon DEF dotted_quad
    <3> QED
        BY <2>3, <3>1, Zenon
  <2> QED
      BY <2>1, <2>2, <2>3, Zenon
<1>6. ASSUME NEW H, NEW h, NEW g, NEW l, HeadText(H, h, g, l, head)
      PROVE  Readable(H \o tail, Q, "end")
    BY <1>1, <1>3, <1>6, DottedReadable, Zenon
<1>7. CASE find_zero_sequence(head) = {}
  <2>1. shown = expanded(head, ":")
      BY <1>4, <1>7, Zenon DEF deflated
  <2>2. HeadText(shown, 6, 7, 0, head)
      BY <1>2, <2>1, PlainHead, Zenon
  <2> QED
      BY <1>5, <1>6, <1>7, <2>2, Zenon
<1>8. CASE find_zero_sequence(head) # {}
  <2>1. IsList(head, 6) /\ 6 \in Nat
      BY <1>2 DEF QuadList
  <2>2. PICK b, z, a, l, t :
          /\ Compressed(shown, head, 6, ":", ":", b, z, a, l, t)
          /\ IsList(shown, b + 1 + l + a + t)
          /\ \A i \in 1 .. z : head[b + i] = 0
          /\ t = 1 <=> a = 0
          /\ t = 1 <=> ends_with_deflated(head)
      BY <1>4, <1>8, <2>1, DeflatedText
  <2>3. b \in Nat /\ a \in Nat /\ l \in {0, 1} /\ t \in {0, 1}
      BY <2>2 DEF Compressed
  <2>4. PICK m : m = b + 1 + l + a + t
      OBVIOUS
  <2>5. PICK g : g = b + 1 + l
      OBVIOUS
  <2>6. PICK h : h = g + a
      OBVIOUS
  <2>7. /\ m \in Nat /\ m # 0 /\ shown[m].then = ":" /\ \A i \in 1 .. m - 1 : shown[i].then = ":"
        /\ IsList(shown, m)
    <3>1. PICK n : n = 6
        OBVIOUS
    <3>2. PICK d : d = ":"
        OBVIOUS
    <3>3. Compressed(shown, head, n, d, d, b, z, a, l, t) /\ (t = 1 <=> a = 0)
        BY <2>2, <3>1, <3>2, Zenon
    <3> HIDE <3>1, <3>2
    <3>4. m \in Nat /\ m # 0 /\ shown[m].then = d /\ \A i \in 1 .. m - 1 : shown[i].then = d
        BY <2>4, <3>3, CompressedDelimits
    <3> QED
        BY <2>2, <2>4, <3>2, <3>4, Zenon
  <2>8. CASE t = 0
    <3>1. m = h
        BY <2>3, <2>4, <2>5, <2>6, <2>8
    <3>2. \A i \in 1 .. h : shown[i].then = ":"
      <4>1. \A i \in 1 .. m : i = m \/ i \in 1 .. m - 1
          BY <2>7
      <4> QED
          BY <2>7, <3>1, <4>1, Zenon
    <3>3. HeadText(shown, h, g, l, head)
        BY <1>2, <2>2, <2>5, <2>6, <2>7, <2>8, <3>1, <3>2, CompressedHead, Zenon
    <3>4. ~ends_with_deflated(head)
        BY <2>2, <2>8
    <3> QED
        BY <1>5, <1>6, <1>8, <3>3, <3>4, Zenon
  <2>9. CASE t = 1
    <3>1. m = h + 1 /\ a = 0 /\ h \in Nat
        BY <2>2, <2>3, <2>4, <2>5, <2>6, <2>9
    <3>2. PICK H : H = Front(shown)
        OBVIOUS
    <3>3. IsList(H, h) /\ \A i \in 1 .. h : H[i] = shown[i]
      <4>1. PICK one : one = 1
          OBVIOUS
      <4>2. H = SubSeq(shown, one, h)
        <5>1. Len(shown) - 1 = h
          <6>1. PICK S : shown \in Seq(S) /\ Len(shown) = m
              BY <2>7, ListIsSeq
          <6> QED
              BY <3>1, <6>1
        <5> QED
            BY <3>2, <4>1, <5>1 DEF Front
      <4>3. one \in 1 .. m + 1 /\ one + h <= m + 1 /\ h = one + h - 1 /\ \A i \in 1 .. h : one - 1 + i = i
          BY <3>1, <4>1
      <4> HIDE <4>1
      <4>4. IsList(H, h) /\ \A i \in 1 .. h : H[i] = shown[one - 1 + i]
          BY <2>7, <3>1, <4>2, <4>3, SubList
      <4> QED
          BY <4>3, <4>4
    <3>4. \A i \in 1 .. h : H[i].then = ":"
      <4>1. \A i \in 1 .. h : i \in 1 .. m - 1
          BY <3>1
      <4> QED
          BY <2>7, <3>3, <4>1
    <3>5. Compressed(H, head, 6, ":", ":", b, z, a, l, 0)
      <4>1. \A i \in 1 .. b : i \in 1 .. h
          BY <2>3, <2>5, <2>6, <3>1
      <4>2. \A i \in 1 .. 1 + l : b + i \in 1 .. h
          BY <2>3, <2>5, <2>6, <3>1
      <4>3. \A i \in 1 .. a : FALSE
          BY <3>1
      <4>4. /\ b \in Nat /\ z \in Nat /\ z >= 1 /\ a \in Nat /\ b + z + a = 6
            /\ l \in {0, 1} /\ (l = 1 <=> b = 0)
            /\ \A i \in 1 .. b : shown[i] = Item(Digits(16, head[i]), ":")
            /\ \A i \in 1 .. 1 + l : shown[b + i] = Item(<<>>, ":")
          BY <2>2 DEF Compressed
      <4>5. \A i \in 1 .. b : H[i] = Item(Digits(16, head[i]), ":")
          BY <3>3, <4>1, <4>4, Zenon
      <4>6. \A i \in 1 .. 1 + l : H[b + i] = Item(<<>>, ":")
          BY <3>3, <4>2, <4>4, Zenon
      <4> QED
          BY <4>3, <4>4, <4>5, <4>6 DEF Compressed
    <3>6. HeadText(H, h, g, l, head)
        BY <1>2, <2>2, <2>5, <2>6, <3>3, <3>4, <3>5, CompressedHead, Zenon
    <3>7. ends_with_deflated(head)
        BY <2>2, <2>9
    <3> QED
        BY <1>5, <1>6, <1>8, <3>2, <3>6, <3>7, Zenon
  <2> QED
      BY <2>3, <2>8, <2>9
<1> QED
    BY <1>7, <1>8

-----------------------------------------------------------------------------
(***************************************************************************)
(* What the parser has in hand: numbers that fit, and an object when it is *)
(* done.                                                                   *)
(***************************************************************************)
QuadNumbers == {v \in Nat : v <= MaxQuad}

ByteNumbers == {v \in Nat : v <= 255}

\* Part of an IPv6 address, and of an IPv4 address.
Partial6(q) ==
    /\ q.quads \in Seq(QuadNumbers) /\ Len(q.quads) <= 8
    /\ q.decimals \in Seq(ByteNumbers)
    /\ q.first \in Nat /\ q.first <= Len(q.quads)

Partial4(q) == q.decimals \in Seq(ByteNumbers) /\ Len(q.decimals) < 4

Sound6(r) ==
    /\ r.status = "reading" => Partial6(r)
    /\ r.status \in {"slash", "done"} => QuadList(Numbers6(r), 8)

\* The quads that inflate leaves, whichever way it moves them.
LEMMA InflatedQuads ==
    ASSUME NEW q, Partial6(q), NEW n, n = number_of_quads(q), Len(q.quads) - q.first <= n
    PROVE  QuadList(Inflated(q), n)
<1>1. PICK u : u = q.quads
    OBVIOUS
<1>2. PICK l \in Nat : l = Len(u) /\ l <= 8 /\ DOMAIN u = 1 .. l
    BY <1>1, LenProperties DEF Partial6
<1>3. PICK f \in Nat : f = q.first /\ f <= l /\ l - f <= n
    BY <1>1, <1>2 DEF Partial6
<1>4. \A i \in 1 .. l : u[i] \in QuadNumbers
  <2>1. u \in Seq(QuadNumbers)
      BY <1>1 DEF Partial6
  <2> QED
      BY <1>2, <2>1, ElementOfSeq
<1>5. n \in {6, 8}
    BY DEF number_of_quads
<1> DEFINE Source(j) == IF l <= n THEN j + l - n ELSE l - 1 - ((n - 1 - j) % (l - n))
<1>6. PICK w : w = [j \in 1 .. n |-> IF j - 1 >= n - (l - f) THEN u[Source(j - 1) + 1]
                                     ELSE IF j - 1 >= f THEN 0 ELSE u[j]]
    OBVIOUS
<1>7. w = Inflated(q)
    BY <1>1, <1>2, <1>3, <1>6, Zenon DEF Inflated
<1>8. ASSUME NEW j \in 1 .. n, j - 1 >= n - (l - f) PROVE Source(j - 1) + 1 \in 1 .. l
  <2>1. CASE l <= n
      BY <1>3, <1>5, <1>8, <2>1
  <2>2. CASE ~(l <= n)
    <3>1. n = 6 /\ l \in {7, 8}
        BY <1>2, <1>5, <2>2
    <3>2. PICK k \in Nat : k = n - 1 - (j - 1) /\ k <= 5
        BY <1>5, <3>1
    <3>3. CASE l = 7
      <4>1. k % 1 = 0 /\ l - n = 1
          BY <3>1, <3>3
      <4> QED
          BY <2>2, <3>2, <3>3, <4>1
    <3>4. CASE l = 8
      <4>1. k % 2 \in 0 .. 1 /\ l - n = 2
          BY <3>1, <3>4
      <4> QED
          BY <2>2, <3>2, <3>4, <4>1
    <3> QED
        BY <3>1, <3>3, <3>4
  <2> QED
      BY <2>1, <2>2
<1>9. ASSUME NEW j \in 1 .. n PROVE w[j] \in QuadNumbers
  <2>1. CASE j - 1 >= n - (l - f)
    <3>1. PICK i \in 1 .. l : i = Source(j - 1) + 1
        BY <1>8, <2>1
    <3>2. w[j] = u[i]
        BY <1>6, <2>1, <3>1
    <3> QED
        BY <1>4, <3>2
  <2>2. CASE ~(j - 1 >= n - (l - f)) /\ j - 1 >= f
    <3>1. w[j] = 0
        BY <1>6, <2>2
    <3> QED
        BY <3>1, MaxQuadIs DEF QuadNumbers
  <2>3. CASE ~(j - 1 >= n - (l - f)) /\ ~(j - 1 >= f)
    <3>1. w[j] = u[j] /\ j \in 1 .. l
        BY <1>3, <1>5, <1>6, <2>3
    <3> QED
        BY <1>4, <3>1
  <2> QED
      BY <2>1, <2>2, <2>3
<1>10. IsList(w, n)
    BY <1>6 DEF IsList
<1> QED
    BY <1>7, <1>9, <1>10 DEF QuadList, QuadNumbers

LEMMA FinishedSound ==
    ASSUME NEW q, DOMAIN q = Parts, Partial6(q), q.status = "reading", NEW then
    PROVE  Sound6(Finished(q, then))
<1>1. Sound6(Failed(q)) /\ Sound6(Undefined(q))
    BY DEF Sound6, Failed, Undefined, Parts
<1>2. PICK n : n = number_of_quads(q)
    OBVIOUS
<1>3. PICK u : u = IF q.deflated THEN Inflated(q) ELSE q.quads
    OBVIOUS
<1>4. PICK r : r = [q EXCEPT !.quads = IF q.deflated THEN Inflated(q) ELSE @]
    OBVIOUS
<1>5. DOMAIN r = Parts /\ r.quads = u /\ r.decimals = q.decimals /\ r.status = "reading"
    BY <1>3, <1>4 DEF Parts
<1>6. ASSUME ~(q.deflated /\ Len(q.quads) - q.first > n),
             ~((~q.deflated /\ Len(q.quads) # n) \/ Len(q.decimals) \notin {0, 4})
      PROVE  QuadList(Numbers6(r), 8)
  <2>1. n \in {6, 8} /\ n \in Nat
      BY <1>2 DEF number_of_quads
  <2>2. QuadList(u, n)
    <3>1. CASE q.deflated
      <4>1. Len(q.quads) - q.first <= n
        <5>1. Len(q.quads) \in Nat /\ q.first \in Nat
            BY LenProperties DEF Partial6
        <5> QED
            BY <1>6, <2>1, <3>1, <5>1
      <4> QED
          BY <1>2, <1>3, <3>1, <4>1, InflatedQuads, Zenon
    <3>2. CASE ~q.deflated
      <4>1. u \in Seq(QuadNumbers) /\ Len(u) = n
          BY <1>3, <1>6, <3>2 DEF Partial6
      <4>2. u \in [1 .. n -> QuadNumbers]
          BY <2>1, <4>1, LenProperties
      <4> QED
          BY <4>2 DEF QuadList, IsList, QuadNumbers
    <3> QED
        BY <3>1, <3>2
  <2>3. CASE q.decimals = <<>>
    <3>1. n = 8 /\ Numbers6(r) = u
        BY <1>2, <1>5, <2>3 DEF number_of_quads, Numbers6
    <3> QED
        BY <2>2, <3>1
  <2>4. CASE q.decimals # <<>>
    <3>1. PICK v : v = q.decimals
        OBVIOUS
    <3>2. v \in Seq(ByteNumbers) /\ Len(v) = 4
      <4>1. v \in Seq(ByteNumbers)
          BY <3>1 DEF Partial6
      <4>2. Len(v) \in {0, 4}
          BY <1>6, <3>1
      <4>3. Len(v) # 0
          BY <2>4, <3>1, <4>1, EmptySeq
      <4> QED
          BY <4>1, <4>2, <4>3
    <3>3. \A i \in 1 .. 4 : v[i] \in ByteNumbers
        BY <3>2, ElementOfSeq
    <3>4. PICK low : low = <<256 * v[1] + v[2], 256 * v[3] + v[4]>>
        OBVIOUS
    <3>5. \A x, y \in ByteNumbers : 256 * x + y \in QuadNumbers
        BY MaxQuadIs DEF ByteNumbers, QuadNumbers
    <3>6. IsList(low, 2) /\ low[1] \in QuadNumbers /\ low[2] \in QuadNumbers
      <4>1. v[1] \in ByteNumbers /\ v[2] \in ByteNumbers /\ v[3] \in ByteNumbers /\ v[4] \in ByteNumbers
          BY <3>3
      <4>2. 256 * v[1] + v[2] \in QuadNumbers /\ 256 * v[3] + v[4] \in QuadNumbers
          BY <3>5, <4>1, Zenon
      <4> QED
          BY <3>4, <4>2 DEF IsList
    <3>7. n = 6 /\ Numbers6(r) = u \o low
        BY <1>2, <1>5, <2>4, <3>1, <3>4 DEF number_of_quads, Numbers6
    <3>8. PICK w : w = u \o low
        OBVIOUS
    <3>9. IsList(u, 6) /\ \A i \in 1 .. 6 : u[i] \in QuadNumbers
        BY <2>2, <3>7 DEF QuadList, QuadNumbers
    <3>10. Join(w, u, low, 6, 2)
        BY <3>6, <3>8, <3>9, Joined
    <3>11. IsList(w, 8) /\ \A i \in 1 .. 8 : w[i] \in QuadNumbers
      <4>1. \A i \in 1 .. 6 : w[i] \in QuadNumbers
          BY <3>9, <3>10 DEF Join
      <4>2. w[7] \in QuadNumbers /\ w[8] \in QuadNumbers /\ IsList(w, 8)
          BY <3>6, <3>10 DEF Join
      <4>3. \A i \in 1 .. 8 : i \in 1 .. 6 \/ i = 7 \/ i = 8
          OBVIOUS
      <4> QED
          BY <4>1, <4>2, <4>3
    <3> QED
        BY <3>7, <3>8, <3>11 DEF QuadList, QuadNumbers
  <2> QED
      BY <2>3, <2>4
<1>7. ASSUME QuadList(Numbers6(r), 8) PROVE Sound6(Complete(r, then))
  <2>1. \A s : Numbers6([r EXCEPT !.status = s]) = Numbers6(r)
      BY <1>5 DEF Numbers6, Parts
  <2>2. \A s : s \notin {"reading"} => Sound6([r EXCEPT !.status = s])
      BY <1>5, <1>7, <2>1 DEF Sound6, Parts
  <2> QED
      BY <2>2, Zenon DEF Complete, Failed
<1> QED
    BY <1>1, <1>2, <1>4, <1>6, <1>7, Zenon DEF Finished

LEMMA QuadSound ==
    ASSUME NEW q, DOMAIN q = Parts, Partial6(q), q.status = "reading",
           NEW word \in Words, Len(word) <= 4
    PROVE  Sound6(Quad(q, word))
<1>1. Sound6(Failed(q))
    BY DEF Sound6, Failed, Parts
<1>2. PICK v \in QuadNumbers : v = Value(word, 16)
    BY WordValue DEF QuadNumbers
<1>3. ASSUME Len(q.quads) # 8
      PROVE  Sound6([q EXCEPT !.quads = Append(@, v), !.start = FALSE])
  <2>1. PICK u : u = Append(q.quads, v)
      OBVIOUS
  <2>2. PICK r : r = [q EXCEPT !.quads = Append(@, v), !.start = FALSE]
      OBVIOUS
  <2>3. /\ r.quads = u /\ r.decimals = q.decimals /\ r.first = q.first /\ r.status = "reading"
      BY <2>1, <2>2 DEF Parts
  <2>4. u \in Seq(QuadNumbers) /\ Len(u) = Len(q.quads) + 1
      BY <1>2, <2>1, AppendProperties DEF Partial6
  <2>5. Len(u) <= 8 /\ q.first <= Len(u)
    <3>1. PICK l \in Nat : l = Len(q.quads)
        BY LenProperties DEF Partial6
    <3>2. l <= 8 /\ l # 8 /\ q.first \in Nat /\ q.first <= l /\ Len(u) = l + 1
        BY <1>3, <2>4, <3>1 DEF Partial6
    <3> QED
        BY <3>2
  <2>6. Partial6(r)
      BY <2>3, <2>4, <2>5 DEF Partial6
  <2> QED
      BY <2>2, <2>3, <2>6 DEF Sound6
<1> QED
    BY <1>1, <1>2, <1>3 DEF Quad

LEMMA DecimalSound ==
    ASSUME NEW q, DOMAIN q = Parts, Partial6(q), q.status = "reading", NEW word \in Words
    PROVE  Sound6(Decimal(q, word))
<1>1. Sound6(Failed(q)) /\ Sound6(Undefined(q))
    BY DEF Sound6, Failed, Undefined, Parts
<1>2. PICK v \in Nat : v = Value(word, 10)
    BY WordValue
<1>3. ASSUME v <= 255
      PROVE  Sound6([q EXCEPT !.decimals = Append(@, v), !.delimiter = ".", !.start = FALSE])
  <2>1. PICK u : u = Append(q.decimals, v)
      OBVIOUS
  <2>2. PICK r : r = [q EXCEPT !.decimals = Append(@, v), !.delimiter = ".", !.start = FALSE]
      OBVIOUS
  <2>3. r.quads = q.quads /\ r.decimals = u /\ r.first = q.first /\ r.status = "reading"
      BY <2>1, <2>2 DEF Parts
  <2>4. u \in Seq(ByteNumbers)
      BY <1>3, <2>1, AppendProperties DEF Partial6, ByteNumbers
  <2>5. Partial6(r)
      BY <2>3, <2>4 DEF Partial6
  <2> QED
      BY <2>2, <2>3, <2>5 DEF Sound6
<1> QED
    BY <1>1, <1>2, <1>3 DEF Decimal

LEMMA CompressionSound ==
    ASSUME NEW q, DOMAIN q = Parts, Partial6(q), q.status = "reading", NEW c
    PROVE  Sound6(Compression(q, c))
<1>1. Sound6(Failed(q))
    BY DEF Sound6, Failed, Parts
<1>2. Sound6([q EXCEPT !.delimiter = c, !.start = FALSE, !.need = TRUE])
    BY DEF Sound6, Partial6, Parts
<1>3. Sound6([q EXCEPT !.delimiter = c, !.need = FALSE, !.deflated = TRUE, !.first = Len(q.quads)])
  <2>1. PICK r : r = [q EXCEPT !.delimiter = c, !.need = FALSE, !.deflated = TRUE, !.first = Len(q.quads)]
      OBVIOUS
  <2>2. r.quads = q.quads /\ r.decimals = q.decimals /\ r.first = Len(q.quads) /\ r.status = "reading"
      BY <2>1 DEF Parts
  <2>3. Len(q.quads) \in Nat
      BY LenProperties DEF Partial6
  <2>4. Partial6(r)
      BY <2>2, <2>3 DEF Partial6
  <2> QED
      BY <2>1, <2>2, <2>4 DEF Sound6
<1> QED
    BY <1>1, <1>2, <1>3 DEF Compression

\* A word up to its first digit that is not decimal is a word.
LEMMA PrefixIsWord ==
    ASSUME NEW word \in Words
    PROVE  DecimalPrefix(word) \in Words
<1>1. PICK n \in Nat : n = Len(word) /\ DOMAIN word = 1 .. n
    BY LenProperties DEF Words
<1>2. \A i \in 1 .. n : word[i] \in 0 .. 15
    BY <1>1, ElementOfSeq DEF Words
<1>3. CASE IsDecimal(word)
    BY <1>3 DEF DecimalPrefix
<1>4. CASE ~IsDecimal(word)
  <2> DEFINE F == {i \in 1 .. n : word[i] >= 10}
  <2>1. F \subseteq Nat /\ F # {}
      BY <1>1, <1>2, <1>4 DEF IsDecimal
  <2>2. PICK x \in F : \A y \in F : x <= y
      BY <2>1, LeastNumber
  <2>3. x \in DOMAIN word /\ word[x] >= 10 /\ \A j \in 1 .. x - 1 : word[j] < 10
    <3>1. ASSUME NEW j \in 1 .. x - 1 PROVE word[j] < 10
      <4>1. j \in 1 .. n /\ j < x
          BY <2>2
      <4>2. j \notin F
          BY <2>2, <4>1
      <4> QED
          BY <1>2, <4>1, <4>2
    <3> QED
        BY <1>1, <2>2, <3>1
  <2>4. PICK k : k = CHOOSE i \in DOMAIN word : word[i] >= 10 /\ \A j \in 1 .. i - 1 : word[j] < 10
      OBVIOUS
  <2>5. k \in DOMAIN word
      BY <2>3, <2>4, Zenon
  <2>6. k \in 1 .. n
      BY <1>1, <2>5
  <2>7. \A i \in 1 .. k - 1 : word[i] \in 0 .. 15
      BY <1>2, <2>6
  <2>8. SubSeq(word, 1, k - 1) \in Seq(0 .. 15)
      BY <2>6, <2>7, SubSeqProperties
  <2> QED
      BY <1>4, <2>4, <2>8 DEF DecimalPrefix, Words
<1> QED
    BY <1>3, <1>4

LEMMA TokenSound ==
    ASSUME NEW q, DOMAIN q = Parts, Partial6(q), q.status = "reading",
           NEW item, item.word \in Words
    PROVE  Sound6(Token6(q, item))
<1>1. Sound6(Failed(q))
    BY DEF Sound6, Failed, Parts
<1>2. PICK word : word = IF q.decimals # <<>> THEN DecimalPrefix(item.word) ELSE item.word
    OBVIOUS
<1>3. word \in Words
    BY <1>2, PrefixIsWord
<1>4. PICK then : then = IF word = item.word THEN item.then ELSE "end"
    OBVIOUS
<1>5. CASE Len(word) > 4
  <2>1. Token6(q, item) = Failed(q)
      BY <1>2, <1>5, Zenon DEF Token6
  <2> QED
      BY <1>1, <2>1
<1>6. CASE ~(Len(word) > 4)
  <2>1. Len(word) <= 4
    <3>1. Len(word) \in Nat
        BY <1>3, LenProperties DEF Words
    <3> QED
        BY <1>6, <3>1
  <2>2. /\ Sound6(Finished(q, then)) /\ Sound6(Compression(q, then)) /\ Sound6(Decimal(q, word))
        /\ Sound6(Quad(q, word))
      BY <1>3, <2>1, FinishedSound, CompressionSound, DecimalSound, QuadSound, Zenon
  <2>3. Sound6(Quad([q EXCEPT !.delimiter = then], word))
    <3>1. PICK r : r = [q EXCEPT !.delimiter = then]
        OBVIOUS
    <3>2. DOMAIN r = Parts /\ Partial6(r) /\ r.status = "reading"
        BY <3>1 DEF Partial6, Parts
    <3>3. Sound6(Quad(r, word))
        BY <1>3, <2>1, <3>2, QuadSound, Zenon
    <3> QED
        BY <3>1, <3>3, Zenon
  <2>4. PICK r : r = IF q.decimals # <<>> THEN Decimal(q, word) ELSE Quad(q, word)
      OBVIOUS
  <2>5. Sound6(r) /\ DOMAIN r = Parts
    <3>1. DOMAIN Decimal(q, word) = Parts /\ DOMAIN Quad(q, word) = Parts
        BY DEF Decimal, Quad, Failed, Undefined, Parts
    <3> QED
        BY <2>2, <2>4, <3>1, Zenon
  <2>6. Sound6(IF r.status = "reading" THEN Finished(r, then) ELSE r)
    <3>1. CASE r.status = "reading"
      <4>1. Partial6(r)
          BY <2>5, <3>1 DEF Sound6
      <4> QED
          BY <2>5, <3>1, <4>1, FinishedSound, Zenon
    <3> QED
        BY <2>5, <3>1, Zenon
  <2>7. Token6(q, item) \in
           {Finished(q, then), Compression(q, then), Decimal(q, word), Failed(q),
            Quad([q EXCEPT !.delimiter = then], word),
            IF r.status = "reading" THEN Finished(r, then) ELSE r}
      BY <1>2, <1>4, <1>6, <2>4 DEF Token6
  <2> QED
      BY <1>1, <2>2, <2>3, <2>6, <2>7, Zenon
<1> QED
    BY <1>5, <1>6

ByteList(v) == IsList(v, 4) /\ \A i \in 1 .. 4 : v[i] \in Nat /\ v[i] <= 255

NumbersFit(r) == IF r.version = "ipv6" THEN QuadList(Numbers6(r), 8) ELSE ByteList(r.decimals)

Sound(r) ==
    /\ DOMAIN r = Parts /\ r.version \in {"ipv4", "ipv6"} /\ r.kind \in {"host", "network"}
    /\ r.status \in {"reading", "slash"} => r.mask = 0
    /\ r.status = "slash" => r.kind # "host"
    /\ r.status = "reading" => IF r.version = "ipv6" THEN Partial6(r) ELSE Partial4(r)
    /\ r.status \in {"slash", "done"} =>
          /\ NumbersFit(r)
          /\ r.mask \in Nat /\ r.mask <= Limit(r.version) /\ (r.kind = "host" => r.mask = 0)

LEMMA Token4Sound ==
    ASSUME NEW q, Sound(q), q.status = "reading", q.version = "ipv4",
           NEW item, item.word \in Words
    PROVE  Sound(Token4(q, item))
<1>1. Partial4(q) /\ DOMAIN q = Parts /\ q.kind \in {"host", "network"} /\ q.mask = 0
    BY DEF Sound
<1>2. Sound(Failed(q))
    BY <1>1 DEF Sound, Failed, Parts
<1>3. PICK word : word = DecimalPrefix(item.word)
    OBVIOUS
<1>4. PICK v \in Nat : v = Value(word, 10)
    BY <1>3, PrefixIsWord, WordValue
<1>5. PICK u : u = Append(q.decimals, v)
    OBVIOUS
<1>6. PICK r : r = [q EXCEPT !.decimals = Append(@, v)]
    OBVIOUS
<1>7. /\ DOMAIN r = Parts /\ r.version = "ipv4" /\ r.kind = q.kind /\ r.mask = 0
      /\ r.decimals = u /\ r.status = "reading"
    BY <1>1, <1>5, <1>6 DEF Parts
<1>8. ASSUME v <= 255 PROVE u \in Seq(ByteNumbers) /\ Len(u) \in 1 .. 4
  <2>1. PICK len \in Nat : len = Len(q.decimals) /\ len < 4
      BY <1>1, LenProperties DEF Partial4
  <2>2. q.decimals \in Seq(ByteNumbers) /\ v \in ByteNumbers
      BY <1>1, <1>8 DEF Partial4, ByteNumbers
  <2>3. u \in Seq(ByteNumbers) /\ Len(u) = Len(q.decimals) + 1
      BY <1>5, <2>2, AppendProperties
  <2> QED
      BY <2>1, <2>3
<1>9. ASSUME v <= 255, Len(u) = 4, NEW then PROVE Sound(Complete(r, then))
  <2>1. u \in [1 .. 4 -> ByteNumbers]
      BY <1>8, <1>9, LenProperties
  <2>2. ByteList(u)
      BY <2>1 DEF ByteList, IsList, ByteNumbers
  <2>3. \A s : [r EXCEPT !.status = s].decimals = u
      BY <1>7 DEF Parts
  <2>4. Sound(Failed(r))
      BY <1>1, <1>7 DEF Sound, Failed, Parts
  <2>5. ASSUME q.kind = "host" PROVE Sound([r EXCEPT !.status = "done"])
    <3>1. 0 <= Limit("ipv4")
        BY DEF Limit
    <3> QED
        BY <1>1, <1>7, <2>2, <2>3, <2>5, <3>1 DEF Sound, NumbersFit, Parts
  <2>6. ASSUME q.kind # "host" PROVE Sound([r EXCEPT !.status = "slash"])
    <3>1. 0 <= Limit("ipv4")
        BY DEF Limit
    <3> QED
        BY <1>1, <1>7, <2>2, <2>3, <2>6, <3>1 DEF Sound, NumbersFit, Parts
  <2> QED
      BY <1>7, <2>4, <2>5, <2>6, Zenon DEF Complete
<1>10. ASSUME v <= 255, Len(u) # 4 PROVE Sound(r)
  <2>1. Len(u) < 4
    <3>1. PICK len : len = Len(u)
        OBVIOUS
    <3>2. len \in 1 .. 4 /\ len # 4
        BY <1>8, <1>10, <3>1, Zenon
    <3>3. len < 4
        BY <3>2
    <3> QED
        BY <3>1, <3>3
  <2>2. Partial4(r)
      BY <1>7, <1>8, <1>10, <2>1 DEF Partial4
  <2> QED
      BY <1>1, <1>7, <2>2 DEF Sound
<1>11. ~(v > 255) => v <= 255
    OBVIOUS
<1>12. CASE word = <<>> \/ v > 255
  <2>1. Token4(q, item) = Failed(q)
      BY <1>3, <1>4, <1>12, Zenon DEF Token4
  <2> QED
      BY <1>2, <2>1
<1>13. CASE ~(word = <<>> \/ v > 255)
  <2>1. PICK then : then = IF word = item.word THEN item.then ELSE "end"
      OBVIOUS
  <2>2. Token4(q, item) = IF Len(r.decimals) = 4 THEN Complete(r, then)
                          ELSE IF then = "." THEN r ELSE Failed(q)
      BY <1>3, <1>4, <1>6, <1>13, <2>1, Zenon DEF Token4
  <2> QED
      BY <1>2, <1>7, <1>9, <1>10, <1>11, <1>13, <2>2, Zenon
<1> QED
    BY <1>12, <1>13

LEMMA ReadSound ==
    ASSUME NEW q, Sound(q), q.status \in {"reading", "slash"}, NEW item, item.word \in Words
    PROVE  Sound(Read(q, item))
<1>1. CASE q.status = "slash"
  <2>1. Sound(Failed(q))
      BY DEF Sound, Failed, Parts
  <2>2. PICK v \in Nat : v = Value(DecimalPrefix(item.word), 10)
      BY PrefixIsWord, WordValue
  <2>3. ASSUME ~(v > Limit(q.version)) PROVE Sound([q EXCEPT !.status = "done", !.mask = v])
    <3>1. PICK r : r = [q EXCEPT !.status = "done", !.mask = v]
        OBVIOUS
    <3>2. DOMAIN q = Parts /\ q.kind # "host" /\ NumbersFit(q)
          /\ q.version \in {"ipv4", "ipv6"} /\ q.kind \in {"host", "network"}
        BY <1>1 DEF Sound
    <3>3. /\ DOMAIN r = Parts /\ r.version = q.version /\ r.kind = q.kind /\ r.status = "done"
          /\ r.mask = v /\ r.quads = q.quads /\ r.decimals = q.decimals
        BY <3>1, <3>2 DEF Parts
    <3>4. NumbersFit(r)
        BY <3>2, <3>3 DEF NumbersFit, Numbers6
    <3>5. v <= Limit(r.version)
        BY <2>3, <3>2, <3>3 DEF Limit
    <3>6. Sound(r)
        BY <3>2, <3>3, <3>4, <3>5 DEF Sound
    <3> QED
        BY <3>1, <3>6
  <2>4. Read(q, item) = MaskRead(q, item.word)
      BY <1>1 DEF Read
  <2> QED
      BY <2>1, <2>2, <2>3, <2>4, Zenon DEF MaskRead
<1>2. CASE q.status = "reading" /\ q.version = "ipv4"
  <2>1. Read(q, item) = Token4(q, item)
      BY <1>2 DEF Read
  <2> QED
      BY <1>2, <2>1, Token4Sound, Zenon
<1>3. CASE q.status = "reading" /\ q.version = "ipv6"
  <2>1. DOMAIN q = Parts /\ Partial6(q) /\ q.mask = 0 /\ q.kind \in {"host", "network"}
      BY <1>3 DEF Sound
  <2>2. PICK r : r = Token6(q, item)
      OBVIOUS
  <2>3. Read(q, item) = r
      BY <1>3, <2>2 DEF Read
  <2>4. Sound6(r)
      BY <1>3, <2>1, <2>2, TokenSound, Zenon
  <2>5. EndsAs(q, r) /\ Kept(q, r)
    <3>1. EndsAs(q, Token6(q, item))
        BY <1>3, <2>1, TokenEnds, Zenon
    <3>2. Kept(q, Read(q, item))
        BY <2>1, ReadKeeps, Zenon
    <3> QED
        BY <2>2, <2>3, <3>1, <3>2, Zenon
  <2>6. /\ DOMAIN r = Parts /\ r.version = "ipv6" /\ r.kind = q.kind /\ r.mask = 0
        /\ r.status = "slash" => q.kind # "host"
      BY <1>3, <2>1, <2>5 DEF EndsAs, Kept
  <2>7. 0 <= Limit("ipv6")
      BY DEF Limit
  <2> QED
      BY <2>1, <2>3, <2>4, <2>6, <2>7 DEF Sound, Sound6, NumbersFit
<1> QED
    BY <1>1, <1>2, <1>3 DEF Sound

LEMMA StartSound ==
    ASSUME NEW version \in {"ipv4", "ipv6"}, NEW kind \in {"host", "network"}
    PROVE  Sound(Start(version, kind))
<1>1. PICK q : q = Start(version, kind)
    OBVIOUS
<1>2. /\ DOMAIN q = Parts /\ q.version = version /\ q.kind = kind /\ q.status = "reading"
      /\ q.mask = 0 /\ q.quads = <<>> /\ q.decimals = <<>> /\ q.first = 0
    BY <1>1 DEF Start, Parts
<1>3. Partial6(q) /\ Partial4(q)
  <2>1. <<>> \in Seq(QuadNumbers) /\ <<>> \in Seq(ByteNumbers) /\ Len(<<>>) = 0
      BY EmptySeq
  <2> QED
      BY <1>2, <2>1 DEF Partial6, Partial4
<1> QED
    BY <1>1, <1>2, <1>3 DEF Sound

LEMMA SoundHolds == TextSpec => []Sound(p)
<1>1. TextInit => Sound(p)
    BY StartSound DEF TextInit
<1>2. ParserInv /\ Sound(p) /\ [TextNext]_textVars => Sound(p)'
  <2> SUFFICES ASSUME ParserInv, Sound(p), [TextNext]_textVars PROVE Sound(p')
      BY DEF Sound, NumbersFit, Partial6, Partial4, QuadList, ByteList, IsList, Numbers6, Limit
  <2>1. ASSUME NEW item \in Items(p), Take(item) PROVE Sound(p')
    <3>1. Whole(item).word \in Words
        BY <2>1, WholeIsText DEF ParserInv, TextItems, Words
    <3>2. p' = Read(p, Whole(item)) /\ p.status \in {"reading", "slash"}
        BY <2>1 DEF Take
    <3> QED
        BY <3>1, <3>2, ReadSound, Zenon
  <2>2. ASSUME NEW style \in Styles, Write(style) PROVE Sound(p')
      BY <2>2 DEF Write
  <2>3. ASSUME NEW version \in {"ipv4", "ipv6"}, NEW kind \in {"host", "network"}, Again(version, kind)
        PROVE  Sound(p')
      BY <2>3, StartSound DEF Again
  <2>5. ASSUME NEW item \in Items(p), SkipSpace(item) PROVE Sound(p')
      BY <2>5 DEF SkipSpace
  <2>4. CASE UNCHANGED textVars
      BY <2>4 DEF textVars
  <2> QED
      BY <2>1, <2>2, <2>3, <2>4, <2>5 DEF TextNext
<1> QED
    BY <1>1, <1>2, ParserInvHolds, PTL DEF TextSpec

-----------------------------------------------------------------------------
(***************************************************************************)
(* Clearing the host part again changes nothing, and the numbers stay in   *)
(* range.                                                                  *)
(***************************************************************************)
Cleared(x, m) == x - (x % m)

\* The powers of two that host parts within a byte or quad are cleared by.
Divisor(m) == m \in Nat /\ m > 0

LEMMA PowersAreDivisors ==
    ASSUME NEW k \in 1 .. 15
    PROVE  Divisor(2^k)
<1>1. /\ Divisor(2^1) /\ Divisor(2^2) /\ Divisor(2^3) /\ Divisor(2^4) /\ Divisor(2^5)
      /\ Divisor(2^6) /\ Divisor(2^7) /\ Divisor(2^8) /\ Divisor(2^9) /\ Divisor(2^10)
      /\ Divisor(2^11) /\ Divisor(2^12) /\ Divisor(2^13) /\ Divisor(2^14) /\ Divisor(2^15)
    BY DEF Divisor
<1>2. \/ k = 1 \/ k = 2 \/ k = 3 \/ k = 4 \/ k = 5
      \/ k = 6 \/ k = 7 \/ k = 8 \/ k = 9 \/ k = 10
      \/ k = 11 \/ k = 12 \/ k = 13 \/ k = 14 \/ k = 15
    OBVIOUS
<1> QED
    BY <1>1, <1>2, Zenon

LEMMA ClearedTwice ==
    ASSUME NEW x \in Nat, NEW m, Divisor(m)
    PROVE  /\ Cleared(x, m) \in Nat /\ Cleared(x, m) <= x
           /\ Cleared(Cleared(x, m), m) = Cleared(x, m)
<1>1. m \in Nat /\ m > 0
    BY DEF Divisor
<1>2. PICK d \in Int : d = x % m
    BY <1>1
<1>3. PICK q \in Int : q = x \div m
    BY <1>1
<1>4. d \in Nat /\ d < m /\ x = q * m + d /\ q \in Nat
    BY <1>1, <1>2, <1>3
<1>5. PICK y : y = Cleared(x, m)
    OBVIOUS
<1>6. y = q * m /\ y \in Nat /\ y <= x
    BY <1>1, <1>2, <1>4, <1>5 DEF Cleared
<1>7. y % m = 0
  <2>1. (q * m + 0) % m = 0
      BY <1>1, <1>4, LowPart
  <2> QED
      BY <1>1, <1>4, <1>6, <2>1
<1>8. Cleared(y, m) = y
    BY <1>6, <1>7 DEF Cleared
<1> QED
    BY <1>5, <1>6, <1>8

\* One number of a network, of which the first kept bits belong to it.
NumberKept(x, width, kept) ==
    CASE kept >= width -> x
      [] kept <= 0 -> 0
      [] OTHER -> x - (x % 2^(width - kept))

StaysKept(x, y, width, kept) == y \in Nat /\ y <= x /\ NumberKept(y, width, kept) = y

LEMMA MaskedOnce ==
    ASSUME NEW x \in Nat, NEW width \in {8, 16}, NEW kept \in Int
    PROVE  StaysKept(x, NumberKept(x, width, kept), width, kept)
<1> SUFFICES ASSUME NEW y, y = NumberKept(x, width, kept)
             PROVE  y \in Nat /\ y <= x /\ NumberKept(y, width, kept) = y
    BY DEF StaysKept
<1>1. CASE kept >= width
  <2>1. ~(kept <= 0)
      BY <1>1
  <2>2. \A z : NumberKept(z, width, kept) = z
      BY <1>1, <2>1, Zenon DEF NumberKept
  <2>3. y = x
      BY <2>2
  <2> QED
      BY <2>2, <2>3
<1>2. CASE kept <= 0
  <2>1. ~(kept >= width)
      BY <1>2
  <2>2. \A z : NumberKept(z, width, kept) = 0
      BY <1>2, <2>1, Zenon DEF NumberKept
  <2>3. y = 0
      BY <2>2
  <2> QED
      BY <2>2, <2>3
<1>3. CASE ~(kept >= width) /\ ~(kept <= 0)
  <2>1. PICK k \in 1 .. 15 : k = width - kept
      BY <1>3
  <2>2. PICK m : m = 2^k
      OBVIOUS
  <2>3. Divisor(m)
      BY <2>2, PowersAreDivisors
  <2>4. \A z : NumberKept(z, width, kept) = z - (z % 2^(width - kept))
      BY <1>3, Zenon DEF NumberKept
  <2>5. \A z : NumberKept(z, width, kept) = Cleared(z, m)
      BY <2>1, <2>2, <2>4, Zenon DEF Cleared
  <2>6. y = Cleared(x, m)
      BY <2>5
  <2>7. y \in Nat /\ y <= x /\ Cleared(y, m) = y
      BY <2>3, <2>6, ClearedTwice, Zenon
  <2> QED
      BY <2>5, <2>7, Zenon
<1> QED
    BY <1>1, <1>2, <1>3

LEMMA MaskedTwice ==
    ASSUME NEW n \in Nat, NEW u, IsList(u, n), NEW max \in Nat,
           \A i \in 1 .. n : u[i] \in Nat /\ u[i] <= max,
           NEW width \in {8, 16}, NEW mask \in Nat,
           NEW v, v = MaskedNumbers(u, width, mask)
    PROVE  /\ IsList(v, n) /\ \A i \in 1 .. n : v[i] \in Nat /\ v[i] <= max
           /\ MaskedNumbers(v, width, mask) = v
<1>1. DOMAIN u = 1 .. n
    BY ListIsSeq
<1>2. \A w : MaskedNumbers(w, width, mask)
                = [i \in DOMAIN w |-> NumberKept(w[i], width, mask - width * (i - 1))]
    BY DEF MaskedNumbers, NumberKept
<1>3. v = [i \in 1 .. n |-> NumberKept(u[i], width, mask - width * (i - 1))]
    BY <1>1, <1>2
<1>4. IsList(v, n) /\ DOMAIN v = 1 .. n
    BY <1>3 DEF IsList
<1>5. ASSUME NEW i \in 1 .. n
      PROVE  /\ v[i] \in Nat /\ v[i] <= max
             /\ NumberKept(v[i], width, mask - width * (i - 1)) = v[i]
  <2>1. PICK kept \in Int : kept = mask - width * (i - 1)
      OBVIOUS
  <2>2. v[i] = NumberKept(u[i], width, kept) /\ u[i] \in Nat /\ u[i] <= max
    <3>1. v[i] = NumberKept(u[i], width, mask - width * (i - 1))
        BY <1>3, Zenon
    <3> QED
        BY <2>1, <3>1, Zenon
  <2>3. v[i] \in Nat /\ v[i] <= u[i] /\ NumberKept(v[i], width, kept) = v[i]
    <3>1. StaysKept(u[i], NumberKept(u[i], width, kept), width, kept)
        BY <2>2, MaskedOnce, Zenon
    <3>2. StaysKept(u[i], v[i], width, kept)
        BY <2>2, <3>1, Zenon
    <3> QED
        BY <3>2, Zenon DEF StaysKept
  <2>4. v[i] <= max
      BY <2>2, <2>3
  <2> QED
      BY <2>1, <2>3, <2>4, Zenon
<1>6. MaskedNumbers(v, width, mask) = v
  <2>1. PICK w : w = MaskedNumbers(v, width, mask)
      OBVIOUS
  <2>2. w = [i \in 1 .. n |-> NumberKept(v[i], width, mask - width * (i - 1))]
      BY <1>2, <1>4, <2>1
  <2>3. IsList(w, n) /\ \A i \in 1 .. n : w[i] = v[i]
      BY <1>5, <2>2 DEF IsList
  <2> QED
      BY <1>4, <2>1, <2>3, SameList
<1> QED
    BY <1>4, <1>5, <1>6

-----------------------------------------------------------------------------
(***************************************************************************)
(* An IPv4 address in decimal numbers is read back.                        *)
(***************************************************************************)
\* The parser with the bytes u.
Bytes4(q, kind, u) ==
    /\ DOMAIN q = Parts /\ q.version = "ipv4" /\ q.kind = kind /\ q.mask = 0
    /\ q.decimals = u

\* The bytes before the last one, and the last one.
Unfinished4(q, kind, u) == Bytes4(q, kind, u) /\ q.status = "reading"

Finished4(q, kind, u) ==
    Bytes4(q, kind, u) /\ q.status = IF kind = "host" THEN "done" ELSE "slash"

LEMMA ByteRead ==
    ASSUME NEW q, NEW kind, NEW u, Unfinished4(q, kind, u), NEW b \in Nat, b <= 255, NEW then
    PROVE  /\ Len(Append(u, b)) # 4 /\ then = "."
                => Unfinished4(ReadOne(q, Item(Digits(10, b), then)), kind, Append(u, b))
           /\ Len(Append(u, b)) = 4 /\ then = (IF kind = "host" THEN "end" ELSE "/")
                => Finished4(ReadOne(q, Item(Digits(10, b), then)), kind, Append(u, b))
<1> SUFFICES ASSUME NEW item, item = Item(Digits(10, b), then), NEW w, w = Append(u, b),
                    NEW r, r = ReadOne(q, item)
             PROVE  /\ Len(w) # 4 /\ then = "." => Unfinished4(r, kind, w)
                    /\ Len(w) = 4 /\ then = (IF kind = "host" THEN "end" ELSE "/")
                          => Finished4(r, kind, w)
    OBVIOUS
<1>0. Bytes4(q, kind, u) /\ q.status = "reading"
    BY DEF Unfinished4
<1>1. PICK word : word = Digits(10, b)
    OBVIOUS
<1>2. DecimalPrefix(word) = word /\ word # <<>> /\ Value(word, 10) = b
  <2>1. b <= 999
      OBVIOUS
  <2> QED
      BY <1>1, <2>1, DecimalWritten
<1>3. item.word = word /\ item.then = then
    BY <1>1 DEF Item
<1>4. PICK s : s = [q EXCEPT !.decimals = Append(@, b)]
    OBVIOUS
<1>5. Bytes4(s, kind, w) /\ s.status = "reading"
    BY <1>0, <1>4 DEF Bytes4, Parts
<1>6. r = IF Len(s.decimals) = 4 THEN Complete(s, then) ELSE IF then = "." THEN s ELSE Failed(q)
  <2>1. r = Token4(q, item)
      BY <1>0 DEF Bytes4, ReadOne, Read
  <2>2. ~(b > 255)
      OBVIOUS
  <2> QED
      BY <1>2, <1>3, <1>4, <2>1, <2>2, Zenon DEF Token4
<1>7. s.decimals = w
    BY <1>5 DEF Bytes4
<1>8. ASSUME Len(w) = 4, then = (IF kind = "host" THEN "end" ELSE "/")
      PROVE  Bytes4(r, kind, w) /\ r.status = IF kind = "host" THEN "done" ELSE "slash"
  <2>1. r = Complete(s, then)
      BY <1>6, <1>7, <1>8, Zenon
  <2>2. s.kind = kind
      BY <1>5 DEF Bytes4
  <2>3. r = [s EXCEPT !.status = IF kind = "host" THEN "done" ELSE "slash"]
      BY <1>8, <2>1, <2>2 DEF Complete
  <2> QED
      BY <1>5, <2>3 DEF Bytes4, Parts
<1>9. ASSUME Len(w) # 4, then = "." PROVE Bytes4(r, kind, w) /\ r.status = "reading"
  <2>1. r = s
      BY <1>6, <1>7, <1>9, Zenon
  <2> QED
      BY <1>5, <2>1
<1> QED
    BY <1>8, <1>9 DEF Unfinished4, Finished4

LEMMA BytesRead ==
    ASSUME NEW B, ByteList(B), NEW kind, NEW then, then = (IF kind = "host" THEN "end" ELSE "/"),
           NEW T, \A i \in 1 .. 4 : T[i] = Item(Digits(10, B[i]), IF i = 4 THEN then ELSE "."),
           NEW at, at[0] = Start("ipv4", kind), Steps(at, T, 4)
    PROVE  Finished4(at[4], kind, B)
<1>1. PICK b1 \in Nat, b2 \in Nat, b3 \in Nat, b4 \in Nat :
          /\ b1 = B[1] /\ b2 = B[2] /\ b3 = B[3] /\ b4 = B[4]
          /\ b1 <= 255 /\ b2 <= 255 /\ b3 <= 255 /\ b4 <= 255
    BY DEF ByteList
<1>2. /\ T[1] = Item(Digits(10, b1), ".") /\ T[2] = Item(Digits(10, b2), ".")
      /\ T[3] = Item(Digits(10, b3), ".") /\ T[4] = Item(Digits(10, b4), then)
    BY <1>1
<1>3. /\ at[1] = ReadOne(at[0], T[1]) /\ at[2] = ReadOne(at[1], T[2])
      /\ at[3] = ReadOne(at[2], T[3]) /\ at[4] = ReadOne(at[3], T[4])
  <2>1. \A i \in 0 .. 3 : at[i + 1] = ReadOne(at[i], T[i + 1])
      BY DEF Steps
  <2> QED
      BY <2>1
<1>4. Unfinished4(at[0], kind, <<>>)
    BY DEF Start, Unfinished4, Bytes4, Parts
<1>5. /\ <<b1>> = Append(<<>>, b1) /\ <<b1, b2>> = Append(<<b1>>, b2)
      /\ <<b1, b2, b3>> = Append(<<b1, b2>>, b3) /\ <<b1, b2, b3, b4>> = Append(<<b1, b2, b3>>, b4)
      /\ Len(<<b1>>) # 4 /\ Len(<<b1, b2>>) # 4 /\ Len(<<b1, b2, b3>>) # 4
      /\ Len(<<b1, b2, b3, b4>>) = 4
    OBVIOUS
<1>6. Unfinished4(at[1], kind, <<b1>>)
  <2>1. Len(Append(<<>>, b1)) # 4
      BY <1>5, Zenon
  <2>2. Unfinished4(ReadOne(at[0], Item(Digits(10, b1), ".")), kind, Append(<<>>, b1))
      BY <1>1, <1>4, <2>1, ByteRead, Zenon
  <2> QED
      BY <1>2, <1>3, <1>5, <2>2, Zenon
<1>7. Unfinished4(at[2], kind, <<b1, b2>>)
  <2>1. Len(Append(<<b1>>, b2)) # 4
      BY <1>5, Zenon
  <2>2. Unfinished4(ReadOne(at[1], Item(Digits(10, b2), ".")), kind, Append(<<b1>>, b2))
      BY <1>1, <1>6, <2>1, ByteRead, Zenon
  <2> QED
      BY <1>2, <1>3, <1>5, <2>2, Zenon
<1>8. Unfinished4(at[3], kind, <<b1, b2, b3>>)
  <2>1. Len(Append(<<b1, b2>>, b3)) # 4
      BY <1>5, Zenon
  <2>2. Unfinished4(ReadOne(at[2], Item(Digits(10, b3), ".")), kind, Append(<<b1, b2>>, b3))
      BY <1>1, <1>7, <2>1, ByteRead, Zenon
  <2> QED
      BY <1>2, <1>3, <1>5, <2>2, Zenon
<1>9. Finished4(at[4], kind, <<b1, b2, b3, b4>>)
  <2>1. Len(Append(<<b1, b2, b3>>, b4)) = 4
      BY <1>5, Zenon
  <2>2. Finished4(ReadOne(at[3], Item(Digits(10, b4), then)), kind, Append(<<b1, b2, b3>>, b4))
      BY <1>1, <1>8, <2>1, ByteRead, Zenon
  <2> QED
      BY <1>2, <1>3, <1>5, <2>2, Zenon
<1>10. PICK u : u = <<b1, b2, b3, b4>>
    OBVIOUS
<1>11. u = B
  <2>1. IsList(u, 4) /\ u[1] = b1 /\ u[2] = b2 /\ u[3] = b3 /\ u[4] = b4
      BY <1>10 DEF IsList
  <2>2. \A i \in 1 .. 4 : u[i] = B[i]
    <3>1. \A i \in 1 .. 4 : i = 1 \/ i = 2 \/ i = 3 \/ i = 4
        OBVIOUS
    <3> QED
        BY <1>1, <2>1, <3>1, Zenon
  <2>3. IsList(B, 4) /\ 4 \in Nat
      BY DEF ByteList
  <2> QED
      BY <2>1, <2>2, <2>3, SameList, Zenon
<1> QED
    BY <1>9, <1>10, <1>11, Zenon

LEMMA HostBack4 ==
    ASSUME NEW B, ByteList(B), NEW T, T = Row(B, 10, ".", "end"),
           NEW o, o = [version |-> "ipv4", kind |-> "host", mask |-> 0, numbers |-> B]
    PROVE  ReadBack(o, T)
<1>1. /\ IsList(T, 4)
      /\ \A i \in 1 .. 4 : T[i] = Item(Digits(10, B[i]), IF i = 4 THEN "end" ELSE ".")
  <2>1. IsList(B, 4) /\ 4 \in Nat
      BY DEF ByteList
  <2> QED
      BY <2>1, RowItems
<1>2. PICK s : s = Start("ipv4", "host")
    OBVIOUS
<1>3. PICK at : Trace(at, s, T, 4)
  <2>1. 4 \in Nat
      OBVIOUS
  <2> QED
      BY <1>1, <2>1, ListRead, Zenon
<1>4. Steps(at, T, 4) /\ at[0] = s /\ at[4] = ReadAll(s, T)
    BY <1>3 DEF Trace, Steps
<1>5. PICK kind : kind = "host"
    OBVIOUS
<1>6. PICK then : then = "end"
    OBVIOUS
<1>7. Finished4(at[4], kind, B)
  <2>1. at[0] = Start("ipv4", kind) /\ then = (IF kind = "host" THEN "end" ELSE "/")
      BY <1>2, <1>4, <1>5, <1>6
  <2>2. \A i \in 1 .. 4 : T[i] = Item(Digits(10, B[i]), IF i = 4 THEN then ELSE ".")
      BY <1>1, <1>6, Zenon
  <2> HIDE <1>5, <1>6
  <2>3. Steps(at, T, 4)
      BY <1>4
  <2> QED
      BY <2>1, <2>2, <2>3, BytesRead, Zenon
<1>8. PICK q : q = at[4]
    OBVIOUS
<1>9. q.status = "done" /\ Object(q) = o
    BY <1>5, <1>7, <1>8 DEF Finished4, Bytes4, Object
<1>10. q = ReadAll(Start(o.version, o.kind), T)
    BY <1>2, <1>4, <1>8
<1>11. Streamed(q, o.mask) = o
  <2>1. q.kind = "host"
      BY <1>5, <1>7, <1>8 DEF Finished4, Bytes4
  <2> QED
      BY <1>9, <2>1 DEF Streamed
<1> QED
    BY <1>9, <1>10, <1>11 DEF ReadBack

\* The text of a network: its address and the length of its mask.
WithMask(T, mask) == T \o <<Item(Digits(10, mask), "end")>>

IsMasked(numbers, width, mask) == MaskedNumbers(numbers, width, mask) = numbers

LEMMA MaskItem ==
    ASSUME NEW m \in Nat, NEW T, IsList(T, m), NEW mask, NEW W, W = WithMask(T, mask)
    PROVE  /\ IsList(W, m + 1) /\ W[m + 1] = Item(Digits(10, mask), "end")
           /\ \A i \in 1 .. m : W[i] = T[i]
<1>1. PICK item : item = Item(Digits(10, mask), "end")
    OBVIOUS
<1>2. PICK e : e = <<item>>
    OBVIOUS
<1>3. IsList(e, 1) /\ e[1] = item /\ W = T \o e
    BY <1>1, <1>2, OneItem DEF WithMask
<1>4. Join(W, T, e, m, 1)
    BY <1>3, Joined
<1>5. 1 \in 1 .. 1
    OBVIOUS
<1> QED
    BY <1>1, <1>3, <1>4, <1>5 DEF Join

LEMMA NetworkBack4 ==
    ASSUME NEW B, ByteList(B), NEW mask \in Nat, mask <= 32, IsMasked(B, 8, mask),
           NEW o, o = [version |-> "ipv4", kind |-> "network", mask |-> mask, numbers |-> B],
           NEW W, W = WithMask(Row(B, 10, ".", "/"), mask)
    PROVE  ReadBack(o, W)
<1>1. PICK T : T = Row(B, 10, ".", "/")
    OBVIOUS
<1>2. /\ IsList(T, 4)
      /\ \A i \in 1 .. 4 : T[i] = Item(Digits(10, B[i]), IF i = 4 THEN "/" ELSE ".")
  <2>1. IsList(B, 4) /\ 4 \in Nat
      BY DEF ByteList
  <2> QED
      BY <1>1, <2>1, RowItems
<1>3. PICK item : item = Item(Digits(10, mask), "end")
    OBVIOUS
<1>4. IsList(W, 5) /\ W[5] = item /\ \A i \in 1 .. 4 : W[i] = T[i]
  <2>1. PICK m \in Nat : m = 4
      OBVIOUS
  <2>2. IsList(T, m) /\ W = WithMask(T, mask)
      BY <1>1, <1>2, <2>1, Zenon
  <2> HIDE <2>1
  <2>3. IsList(W, m + 1) /\ W[m + 1] = item /\ \A i \in 1 .. m : W[i] = T[i]
      BY <1>3, <2>2, MaskItem
  <2> QED
      BY <2>1, <2>3
<1>5. PICK s : s = Start("ipv4", "network")
    OBVIOUS
<1>6. PICK at : Trace(at, s, W, 5)
  <2>1. 5 \in Nat
      OBVIOUS
  <2> QED
      BY <1>4, <2>1, ListRead, Zenon
<1>7. /\ Steps(at, T, 4) /\ at[0] = s /\ at[5] = ReadAll(s, W)
      /\ at[5] = ReadOne(at[4], item)
  <2>1. \A i \in 0 .. 4 : at[i + 1] = ReadOne(at[i], W[i + 1])
      BY <1>6 DEF Trace
  <2>2. \A i \in 0 .. 3 : i \in 0 .. 4 /\ i + 1 \in 1 .. 4
      OBVIOUS
  <2>3. Steps(at, T, 4)
      BY <1>4, <2>1, <2>2 DEF Steps
  <2>4. at[5] = ReadOne(at[4], W[5])
      BY <2>1
  <2> QED
      BY <1>4, <1>6, <2>3, <2>4 DEF Trace
<1>8. PICK kind : kind = "network"
    OBVIOUS
<1>9. PICK then : then = "/"
    OBVIOUS
<1>10. Finished4(at[4], kind, B)
  <2>1. at[0] = Start("ipv4", kind) /\ then = (IF kind = "host" THEN "end" ELSE "/")
      BY <1>5, <1>7, <1>8, <1>9
  <2>2. \A i \in 1 .. 4 : T[i] = Item(Digits(10, B[i]), IF i = 4 THEN then ELSE ".")
      BY <1>2, <1>9, Zenon
  <2> HIDE <1>8, <1>9
  <2>3. Steps(at, T, 4)
      BY <1>7
  <2> QED
      BY <2>1, <2>2, <2>3, BytesRead, Zenon
<1>11. PICK q : q = at[4]
    OBVIOUS
<1>12. PICK r : r = [q EXCEPT !.status = "done", !.mask = mask]
    OBVIOUS
<1>13. /\ DOMAIN q = Parts /\ q.version = "ipv4" /\ q.kind = "network" /\ q.status = "slash"
       /\ q.decimals = B
    BY <1>8, <1>10, <1>11 DEF Finished4, Bytes4
<1>14. r = ReadAll(Start(o.version, o.kind), W)
  <2>1. q.version \in {"ipv4", "ipv6"} /\ mask <= Limit(q.version)
      BY <1>13 DEF Limit
  <2>2. ReadOne(q, item) = [q EXCEPT !.status = "done", !.mask = mask]
    <3>1. DOMAIN q = Parts /\ q.status = "slash"
        BY <1>13
    <3> QED
        BY <1>3, <2>1, <3>1, MaskBack, Zenon
  <2> QED
      BY <1>5, <1>7, <1>11, <1>12, <2>2
<1>15. /\ r.status = "done" /\ r.mask = mask /\ r.version = "ipv4" /\ r.kind = "network"
       /\ r.decimals = B
    BY <1>12, <1>13 DEF Parts
<1>16. Object(r) = o
    BY <1>15 DEF Object, IsMasked
<1>17. Streamed(r, o.mask) = [o EXCEPT !.mask = mask, !.numbers = MaskedNumbers(@, 8, mask)]
    BY <1>15, <1>16 DEF Streamed
<1>18. Streamed(r, o.mask) = o
    BY <1>17 DEF IsMasked
<1> QED
    BY <1>14, <1>15, <1>16, <1>18 DEF ReadBack

-----------------------------------------------------------------------------
(***************************************************************************)
(* Every style of an IPv6 address writes a text that is read as the        *)
(* address.                                                                *)
(***************************************************************************)
LEMMA VisualizedReadable ==
    ASSUME NEW Q, QuadList(Q, 8), NEW style, NEW then \in Ends,
           then = "end" \/ style # "dotted_quad", NEW base,
           Visualized6(Q, style, then, base) # {}
    PROVE  \E w \in Visualized6(Q, style, then, base) : Readable(w.text, Q, then)
<1>1. CASE style = "expanded"
  <2>1. PICK w : w = Written(expanded(Q, then), 16)
      OBVIOUS
  <2>2. w \in Visualized6(Q, style, then, base)
      BY <1>1, <2>1 DEF Visualized6
  <2>3. w.text = expanded(Q, then)
      BY <2>1 DEF Written
  <2> QED
      BY <2>2, <2>3, ExpandedReadable, Zenon
<1>2. CASE style = "dotted_quad"
  <2>1. PICK T \in dotted_quad(Q, LastBytes(Q)) : Readable(T, Q, "end")
      BY DottedQuadReadable, Zenon
  <2>2. Written(T, 10) \in Visualized6(Q, style, then, base)
      BY <1>2 DEF Visualized6
  <2>3. Written(T, 10).text = T
      BY DEF Written
  <2> QED
      BY <1>2, <2>1, <2>2, <2>3, Zenon
<1>3. CASE style \in {"canonical", "strict", "microsoft"}
  <2>1. PICK d \in {":", "-"} : d = IF style = "microsoft" THEN "-" ELSE ":"
      OBVIOUS
  <2>2. PICK b : b = IF \E i \in DOMAIN Q : Q[i] # 0 THEN 16 ELSE base
      OBVIOUS
  <2>3. Visualized6(Q, style, then, base) = {Written(deflated(Q, d, then), b)}
    <3>1. style # "expanded" /\ style # "dotted_quad"
        BY <1>3
    <3> QED
        BY <1>3, <2>1, <2>2, <3>1, Zenon DEF Visualized6
  <2>4. PICK w : w = Written(deflated(Q, d, then), b)
      OBVIOUS
  <2>5. w.text = deflated(Q, d, then)
      BY <2>4 DEF Written
  <2>6. Readable(w.text, Q, then)
      BY <2>5, DeflatedReadable, Zenon
  <2> QED
      BY <2>3, <2>4, <2>6, Zenon
<1>4. CASE style \notin {"expanded", "dotted_quad", "canonical", "strict", "microsoft"}
  <2>1. /\ style # "expanded" /\ style # "dotted_quad"
        /\ style \notin {"canonical", "strict", "microsoft"}
      BY <1>4
  <2>2. Visualized6(Q, style, then, base) = {}
      BY <2>1, Zenon DEF Visualized6
  <2> QED
      BY <2>2
<1> QED
    BY <1>1, <1>2, <1>3, <1>4, Zenon

NumberList(u, n, max) == IsList(u, n) /\ \A i \in 1 .. n : u[i] \in Nat /\ u[i] <= max

LEMMA MaskedStays ==
    ASSUME NEW n \in Nat, NEW u, NEW max \in Nat, NumberList(u, n, max),
           NEW width \in {8, 16}, NEW mask \in Nat
    PROVE  /\ NumberList(MaskedNumbers(u, width, mask), n, max)
           /\ IsMasked(MaskedNumbers(u, width, mask), width, mask)
<1>1. PICK v : v = MaskedNumbers(u, width, mask)
    OBVIOUS
<1>2. IsList(u, n) /\ \A i \in 1 .. n : u[i] \in Nat /\ u[i] <= max
    BY DEF NumberList
<1>3. /\ IsList(v, n) /\ \A i \in 1 .. n : v[i] \in Nat /\ v[i] <= max
      /\ MaskedNumbers(v, width, mask) = v
    BY <1>1, <1>2, MaskedTwice
<1> QED
    BY <1>1, <1>3, Zenon DEF NumberList, IsMasked

LEMMA MaskedQuads ==
    ASSUME NEW u, QuadList(u, 8), NEW mask \in Nat
    PROVE  QuadList(MaskedNumbers(u, 16, mask), 8) /\ IsMasked(MaskedNumbers(u, 16, mask), 16, mask)
<1>1. PICK n \in Nat : n = 8
    OBVIOUS
<1>2. PICK width \in {8, 16} : width = 16
    OBVIOUS
<1>3. PICK max \in Nat : max = MaxQuad
    BY MaxQuadNumber
<1>4. NumberList(u, n, max)
    BY <1>1, <1>3, Zenon DEF QuadList, NumberList
<1>5. /\ NumberList(MaskedNumbers(u, width, mask), n, max)
      /\ IsMasked(MaskedNumbers(u, width, mask), width, mask)
  <2> HIDE <1>1, <1>2, <1>3
  <2> QED
      BY <1>4, MaskedStays, Zenon
<1> QED
    BY <1>1, <1>2, <1>3, <1>5, Zenon DEF QuadList, NumberList

LEMMA MaskedBytes ==
    ASSUME NEW u, ByteList(u), NEW mask \in Nat
    PROVE  ByteList(MaskedNumbers(u, 8, mask)) /\ IsMasked(MaskedNumbers(u, 8, mask), 8, mask)
<1>1. PICK n \in Nat : n = 4
    OBVIOUS
<1>2. PICK width \in {8, 16} : width = 8
    OBVIOUS
<1>3. PICK max \in Nat : max = 255
    OBVIOUS
<1>4. NumberList(u, n, max)
    BY <1>1, <1>3, Zenon DEF ByteList, NumberList
<1>5. /\ NumberList(MaskedNumbers(u, width, mask), n, max)
      /\ IsMasked(MaskedNumbers(u, width, mask), width, mask)
  <2> HIDE <1>1, <1>2, <1>3
  <2> QED
      BY <1>4, MaskedStays, Zenon
<1> QED
    BY <1>1, <1>2, <1>3, <1>5, Zenon DEF ByteList, NumberList

LEMMA ObjectBack6 ==
    ASSUME NEW q, Sound(q), q.status = "done", q.version = "ipv6",
           NEW o, o = Object(q), NEW style, NEW base,
           Visualize(o, style, base) # {}
    PROVE  \E w \in Visualize(o, style, base) : ReadBack(o, w.text)
<1>1. /\ DOMAIN q = Parts /\ q.kind \in {"host", "network"} /\ QuadList(Numbers6(q), 8)
      /\ q.mask \in Nat /\ q.mask <= 128 /\ (q.kind = "host" => q.mask = 0)
    BY DEF Sound, NumbersFit, Limit
<1>2. PICK Q : Q = IF q.kind = "host" THEN Numbers6(q) ELSE MaskedNumbers(Numbers6(q), 16, q.mask)
    OBVIOUS
<1>3. o = [version |-> "ipv6", kind |-> q.kind, mask |-> q.mask, numbers |-> Q]
    BY <1>2 DEF Object
<1>4. CASE q.kind = "host"
  <2>1. QuadList(Q, 8) /\ o = [version |-> "ipv6", kind |-> "host", mask |-> 0, numbers |-> Q]
      BY <1>1, <1>2, <1>3, <1>4
  <2>2. PICK named : Visualize(o, style, base) = Visualized6(Q, named, "end", base)
      BY <1>4, <2>1 DEF Visualize, V6HostVisualize
  <2>3. "end" \in Ends
      BY DEF Ends
  <2>4. PICK w \in Visualized6(Q, named, "end", base) : Readable(w.text, Q, "end")
      BY <2>1, <2>2, <2>3, VisualizedReadable, Zenon
  <2>5. ReadBack(o, w.text)
      BY <2>1, <2>4, HostBack, Zenon
  <2> QED
      BY <2>2, <2>4, <2>5, Zenon
<1>5. CASE q.kind = "network"
  <2>1. QuadList(Q, 8) /\ MaskedNumbers(Q, 16, q.mask) = Q
    <3>1. PICK u : u = Numbers6(q)
        OBVIOUS
    <3>2. Q = MaskedNumbers(u, 16, q.mask)
        BY <1>2, <1>5, <3>1
    <3>3. QuadList(u, 8)
        BY <1>1, <3>1
    <3> QED
        BY <1>1, <3>2, <3>3, MaskedQuads, Zenon DEF IsMasked
  <2>2. PICK mask \in Nat : mask = q.mask /\ mask <= 128
      BY <1>1
  <2>3. o = [version |-> "ipv6", kind |-> "network", mask |-> mask, numbers |-> Q]
      BY <1>3, <1>5, <2>2
  <2>4. PICK named : named = IF style = "customary" THEN "canonical" ELSE style
      OBVIOUS
  <2>5. /\ style # "dotted_quad"
        /\ Visualize(o, style, base)
              = {Written(w.text \o <<Item(Digits(10, mask), "end")>>, 10) :
                    w \in Visualized6(Q, named, "/", base)}
    <3>1. Visualize(o, style, base) = V6NetworkVisualize(Q, mask, style, base)
        BY <2>3 DEF Visualize
    <3> QED
        BY <2>4, <3>1, Zenon DEF V6NetworkVisualize
  <2>6. Visualized6(Q, named, "/", base) # {}
      BY <2>5
  <2>7. named # "dotted_quad" /\ "/" \in Ends
      BY <2>4, <2>5 DEF Ends
  <2>8. PICK w \in Visualized6(Q, named, "/", base) : Readable(w.text, Q, "/")
      BY <2>1, <2>6, <2>7, VisualizedReadable, Zenon
  <2>9. PICK x : x = Written(w.text \o <<Item(Digits(10, mask), "end")>>, 10)
      OBVIOUS
  <2>10. x \in Visualize(o, style, base) /\ x.text = w.text \o <<Item(Digits(10, mask), "end")>>
      BY <2>5, <2>9 DEF Written
  <2>11. ReadBack(o, x.text)
      BY <2>1, <2>2, <2>3, <2>8, <2>10, NetworkBack, Zenon
  <2> QED
      BY <2>10, <2>11, Zenon
<1> QED
    BY <1>1, <1>4, <1>5

LEMMA ObjectBack4 ==
    ASSUME NEW q, Sound(q), q.status = "done", q.version = "ipv4",
           NEW o, o = Object(q), NEW style,
           Visualize(o, style, 10) # {}
    PROVE  \E w \in Visualize(o, style, 10) : ReadBack(o, w.text)
<1>1. /\ DOMAIN q = Parts /\ q.kind \in {"host", "network"} /\ ByteList(q.decimals)
      /\ q.mask \in Nat /\ q.mask <= 32 /\ (q.kind = "host" => q.mask = 0)
    BY DEF Sound, NumbersFit, Limit
<1>2. PICK B : B = IF q.kind = "host" THEN q.decimals ELSE MaskedNumbers(q.decimals, 8, q.mask)
    OBVIOUS
<1>3. o = [version |-> "ipv4", kind |-> q.kind, mask |-> q.mask, numbers |-> B]
    BY <1>2 DEF Object
<1>4. PICK T : T = IF q.kind = "host" THEN Row(B, 10, ".", "end")
                   ELSE Row(B, 10, ".", "/") \o <<Item(Digits(10, q.mask), "end")>>
    OBVIOUS
<1>5. Visualize(o, style, 10) = {Written(T, 10)}
  <2>1. Visualize(o, style, 10) = V4Visualize(B, q.kind, q.mask, style, 10)
      BY <1>3 DEF Visualize
  <2>2. style \in {"customary", "dot_decimal"}
      BY <2>1, Zenon DEF V4Visualize
  <2> QED
      BY <1>4, <2>1, <2>2, Zenon DEF V4Visualize
<1>6. ReadBack(o, T)
  <2>1. CASE q.kind = "host"
    <3>1. /\ ByteList(B) /\ T = Row(B, 10, ".", "end")
          /\ o = [version |-> "ipv4", kind |-> "host", mask |-> 0, numbers |-> B]
        BY <1>1, <1>2, <1>3, <1>4, <2>1
    <3> QED
        BY <3>1, HostBack4, Zenon
  <2>2. CASE q.kind = "network"
    <3>1. PICK mask \in Nat : mask = q.mask /\ mask <= 32
        BY <1>1
    <3>2. /\ T = WithMask(Row(B, 10, ".", "/"), mask)
          /\ o = [version |-> "ipv4", kind |-> "network", mask |-> mask, numbers |-> B]
        BY <1>3, <1>4, <2>2, <3>1 DEF WithMask
    <3>3. ByteList(B) /\ IsMasked(B, 8, mask)
      <4>1. PICK u : u = q.decimals
          OBVIOUS
      <4>2. B = MaskedNumbers(u, 8, mask)
          BY <1>2, <2>2, <3>1, <4>1
      <4>3. ByteList(u)
          BY <1>1, <4>1
      <4> QED
          BY <4>2, <4>3, MaskedBytes, Zenon
    <3> QED
        BY <3>1, <3>2, <3>3, NetworkBack4, Zenon
  <2> QED
      BY <1>1, <2>1, <2>2
<1>7. Written(T, 10).text = T
    BY DEF Written
<1> QED
    BY <1>5, <1>6, <1>7, Zenon

LEMMA SoundIsReadBack == Sound(p) => WritesWhatItReads
<1> SUFFICES ASSUME Sound(p), p.status = "done", NEW style \in Styles, NEW outcomes,
                    outcomes = Visualize(Object(p), style, IF p.version = "ipv4" THEN 10 ELSE os),
                    outcomes # {}
             PROVE  \E w \in outcomes : ReadBack(Object(p), w.text)
    BY Zenon DEF WritesWhatItReads
<1>1. p.version \in {"ipv4", "ipv6"}
    BY DEF Sound
<1>2. CASE p.version = "ipv4"
  <2>1. outcomes = Visualize(Object(p), style, 10)
      BY <1>2
  <2> QED
      BY <1>2, <2>1, ObjectBack4, Zenon
<1>3. CASE p.version = "ipv6"
  <2>1. outcomes = Visualize(Object(p), style, os)
      BY <1>3
  <2> QED
      BY <1>3, <2>1, ObjectBack6, Zenon
<1> QED
    BY <1>1, <1>2, <1>3

(***************************************************************************)
(* Whatever text an address or network was read from, and whatever style   *)
(* it is then written in: what visualize of ip_address.cpp writes is read  *)
(* back by assign(string) as the same object, with the same mask, under    *)
(* the two conditions that WritesWhatItReads names: a decimal stream for   *)
(* IPv4, and the colon written where the code leaves it open.  operator >> *)
(* reads it back too, an IPv4 network into one that has this mask already. *)
(***************************************************************************)
THEOREM WrittenIsReadBack == TextSpec => []WritesWhatItReads
  BY SoundHolds, SoundIsReadBack, PTL
=============================================================================
