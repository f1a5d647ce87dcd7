------------------------------ MODULE IpAddress ------------------------------
(***************************************************************************)
(* IP addresses (lib/src/ip_address.cpp): an object of each of the four    *)
(* classes, the assignments and conversions between them, membership in    *)
(* networks, and the tables of special purpose ranges, which a program may *)
(* extend.                                                                 *)
(*                                                                         *)
(* An address is a record; its data is the set of the bits that are set,   *)
(* bit 0 first (module Binary).  A function of the code that may throw is  *)
(* an operator whose value is the set of its results, empty when it        *)
(* throws.  Text is modelled by module IpText.                             *)
(***************************************************************************)
EXTENDS Binary, FiniteSets

CONSTANTS
    Data4,      \* contents of struct in_addr and of 4 byte arrays, as bits
    Data6,      \* contents of struct in6_addr and of 16 byte arrays, as bits
    Lengths,    \* the mask lengths networks are constructed with
    NewRanges,  \* the ranges assigned::add is called with, with their version
    MaxAdded    \* bound on the calls to assigned::add

ASSUME DataAssumption ==
    /\ Data4 \subseteq SUBSET (0 .. 31)
    /\ Data6 \subseteq SUBSET (0 .. 127)
    /\ Lengths \subseteq Nat

\* A range is a network of its version, with a mask its constructor accepts.
ASSUME RangesAssumption ==
    \A range \in NewRanges :
        /\ range.net.version \in {"ipv4", "ipv6"}
        /\ range.net.mask \in 0 .. 128

VARIABLES
    addr,   \* the objects, by class
    added   \* the ranges that were added to the two tables, oldest first

ipVars == <<addr, added>>

Classes == {"h4", "n4", "h6", "n6"}

Width(version) == IF version = "ipv4" THEN 32 ELSE 128

Host(version, data) == [version |-> version, kind |-> "host", data |-> data, mask |-> 0]

\* calculate_mask: whole bytes first, then the upper bits of the next one.
CalculateMask(length, i) ==
    LET limit == length \div 8
    IN  i \div 8 < limit \/ (i \div 8 = limit /\ i % 8 < length % 8)

Masked(data, length) == {i \in data : CalculateMask(length, i)}

NetworkUnmasked(version, length, data) ==
    [version |-> version, kind |-> "network", data |-> data, mask |-> length]

Network(version, length, data) ==
    [version |-> version, kind |-> "network", data |-> Masked(data, length), mask |-> length]

(***************************************************************************)
(* The tables of special purpose ranges, in the order of the enumerations. *)
(***************************************************************************)
Range4(length, bytes, attributes) ==
    [net |-> Network("ipv4", length, BitsOf(bytes)), attributes |-> attributes]

Range6(length, bytes, attributes) ==
    [net |-> Network("ipv6", length, FromList(16, bytes).bits), attributes |-> attributes]

None == {}
Src == {"source"}
Dst == {"destination"}
Link == Src \cup Dst
Local == Link \cup {"forwardable"}
Open == Local \cup {"global"}
Many == {"destination", "forwardable", "global", "multicast"}

default_attributes == Open

Ipv4Numbers == <<
    Range4( 8, <<0, 0, 0, 0>>, Src),         Range4( 8, <<10, 0, 0, 0>>, Local),
    Range4(10, <<100, 64, 0, 0>>, Local),    Range4( 8, <<127, 0, 0, 0>>, None),
    Range4(12, <<172, 16, 0, 0>>, Local),    Range4(24, <<192, 0, 0, 0>>, None),
    Range4(29, <<192, 0, 0, 0>>, Local),     Range4(32, <<192, 0, 0, 8>>, Src),
    Range4(32, <<192, 0, 0, 9>>, Open),      Range4(32, <<192, 0, 0, 10>>, Open),
    Range4(32, <<192, 0, 0, 170>>, None),    Range4(32, <<192, 0, 0, 171>>, None),
    Range4(24, <<192, 0, 2, 0>>, None),      Range4(24, <<192, 31, 196, 0>>, Open),
    Range4(24, <<192, 52, 193, 0>>, Open),   Range4(16, <<192, 168, 0, 0>>, Local),
    Range4(24, <<192, 175, 48, 0>>, Open),   Range4(15, <<198, 18, 0, 0>>, Local),
    Range4(24, <<198, 51, 100, 0>>, None),   Range4(24, <<203, 0, 113, 0>>, None),
    Range4( 4, <<224, 0, 0, 0>>, Many),      Range4( 4, <<240, 0, 0, 0>>, None),
    Range4(32, <<255, 255, 255, 255>>, Dst), Range4(16, <<169, 254, 0, 0>>, Link)>>

Low(bytes, n) == bytes \o [i \in 1 .. n |-> 0]

Ipv6Numbers == <<
    Range6(128, <<0>>, Src),
    Range6(128, <<1>>, None),
    Range6( 96, <<255, 255, 0, 0, 0, 0>>, {"originated"}),
    Range6( 96, Low(<<0, 100, 255, 155>>, 12), Open \cup {"originated"}),
    Range6( 48, Low(<<0, 100, 255, 155, 0, 1>>, 10), Local \cup {"originated"}),
    Range6( 64, Low(<<1>>, 15), Local),
    Range6( 23, Low(<<32, 1>>, 14), None),
    Range6( 32, Low(<<32, 1>>, 14), Local),
    Range6(128, Low(<<32, 1, 0, 1>>, 11) \o <<1>>, Open),
    Range6(128, Low(<<32, 1, 0, 1>>, 11) \o <<2>>, Open),
    Range6( 48, Low(<<32, 1, 0, 2>>, 12), Local),
    Range6( 32, Low(<<32, 1, 0, 3>>, 12), Open),
    Range6( 48, Low(<<32, 1, 0, 4, 1, 18>>, 10), Open),
    Range6( 28, Low(<<32, 1, 0, 32>>, 12), Open),
    Range6( 32, Low(<<32, 1, 13, 184>>, 12), None),
    Range6( 16, Low(<<32, 2>>, 14), Local),
    Range6( 48, Low(<<38, 32, 0, 79, 128>>, 11), Open),
    Range6(  8, Low(<<255>>, 15), Many),
    Range6(  7, Low(<<252>>, 15), Local),
    Range6( 10, Low(<<254, 128>>, 14), Link)>>

Numbers(version, more) ==
    (IF version = "ipv4" THEN Ipv4Numbers ELSE Ipv6Numbers)
        \o more[version]

unspecified == 1
loopback == [ipv4 |-> 4, ipv6 |-> 2]
rfc_ipv4map == Ipv6Numbers[3].net

(***************************************************************************)
(* Membership and attributes.  has compares under the mask of the network  *)
(* only; a mask the other address may have is not looked at.               *)
(***************************************************************************)
Has(net, other) ==
    /\ net.version = other.version
    /\ net.data = Masked(other.data, net.mask)

In(a, net) == a.version = net.version /\ Has(net, a)

is_ipv4_host(a) ==
    /\ a.kind = "host"
    /\ \/ a.version = "ipv4"
       \/ \E i \in DOMAIN Ipv6Numbers :
             /\ "originated" \in Ipv6Numbers[i].attributes
             /\ In(a, Ipv6Numbers[i].net)

is_special_number(table, a) == \E i \in DOMAIN table : In(a, table[i].net)

has_attribute_first(table, a, which) ==
    LET Holding == {i \in DOMAIN table : In(a, table[i].net)}
    IN  which \in IF Holding = {} THEN default_attributes
                  ELSE table[CHOOSE i \in Holding : \A j \in Holding : i <= j].attributes

\* The first of the ranges with the longest mask among those a is in.
has_attribute(table, a, which) ==
    LET Holding == {i \in DOMAIN table : In(a, table[i].net)}
        Selected ==
            CHOOSE i \in Holding : \A j \in Holding \ {i} :
                \/ table[j].net.mask < table[i].net.mask
                \/ table[j].net.mask = table[i].net.mask /\ i < j
    IN  which \in IF Holding = {} THEN default_attributes ELSE table[Selected].attributes

Is(a, attribute, more) ==
    LET table == Numbers(a.version, more)
    IN  CASE attribute = "unspecified" -> In(a, table[unspecified].net)
          [] attribute = "loopback" -> In(a, table[loopback[a.version]].net)
          [] attribute = "assigned" -> is_special_number(table, a)
          [] attribute = "ipv4originated" ->
                a.version = "ipv4" \/ has_attribute(table, a, "originated")
          [] OTHER -> has_attribute(table, a, attribute)

NetworkEquals(a, b) ==
    a.kind = b.kind /\ a.version = b.version /\ a.data = b.data /\ a.mask = b.mask

\* The bits of the last four bytes of an IPv6 address, and back.
LastFour(data) == {i - 96 : i \in {j \in data : j >= 96}}
AtTheEnd(data) == {i + 96 : i \in data}

V6HostEqualsBytes(a, b) ==
    /\ b.kind = "host"
    /\ IF b.version = "ipv6" THEN a.data = b.data ELSE LastFour(a.data) = b.data

V6HostEquals(a, b) ==
    /\ b.kind = "host"
    /\ \/ b.version = "ipv6" /\ a.data = b.data
       \/ b.version = "ipv4" /\ is_ipv4_host(a) /\ LastFour(a.data) = b.data

V4HostEquals(a, b) ==
    /\ b.kind = "host"
    /\ \/ b.version = "ipv4" /\ a.data = b.data
       \/ b.version = "ipv6" /\ is_ipv4_host(b) /\ a.data = LastFour(b.data)

Equals4(a, b) == IF a.kind = "host" THEN V4HostEquals(a, b) ELSE NetworkEquals(a, b)

Equals6(a, b) == IF a.kind = "host" THEN V6HostEquals(a, b) ELSE NetworkEquals(a, b)

AddressEquals(a, b) == IF a.version = "ipv4" THEN Equals4(a, b) ELSE Equals6(a, b)

(***************************************************************************)
(* Conversion to the socket structures.                                    *)
(***************************************************************************)
V6HostToInAddr(a) == IF is_ipv4_host(a) THEN {LastFour(a.data)} ELSE {}

V4HostToIn6Addr(a) == {rfc_ipv4map.data \cup AtTheEnd(a.data)}

ToInAddr(a) ==
    CASE a.version = "ipv4" -> {a.data}
      [] a.version = "ipv6" /\ a.kind = "host" -> V6HostToInAddr(a)
      [] OTHER -> {}

ToIn6Addr(a) ==
    CASE a.version = "ipv6" -> {a.data}
      [] a.version = "ipv4" /\ a.kind = "host" -> V4HostToIn6Addr(a)
      [] OTHER -> {}

(***************************************************************************)
(* Assignment of another address; a network applies its own mask to a host.*)
(***************************************************************************)
V6HostAssign(self, rhs) ==
    IF rhs.kind # "host" THEN {}
    ELSE IF rhs.version = "ipv6" THEN {Host("ipv6", rhs.data)}
    ELSE {Host("ipv6", rfc_ipv4map.data \cup AtTheEnd(rhs.data))}

V6NetworkAssign(self, rhs) ==
    IF rhs.version # "ipv6" THEN {}
    ELSE {Network("ipv6", IF rhs.kind = "host" THEN self.mask ELSE rhs.mask, rhs.data)}

V4HostAssign(self, rhs) ==
    IF rhs.kind # "host" THEN {}
    ELSE IF rhs.version = "ipv4" THEN {Host("ipv4", rhs.data)}
    ELSE IF is_ipv4_host(rhs) THEN {Host("ipv4", LastFour(rhs.data))} ELSE {}

\* A network assigned through the base class leaves the mask of the object.
V4NetworkAssign(self, rhs) ==
    IF rhs.version = "ipv4" THEN {Network("ipv4", self.mask, rhs.data)}
    ELSE IF rhs.kind = "host" /\ is_ipv4_host(rhs)
    THEN {Network("ipv4", self.mask, LastFour(rhs.data))} ELSE {}

Assigned(self, rhs) ==
    IF self.version = "ipv6"
    THEN IF self.kind = "host" THEN V6HostAssign(self, rhs) ELSE V6NetworkAssign(self, rhs)
    ELSE IF self.kind = "host" THEN V4HostAssign(self, rhs) ELSE V4NetworkAssign(self, rhs)

(***************************************************************************)
(* Assignment of the socket structures and of plain bytes, which have the  *)
(* size of the object they are assigned to.                                *)
(***************************************************************************)
Same(self, data) ==
    IF self.kind = "host" THEN Host(self.version, data)
                          ELSE Network(self.version, self.mask, data)

V6AssignInAddr(self, data) ==
    IF self.kind = "host" THEN {Host("ipv6", rfc_ipv4map.data \cup AtTheEnd(data))} ELSE {}

V4AssignIn6Addr(self, data) ==
    IF self.kind = "host" /\ is_ipv4_host(Host("ipv6", data))
    THEN {Host("ipv4", LastFour(data))} ELSE {}

FromInAddr(self, data) ==
    IF self.version = "ipv6" THEN V6AssignInAddr(self, data) ELSE {Same(self, data)}

FromIn6Addr(self, data) ==
    IF self.version = "ipv4" THEN V4AssignIn6Addr(self, data) ELSE {Same(self, data)}

\* The constructors with a mask length: the limit is checked, the contents masked.
V6NetworkConstruct(length, data) ==
    IF length <= 128 THEN {Network("ipv6", length, data)} ELSE {}

V4NetworkConstruct(length, data) ==
    IF length <= 32 THEN {Network("ipv4", length, data)} ELSE {}

(***************************************************************************)
(* The machine.                                                            *)
(***************************************************************************)
Unspecified4 == Host("ipv4", {})
Unspecified6 == Host("ipv6", {})

IpInit ==
    /\ addr = [h4 |-> Unspecified4, n4 |-> Network("ipv4", 8, {}),
               h6 |-> Unspecified6, n6 |-> Network("ipv6", 128, {})]
    /\ added = [ipv4 |-> <<>>, ipv6 |-> <<>>]

Become(c, results) ==
    /\ \E new \in results : addr' = [addr EXCEPT ![c] = new]
    /\ UNCHANGED added

AssignAddress(c, d) == Become(c, Assigned(addr[c], addr[d]))

AssignInAddr(c, data) == Become(c, FromInAddr(addr[c], data))

AssignIn6Addr(c, data) == Become(c, FromIn6Addr(addr[c], data))

Construct4(length, data) == Become("n4", V4NetworkConstruct(length, data))

Construct6(length, data) == Become("n6", V6NetworkConstruct(length, data))

\* assigned::add, of either version: never as an originated range.
add(range) ==
    /\ Len(added.ipv4) + Len(added.ipv6) < MaxAdded
    /\ added' = [added EXCEPT ![range.net.version] = Append(@, range)]
    /\ UNCHANGED addr

IpNext ==
    \/ \E c \in Classes, d \in Classes : AssignAddress(c, d)
    \/ \E c \in Classes, data \in Data4 : AssignInAddr(c, data)
    \/ \E c \in Classes, data \in Data6 : AssignIn6Addr(c, data)
    \/ \E length \in Lengths, data \in Data4 : Construct4(length, data)
    \/ \E length \in Lengths, data \in Data6 : Construct6(length, data)
    \/ \E range \in NewRanges : add(range)

IpSpec == IpInit /\ [][IpNext]_ipVars

-----------------------------------------------------------------------------
(***************************************************************************)
(* What a user relies on.                                                  *)
(***************************************************************************)

First(n, data) == {i \in data : i < n}

\* A network contains a host, or a network at least as narrow, exactly when
\* the first bits of both, as many as its mask says, are the same.  has
\* compares the stored bits with the masked bits of the other side, so this
\* needs every way to assign or construct a network to clear its host part.
MembershipIsPrefix ==
    \A c \in {"n4", "n6"}, d \in Classes :
        (addr[c].version = addr[d].version /\ (addr[d].kind = "host" \/ addr[d].mask >= addr[c].mask))
        => (In(addr[d], addr[c]) <=> First(addr[c].mask, addr[c].data) = First(addr[c].mask, addr[d].data))

\* Equality is decided by two functions, one per version of the left operand;
\* they agree, and hosts of different version that are equal convert into each
\* other through the objects and through the socket structures.
EqualityIsConversion ==
    /\ \A c \in Classes, d \in Classes :
          AddressEquals(addr[c], addr[d]) <=> AddressEquals(addr[d], addr[c])
    /\ AddressEquals(addr.h4, addr.h6) <=>
          (V4HostAssign(addr.h4, addr.h6) = {addr.h4} /\ ToInAddr(addr.h6) = ToInAddr(addr.h4))
    /\ \A mapped \in V6HostAssign(addr.h6, addr.h4) :
          /\ AddressEquals(mapped, addr.h4)
          /\ V4HostAssign(addr.h4, mapped) = {addr.h4}
          /\ ToIn6Addr(addr.h4) = ToIn6Addr(mapped)

\* A range added to the tables changes what is() says of a host only when the
\* host is in it, and then its own flags decide unless the host is also in a
\* range with a mask as long or longer.
AddedRangeIsLocal ==
    [][\A v \in {"ipv4", "ipv6"}, c \in {"h4", "h6"}, attribute \in Many \cup Src :
           added'[v] # added[v] =>
               LET range == added'[v][Len(added'[v])]
                   table == Numbers(addr[c].version, added)
                   decides == /\ In(addr[c], range.net)
                              /\ \A i \in DOMAIN table : In(addr[c], table[i].net)
                                                            => table[i].net.mask < range.net.mask
               IN  Is(addr[c], attribute, added') <=>
                     IF decides THEN attribute \in range.attributes
                                ELSE Is(addr[c], attribute, added)
      ]_ipVars
=============================================================================
