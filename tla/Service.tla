------------------------------- MODULE Service -------------------------------
(***************************************************************************)
(* cool::ng::ip::service: a transport, the address of a host in a          *)
(* host_container, a port, and a union with the socket address made of     *)
(* them for the system calls, which sync() is to keep up to date.          *)
(*                                                                         *)
(* A text is given by what it says: the transport, the host, the port.     *)
(***************************************************************************)
EXTENDS IpAddress

CONSTANTS
    Ports,      \* port numbers, in host byte order
    Objects     \* the addresses, hosts and networks, services are made from

ASSUME PortAssumption == Ports \subseteq 0 .. 65535

VARIABLE svc

Transports == {"udp", "tcp"}
NoPort == -1

\* htons and ntohs, on a little endian machine.
htons(port) == (port % 256) * 256 + port \div 256
ntohs(port) == htons(port)

\* The structures a caller may pass: either family with any contents.
Sockaddrs ==
    [family : {"ipv4"}, data : Data4, port : {htons(p) : p \in Ports}] \cup
    [family : {"ipv6"}, data : Data6, port : {htons(p) : p \in Ports}]

\* A host_container takes the version of a host assigned to it; its
\* constructors and assign create a host of that version in place.
HostContainer(a) ==
    IF a.version = "ipv4" THEN V4HostAssign(Unspecified4, a) ELSE V6HostAssign(Unspecified6, a)

HostContainerFromSockaddr(sa) ==
    IF sa.family = "ipv4" THEN {Host("ipv4", sa.data)} ELSE {Host("ipv6", sa.data)}

\* The union after sync(): the structure of the version of the host.
Sockaddr(host, port) ==
    [family |-> host.version, data |-> host.data, port |-> htons(port)]

sync(s) == [s EXCEPT !.sockaddr = Sockaddr(s.host, s.port)]

\* service(transport): the address is ipv6::host::unspecified, the port 0.
Fresh(t) ==
    sync([proto |-> t, host |-> Unspecified6, port |-> 0,
          sockaddr |-> Sockaddr(Unspecified6, 0)])

\* service(): the union is not initialised and cannot be read before it is.
Invalid == [Fresh("tcp") EXCEPT !.proto = "unknown"]

\* assign(sockaddr): not for a null pointer, an invalid service, another family.
SockaddrAssigned(s, sa) ==
    IF s.proto = "unknown" THEN {}
    ELSE {sync([s EXCEPT !.host = host, !.port = ntohs(sa.port)]) :
            host \in HostContainerFromSockaddr(sa)}

\* service(transport, address, port): the constructor it delegates to has
\* called sync(), the two assignments in its own body are not followed by one.
FromAddress(t, a, p) ==
    {[Fresh(t) EXCEPT !.host = host, !.port = p] : host \in HostContainer(a)}

\* The parser behind >> and the text constructor.  A port too large is read as
\* the largest; a text that ends at the colon leaves the port uninitialised.
ParsedPorts(n) ==
    IF n = NoPort THEN Ports ELSE {IF n > 65535 THEN 65535 ELSE n}

Texts == [proto : Transports, host : {a \in Objects : a.kind = "host"},
          port : Ports \cup {NoPort, 65536}]

Parsed(text) ==
    UNION {FromAddress(text.proto, text.host, p) : p \in ParsedPorts(text.port)}

-----------------------------------------------------------------------------

SvcInit == svc = Invalid

NewService(t) == svc' = Fresh(t)

NewFromSockaddr(t, sa) == svc' \in SockaddrAssigned(Fresh(t), sa)

NewFromAddress(t, a, p) == svc' \in FromAddress(t, a, p)

AssignSockaddr(sa) == svc' \in SockaddrAssigned(svc, sa)

\* assign(text): what was parsed is copied, then brought up to date.
AssignText(text) == \E s \in Parsed(text) : svc' = sync(s)

\* is >> service copies the parsed object with the union it has.
Extract(text) == \E s \in Parsed(text) : svc' = s

SvcNext ==
    \/ \E t \in Transports : NewService(t)
    \/ \E t \in Transports, sa \in Sockaddrs : NewFromSockaddr(t, sa)
    \/ \E t \in Transports, a \in Objects, p \in Ports : NewFromAddress(t, a, p)
    \/ \E sa \in Sockaddrs : AssignSockaddr(sa)
    \/ \E text \in Texts : AssignText(text) \/ Extract(text)

-----------------------------------------------------------------------------

\* sockaddr() returns the socket address of the host and port of the service.
SockaddrIsCurrent ==
    svc.proto # "unknown" => svc.sockaddr = Sockaddr(svc.host, svc.port)
=============================================================================
