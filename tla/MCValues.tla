------------------------------ MODULE MCValues ------------------------------
(***************************************************************************)
(* The value types in one run.  They share no state: only one of them      *)
(* moves in a behaviour, while the others are as they were created.        *)
(***************************************************************************)
EXTENDS Service, BinaryValues, IpText

VARIABLE moving

ByteLists == {<<1>>, <<255>>, <<1, 255>>, <<0, 255, 1>>, <<255, 0, 0, 1>>}
SetStarts == {-1, 0, 1, 2, 3}

Contents4 == {BitsOf(<<10, 1, 2, 3>>), BitsOf(<<192, 0, 0, 9>>)}
Contents6 == {BitsOf(Low(<<0, 100, 255, 155>>, 8) \o <<192, 0, 0, 9>>),
              BitsOf(Low(<<32, 1, 0, 1>>, 11) \o <<1>>)}
MaskLengths == {0, 24, 31, 96, 129}
Ranges == {Range4(24, <<10, 1, 2, 0>>, Src), Range4(32, <<192, 0, 0, 9>>, None),
           Range6(100, Low(<<255, 255>>, 4), Open)}

PortNumbers == {80, 258, 65535}
Addresses == {Host("ipv4", BitsOf(<<10, 1, 2, 3>>)), Host("ipv6", {127}), Network("ipv4", 8, {4, 6})}

TextItems6 ==
    {Item(<<0>>, ":"), Item(<<15>>, ":"), Item(<<>>, ":"), Item(<<1>>, "-"), Item(<<>>, "-"),
     Item(<<2, 5, 5>>, "."), Item(<<>>, "."), Item(<<>>, "end"),
     Item(<<1, 0>>, "end"), Item(<<1, 0>>, "/"), Item(<<2>>, "space")}
TextItems4 == {Item(w, t) : w \in {<<0>>, <<1, 0>>, <<2, 5, 6>>, <<>>}, t \in {".", "end", "/"}}
MaskWords == {<<>>, <<0>>, <<2, 4>>, <<9, 9>>, <<1, 2, 9>>}

vars == <<moving, short, long, addr, added, svc, input, held, p, os>>

Init ==
    /\ moving \in {"binary", "address", "service", "text"}
    /\ BinInit /\ IpInit /\ SvcInit /\ TextInit
    /\ moving # "text" => p = Start("ipv4", "host")

Next ==
    /\ UNCHANGED moving
    /\ \/ moving = "binary" /\ BinNext /\ UNCHANGED <<addr, added, svc, input, held, p, os>>
       \/ moving = "address" /\ IpNext /\ UNCHANGED <<short, long, svc, input, held, p, os>>
       \/ moving = "service" /\ SvcNext /\ UNCHANGED <<short, long, addr, added, input, held, p, os>>
       \/ moving = "text" /\ TextNext /\ UNCHANGED <<short, long, addr, added, svc>>

Spec == Init /\ [][Next]_vars

\* White space is met in the first quad or decimal, and a quad it was met in is
\* the only one; networks are read in full only in short texts; the quads are
\* mostly zeros, with as many others as it takes to leave no run of zeros; and a
\* second address is an IPv4 one when the stream was left with hexadecimal numbers.
Bounded ==
    /\ p.version = "ipv6" /\ p.kind = "network" => Len(p.quads) <= 2 \/ p.status # "reading"
    /\ held # <<>> => /\ Len(held) <= 1 /\ Len(p.decimals) <= 1
                      /\ \A i \in DOMAIN p.quads : p.quads[i] = 0 /\ p.decimals # <<>>
    /\ (\E i \in DOMAIN p.quads : p.quads[i] \notin {0, 1, 15, 16}) => Len(p.quads) = 1
    /\ Cardinality({i \in DOMAIN p.quads : p.quads[i] # 0}) <= 4
    /\ os = 16 => p.version = "ipv4" \/ p.status = "done"
=============================================================================
