------------------------------- MODULE Binary -------------------------------
(***************************************************************************)
(* binary<Size> (include/cool/ng/binary.h): a fixed number of bytes.  As   *)
(* in the notes at the class, bit 0 is the most significant bit of the     *)
(* first byte and bit 8*size-1 the least significant bit of the last; the  *)
(* bytes are the set of the bits that are set.  Two containers of          *)
(* different size are aligned at their last bytes.                         *)
(***************************************************************************)
EXTENDS Integers, Sequences

Container(size) == [size : {size}, bits : SUBSET (0 .. 8 * size - 1)]

(***************************************************************************)
(* Bytes written as numbers, the way the initializer lists and arrays give *)
(* them: bit j of a byte, counted from its most significant bit.           *)
(***************************************************************************)
BitsOf(bytes) ==
    {i \in 0 .. 8 * Len(bytes) - 1 : (bytes[(i \div 8) + 1] \div 2^(7 - (i % 8))) % 2 = 1}

Array(bytes) == [size |-> Len(bytes), bits |-> BitsOf(bytes)]

Zero(size) == [size |-> size, bits |-> {}]

AlignedAtFront(src, dst) == {i \in 0 .. 8 * dst.size - 1 : i \in src.bits}

\* The bits of src at the places they have in dst when the last bytes are
\* aligned; what does not fit is cut off.
Aligned(src, dst) ==
    {i \in 0 .. 8 * dst.size - 1 : i - 8 * (dst.size - src.size) \in src.bits}

\* The bits of dst that have a counterpart in src.
Common(src, dst) == {i \in 0 .. 8 * dst.size - 1 : i >= 8 * (dst.size - src.size)}

Copy(dst, src, zero) ==
    [dst EXCEPT !.bits = Aligned(src, dst) \cup
                           (IF zero THEN {} ELSE dst.bits \ Common(src, dst))]

FromList(size, list) == Copy(Zero(size), Array(list), TRUE)

OpAnd(dst, src) ==
    [dst EXCEPT !.bits = (@ \ Common(src, dst)) \cup (@ \cap Aligned(src, dst))]

OpOr(dst, src) == [dst EXCEPT !.bits = @ \cup Aligned(src, dst)]

OpXor(dst, src) ==
    [dst EXCEPT !.bits = (@ \ Aligned(src, dst)) \cup (Aligned(src, dst) \ @)]

OpNot(b) == [b EXCEPT !.bits = (0 .. 8 * b.size - 1) \ @]

\* start is compared as an unsigned number, so a negative one is refused too.
CanSet(b, start) == start \in 0 .. b.size - 1

Set(b, start, data, size) ==
    LET n == IF size < b.size - start THEN size ELSE b.size - start
        written == 8 * start .. 8 * (start + n) - 1
    IN  [b EXCEPT !.bits = (@ \ written) \cup {i \in written : i - 8 * start \in data.bits}]

(***************************************************************************)
(* The comparisons.  memcmp of two arrays of one size is decided by the    *)
(* first bit in which they differ; a shorter container is less.            *)
(***************************************************************************)
MemcmpLess(l, r) ==
    \E i \in r.bits \ l.bits : \A j \in 0 .. i - 1 : j \in l.bits <=> j \in r.bits

Equals(l, r) == l.size = r.size /\ l.bits = r.bits

Less(l, r) == IF l.size # r.size THEN l.size < r.size ELSE MemcmpLess(l, r)

LessEq(l, r) == IF l.size # r.size THEN l.size < r.size ELSE ~MemcmpLess(r, l)

\* A plain array has no size of its own: the bytes the container needs are read.
Raw(a, b) == [size |-> b.size, bits |-> {i \in a.bits : i < 8 * b.size}]
ArrayLess(a, b) == ~LessEq(b, Raw(a, b))
ArrayLessEq(a, b) == ~Less(b, Raw(a, b))
=============================================================================
