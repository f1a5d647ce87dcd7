---------------------------- MODULE BinaryValues ----------------------------
(***************************************************************************)
(* Two binary containers of different size and the operations between      *)
(* them.                                                                   *)
(***************************************************************************)
EXTENDS Binary

CONSTANTS
    Short, Long,    \* the sizes of the two containers, in bytes
    Lists,          \* initializer lists and arrays, as sequences of bytes
    Starts          \* the positions set() is called with

ASSUME SizeAssumption ==
    /\ Short \in Nat \ {0} /\ Long \in Nat \ {0} /\ Short < Long
    /\ Lists \subseteq Seq(0 .. 255)

VARIABLES short, long

binVars == <<short, long>>

BinInit == short = Zero(Short) /\ long = Zero(Long)

Construct(list) ==
    \/ short' = FromList(Short, list) /\ UNCHANGED long
    \/ long' = FromList(Long, list) /\ UNCHANGED short

CopyOver ==
    \/ short' = Copy(short, long, FALSE) /\ UNCHANGED long
    \/ long' = Copy(long, short, FALSE) /\ UNCHANGED short

And ==
    \/ short' = OpAnd(short, long) /\ UNCHANGED long
    \/ long' = OpAnd(long, short) /\ UNCHANGED short

Or ==
    \/ short' = OpOr(short, long) /\ UNCHANGED long
    \/ long' = OpOr(long, short) /\ UNCHANGED short

Xor ==
    \/ short' = OpXor(short, long) /\ UNCHANGED long
    \/ long' = OpXor(long, short) /\ UNCHANGED short

Complement ==
    \/ short' = OpNot(short) /\ UNCHANGED long
    \/ long' = OpNot(long) /\ UNCHANGED short

SetBytes(start, list) ==
    \/ CanSet(short, start) /\ short' = Set(short, start, Array(list), Len(list)) /\ UNCHANGED long
    \/ CanSet(long, start) /\ long' = Set(long, start, Array(list), Len(list)) /\ UNCHANGED short

BinNext ==
    \/ \E list \in Lists : Construct(list)
    \/ CopyOver
    \/ And
    \/ Or
    \/ Xor
    \/ Complement
    \/ \E start \in Starts, list \in Lists : SetBytes(start, list)

BinSpec == BinInit /\ [][BinNext]_binVars

-----------------------------------------------------------------------------

\* The number a container is, most significant byte first.
ValueOf(bits) ==
    LET first[n \in Nat] ==    \* of the first n bits
            IF n = 0 THEN 0 ELSE 2 * first[n - 1] + (IF n - 1 \in bits THEN 1 ELSE 0)
    IN  first

Number(b) == ValueOf(b.bits)[8 * b.size]

\* The powers of 2.
Power[n \in Nat] == IF n = 0 THEN 1 ELSE 2 * Power[n - 1]

\* A container is a number to its operations and comparisons.  Operands of
\* different size meet at their last bytes: as many low bits as both have are
\* combined, and the rest of the longer one is left alone.  Containers of one
\* size, and a container and an array of bytes, compare as the numbers do.
ComputesOnNumbers ==
    LET low == Power[8 * Short]
        both == Number(OpAnd(short, long))
        wide == Copy(Zero(Long), short, TRUE)
    IN  /\ Number(Copy(short, long, FALSE)) = Number(long) % low
        /\ Number(wide) = Number(short)
        /\ Number(Copy(long, short, FALSE)) = Number(long) - (Number(long) % low) + Number(short)
        /\ both + Number(OpOr(short, long)) = Number(short) + (Number(long) % low)
        /\ Number(OpXor(long, short)) = Number(OpOr(long, short)) - both
        /\ Number(OpAnd(long, short)) = Number(long) - (Number(long) % low) + both
        /\ Less(short, long) /\ ~LessEq(long, short) /\ ~Equals(short, long)
        /\ Less(wide, long) <=> Number(wide) < Number(long)
        /\ LessEq(long, wide) <=> Number(long) <= Number(wide)
        /\ Equals(wide, long) <=> Number(wide) = Number(long)
        /\ ArrayLess(wide, long) <=> Number(wide) < Number(long)
        /\ ArrayLessEq(long, wide) <=> Number(long) <= Number(wide)
=============================================================================
