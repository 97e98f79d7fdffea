------------------------------- MODULE Words --------------------------------
(***************************************************************************)
(* The unsigned integers of C, and how a host keeps them in memory         *)
(* (cbits/nn_wire.h).  A word is the set of the positions of its ones: the *)
(* bitwise operators are set operators, and a word may have any width.  In *)
(* memory it is a sequence of bytes, each again a set of positions.        *)
(***************************************************************************)
EXTENDS Integers, Sequences, SequencesExt

\* A number without its last i digits, the number that has these digits, and 2^k.
Shifted(n, base, i) ==
    LET rest[j \in 0 .. i] == IF j = 0 THEN n ELSE rest[j - 1] \div base
    IN  rest[i]
FromDigits(ds, base) ==
    LET value[j \in 0 .. Len(ds)] == IF j = 0 THEN 0 ELSE value[j - 1] * base + ds[j]
    IN  value[Len(ds)]
PowerOf2(k) ==
    LET power[j \in 0 .. k] == IF j = 0 THEN 1 ELSE 2 * power[j - 1]
    IN  power[k]

BitsOf(n)    == {i \in 0 .. 30 : (n \div 2 ^ i) % 2 = 1}       \* of an n below 2^31
Hex(hi, lo)  == {i + 16 : i \in BitsOf(hi)} \cup BitsOf(lo)    \* two halves of 16 bits

Xor(x, y)     == (x \ y) \cup (y \ x)
Shl(w, x, n)  == {i + n : i \in x} \cap (0 .. w - 1)
Shr(x, n)     == {i - n : i \in {j \in x : j >= n}}
Rotl(w, x, n) == {(i + n) % w : i \in x}

\* Addition modulo 2^w.  A one is carried into place i from the last place below it
\* that both have, if every place in between has one.
Plus(w, x, y) ==
    LET both    == x \cap y
        some    == x \cup y
        Carry(i) == \E j \in both : j < i /\ \A k \in j + 1 .. i - 1 : k \in some
    IN  Xor(Xor(x, y), {i \in 0 .. w - 1 : Carry(i)})

-----------------------------------------------------------------------------
\* A word of k bytes of b bits, the least significant byte first, and back.
BytesOf(x, k, b) == [i \in 1 .. k |-> {j \in 0 .. b - 1 : b * (i - 1) + j \in x}]
FromBytes(bytes, b) == UNION {{b * (i - 1) + j : j \in bytes[i]} : i \in DOMAIN bytes}

\* The hosts that the code is compiled for (__BYTE_ORDER__).  A value is in memory in
\* the host's order (memcpy).
ByteOrders == {"little", "big"}
InMemory(order, value)   == IF order = "big" THEN Reverse(value) ELSE value
FromMemory(order, bytes) == IF order = "big" THEN Reverse(bytes) ELSE bytes

\* nn_bswap16, nn_bswap32, nn_bswap64
BSwap(value) == Reverse(value)

\* nn_write_u16le, nn_write_u32le, nn_write_u64le and the floating-point ones, which copy
\* the bits of a number into an integer; and nn_read_ of each.  The value is given as
\* its bytes, the least significant first.
WriteLE(order, value) == InMemory(order, IF order = "big" THEN BSwap(value) ELSE value)
ReadInHostOrder(order, bytes) == FromMemory(order, bytes)
ReadLE(order, bytes)  ==
    LET value == FromMemory(order, bytes)
    IN  IF order = "big" THEN BSwap(value) ELSE value
=============================================================================
