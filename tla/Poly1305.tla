----------------------------- MODULE Poly1305 ------------------------------
(***************************************************************************)
(* The authenticator of a packet (cbits/nn_crypto.c, poly1305).  A number  *)
(* modulo 2^130 - 5 is kept in five limbs of 26 bits; a limb is in 32 bits *)
(* and a product in 64, so that carries may wait, but not long.  The size  *)
(* of a limb is a parameter, and the sizes of the integers keep their      *)
(* proportion to it.                                                       *)
(***************************************************************************)
EXTENDS Words

CONSTANTS
    LimbBits,       \* 26: the bits of a limb
    Base,           \* 2^26: what a limb has room for
    MacKeys,        \* the one-time keys: [r |-> five limbs, pad |-> 128 bits]
    MacBlocks,      \* the blocks of 16 bytes, as numbers of 128 bits
    MaxMacBlocks    \* bound on the length of a message

Limbs   == 0 .. 4
Horner(a, b, c, d, e) == a + Base * (b + Base * (c + Base * (d + Base * e)))

Prime   == Base * (Base * (Base * (Base * Base))) - 5
Hibit   == Base \div 4          \* 2^24, the bit above a block in the limb on top
Block   == Horner(0, 0, 0, 0, Hibit)        \* 2^128, what a block and a tag stay below
Uint32  == 64 * Base
Uint64  == 4096 * (Base * Base)

\* A key is clamped to fewer bits than its limbs have.
ASSUME MacAssumption ==
    /\ LimbBits \in Nat /\ Base = PowerOf2(LimbBits)
    /\ Base \in Nat /\ Base >= 32 /\ Base = 4 * Hibit
    /\ MaxMacBlocks \in Nat
    /\ \A key \in MacKeys : key.r \in [Limbs -> 0 .. Base - 1] /\ key.pad \in 0 .. Block - 1
    /\ MacBlocks \subseteq 0 .. Block - 1

VARIABLES
    macKey,         \* poly1305_state: r and pad
    h,              \* poly1305_state: the accumulator
    fed,            \* the blocks taken so far
    exact,          \* what the accumulator stands for, modulo Prime
    tag             \* what poly1305_finish wrote: NoTag, then <<it>>

macVars == <<macKey, h, fed, exact, tag>>
NoTag   == <<>>

-----------------------------------------------------------------------------
Low(n)  == n % Base
High(n) == n \div Base
Five(a, b, c, d, e) ==
    [i \in Limbs |-> IF i = 0 THEN a ELSE IF i = 1 THEN b ELSE IF i = 2 THEN c ELSE IF i = 3 THEN d ELSE e]
Value(x) == Horner(x[0], x[1], x[2], x[3], x[4])

\* A block cut into limbs, with the bit on top
Cut(m) == Five(Low(m), Low(High(m)), Low(High(High(m))), Low(High(High(High(m)))),
               High(High(High(High(m)))) + Hibit)

\* d0 to d4: the products of one weight; those beyond the fifth limb come back times 5.
Column(x, r, i) ==
    LET Times(j) == x[j] * (IF j <= i THEN r[i - j] ELSE 5 * r[5 + i - j])
    IN  Times(0) + Times(1) + Times(2) + Times(3) + Times(4)
Product(x, r, i) == Column(x, r, i) % Uint64

\* poly1305_blocks: the accumulator after one block
Mixed(x, r, m) ==
    LET cut == Cut(m)
        sum == [i \in Limbs |-> (x[i] + cut[i]) % Uint32]
        Carry(d) == High(d) % Uint32
        d0 == Product(sum, r, 0)
        d1 == (Product(sum, r, 1) + Carry(d0)) % Uint64
        d2 == (Product(sum, r, 2) + Carry(d1)) % Uint64
        d3 == (Product(sum, r, 3) + Carry(d2)) % Uint64
        d4 == (Product(sum, r, 4) + Carry(d3)) % Uint64
        h0 == (Low(d0) + 5 * Carry(d4)) % Uint32
    IN  Five(Low(h0), Low(d1) + High(h0), Low(d2), Low(d3), Low(d4))

\* The full carry chain of poly1305_finish
Carried(x) ==
    LET x2 == x[2] + High(x[1])
        x3 == x[3] + High(x2)
        x4 == x[4] + High(x3)
        x0 == x[0] + 5 * High(x4)
    IN  Five(Low(x0), Low(x[1]) + High(x0), Low(x2), Low(x3), Low(x4))

\* It less the prime, and which of the two is kept: by the sign of the limb on top
ReducedNever(x) == x
Reduced(x) ==
    LET g0 == x[0] + 5
        g1 == x[1] + High(g0)
        g2 == x[2] + High(g1)
        g3 == x[3] + High(g2)
        g4 == ((x[4] + High(g3)) - Base + Uint32) % Uint32
        negative == g4 >= Uint32 \div 2
    IN  IF negative THEN x ELSE Five(Low(g0), Low(g1), Low(g2), Low(g3), g4)

\* The limbs packed into words: they are put together with |, bit by bit, up to 128 bits.
Packed(x) ==
    LET IsOne(p) == \E i \in Limbs :
                       LimbBits * i <= p /\ Shifted(x[i], 2, p - LimbBits * i) % 2 = 1
        size     == 5 * LimbBits - 2
    IN  FromDigits([j \in 1 .. size |-> IF IsOne(size - j) THEN 1 ELSE 0], 2)

\* poly1305_finish of a message of whole blocks: the pad is added word by word.
Tag(x, pad) == (Packed(Reduced(Carried(x))) + pad) % Block

-----------------------------------------------------------------------------
\* n * r modulo the prime, a limb of r at a time so that nothing here is larger than the
\* checker's integers.
TimesExactly(n, r) ==
    LET next(sum, i) == (sum * Base + n * r[i]) % Prime
    IN  next(next(next(next(next(0, 4), 3), 2), 1), 0)

Feed(m) ==
    /\ tag = NoTag /\ fed < MaxMacBlocks
    /\ h' = Mixed(h, macKey.r, m)
    /\ exact' = TimesExactly((exact + m + Block) % Prime, macKey.r)
    /\ fed' = fed + 1
    /\ UNCHANGED <<macKey, tag>>

\* The state is wiped.
Finish ==
    /\ tag = NoTag /\ fed > 0
    /\ tag' = <<Tag(h, macKey.pad)>>
    /\ h' = [i \in Limbs |-> 0]
    /\ UNCHANGED <<macKey, fed, exact>>

\* poly1305_init
MacInit ==
    /\ macKey \in MacKeys
    /\ h = [i \in Limbs |-> 0] /\ fed = 0 /\ exact = 0 /\ tag = NoTag

MacNext == Finish \/ \E m \in MacBlocks : Feed(m)
MacSpec == MacInit /\ [][MacNext]_macVars

-----------------------------------------------------------------------------
\* Between blocks, no carry is lost and none is left that the next block has no room for:
\* only the second limb may be over its size, by what the last carry of a block brings.
Fits(x) == x \in [Limbs -> Nat] /\ \A i \in Limbs : x[i] < (IF i = 1 THEN Base + 64 ELSE Base)
LimbsFit == Fits(h)

\* The accumulator stands for the polynomial of the blocks taken, and before it is packed
\* the final reduction makes it the residue itself, in limbs that do not overlap.
ResidueIsExact ==
    tag = NoTag =>
        LET residue == Reduced(Carried(h))
        IN  /\ Value(h) % Prime = exact
            /\ Value(residue) = exact /\ \A i \in Limbs : residue[i] \in 0 .. Base - 1

\* The tag is that residue plus the pad, to the bit: an overflow of an integer, a carry
\* that is lost, a final reduction taken or missed at the wrong moment, or limbs that
\* overlap when they are packed would be wrong for a few messages among 2^128, and at
\* both ends alike.
MacIsExact == ResidueIsExact /\ (tag # NoTag => tag = <<(exact + macKey.pad) % Block>>)
=============================================================================
