------------------------------- MODULE Crc32c -------------------------------
(***************************************************************************)
(* The checksum of a packet (cbits/nn_crc32c.c), in the three ways the     *)
(* code may be compiled: from a table, or with the instructions of x86 or  *)
(* of ARM, which take a word at a time.                                    *)
(***************************************************************************)
EXTENDS Words

CONSTANTS
    CrcByte,        \* bits of a byte
    CrcSize,        \* NN_CRC32C_SIZE, in bytes
    CrcPoly,        \* the reflected polynomial: 0x82F63B78
    CrcWord         \* bytes the instructions take at a time

Width == CrcByte * CrcSize

\* With the lowest power of the polynomial, a register is never forgotten on the way.
ASSUME CrcAssumption ==
    /\ CrcByte \in Nat \ {0} /\ CrcSize \in Nat \ {0} /\ CrcWord \in Nat \ {0}
    /\ CrcPoly \subseteq 0 .. Width - 1 /\ Width - 1 \in CrcPoly

Ones      == 0 .. Width - 1
Not(x)    == Ones \ x
CrcBytes  == SUBSET (0 .. CrcByte - 1)

\* crc32c_table, as it is generated: bit by bit, the byte's lowest first.
Shift1(crc) == IF 0 \in crc THEN Xor(Shr(crc, 1), CrcPoly) ELSE Shr(crc, 1)
ShiftN(crc, n) ==
    LET shifted[i \in 0 .. n] == IF i = 0 THEN crc ELSE Shift1(shifted[i - 1])
    IN  shifted[n]
Table == [byte \in CrcBytes |-> ShiftN(byte, CrcByte)]

\* crc32c_software
LowByte(crc) == crc \cap (0 .. CrcByte - 1)
TableStep(crc, byte) == Xor(Table[LowByte(Xor(crc, byte))], Shr(crc, CrcByte))
Software(buf) ==
    LET crc[i \in 0 .. Len(buf)] == IF i = 0 THEN Not({}) ELSE TableStep(crc[i - 1], buf[i])
    IN  Not(crc[Len(buf)])

\* _mm_crc32_u64, __crc32cd and their forms for bytes: the register after n bytes
Instruction(crc, value, n) == ShiftN(Xor(crc, value), n * CrcByte)

\* crc32c_hardware, of x86 and of ARM: words as long as there are any, then bytes.  A word
\* is loaded as the host keeps it.
Hardware(order, buf) ==
    LET words  == Len(buf) \div CrcWord
        rest   == Len(buf) % CrcWord
        Word(i) == FromMemory(order, SubSeq(buf, CrcWord * (i - 1) + 1, CrcWord * i))
        crc[i \in 0 .. words + rest] ==
            IF i = 0 THEN Not({})
            ELSE IF i <= words THEN Instruction(crc[i - 1], FromBytes(Word(i), CrcByte), CrcWord)
            ELSE Instruction(crc[i - 1], buf[(CrcWord - 1) * words + i], 1)
    IN  Not(crc[words + rest])

\* NN_CRC32C_SW on either host; NN_CRC32C_X86 and NN_CRC32C_ARM, which are taken to be
\* little-endian (on a big-endian ARM the words would be loaded the wrong way round)
Builds == {[hardware |-> FALSE, order |-> "little"], [hardware |-> FALSE, order |-> "big"],
           [hardware |-> TRUE, order |-> "little"]}

\* nn_crc32c
Crc(build, buf) == IF build.hardware THEN Hardware(build.order, buf) ELSE Software(buf)

\* nn_crc32c_append
AppendedInHostOrder(build, buf) ==
    buf \o InMemory(build.order, BytesOf(Crc(build, buf), CrcSize, CrcByte))
Appended(build, buf) == buf \o WriteLE(build.order, BytesOf(Crc(build, buf), CrcSize, CrcByte))

\* nn_crc32c_validate: the length of what is checked, or 0
Validated(build, buf) ==
    LET len == Len(buf) - CrcSize
        expected == FromBytes(ReadLE(build.order, SubSeq(buf, len + 1, Len(buf))), CrcByte)
    IN  IF Len(buf) >= CrcSize /\ Crc(build, SubSeq(buf, 1, len)) = expected THEN len ELSE 0
=============================================================================
