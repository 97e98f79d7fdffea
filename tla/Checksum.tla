----------------------------- MODULE Checksum ------------------------------
(***************************************************************************)
(* A packet between two ends that check it (cbits/nn_crc32c.c): one end    *)
(* appends a checksum, the network damages a run of the packet's bits or   *)
(* hands over a runt, and the other end validates what arrives.  The ends  *)
(* may be built for different processors.                                  *)
(***************************************************************************)
EXTENDS Crc32c

CONSTANTS CrcPayloads      \* what is sent: sequences of bytes

ASSUME ChecksumAssumption == \A p \in CrcPayloads : p \in Seq(CrcBytes)

VARIABLES
    payload,    \* what one end sent
    sealed,     \* the packet as it left, or NoPacket
    carried,    \* the packet as it arrived
    verdict     \* what nn_crc32c_validate returned, or NoVerdict

checksumVars == <<payload, sealed, carried, verdict>>

NoPacket  == <<>>       \* a packet is never empty
NoVerdict == -1

\* nn_crc32c_append
AppendCrc(build) ==
    /\ sealed = NoPacket
    /\ sealed' = Appended(build, payload)
    /\ carried' = sealed'
    /\ UNCHANGED <<payload, verdict>>

\* The network flips bits, all of them within the width of a checksum.
FlipBits ==
    /\ sealed # NoPacket /\ carried = sealed /\ verdict = NoVerdict
    /\ \E first \in 0 .. CrcByte * Len(sealed) - 1, burst \in SUBSET Ones :
        LET bits == Xor(FromBytes(sealed, CrcByte), {first + i : i \in burst})
        IN  /\ 0 \in burst /\ \A i \in burst : first + i < CrcByte * Len(sealed)
            /\ carried' = BytesOf(bits, Len(sealed), CrcByte)
    /\ UNCHANGED <<payload, sealed, verdict>>

\* Something else arrives, too short to have a checksum.
Runt ==
    /\ sealed # NoPacket /\ carried = sealed /\ verdict = NoVerdict
    /\ \E n \in 0 .. CrcSize - 1 : carried' = SubSeq(sealed, 1, n)
    /\ UNCHANGED <<payload, sealed, verdict>>

\* nn_crc32c_validate
ValidateCrc(build) ==
    /\ sealed # NoPacket /\ verdict = NoVerdict
    /\ verdict' = Validated(build, carried)
    /\ UNCHANGED <<payload, sealed, carried>>

ChecksumInit == payload \in CrcPayloads /\ sealed = NoPacket /\ carried = NoPacket /\ verdict = NoVerdict
ChecksumNext == FlipBits \/ Runt \/ \E build \in Builds : AppendCrc(build) \/ ValidateCrc(build)
ChecksumSpec == ChecksumInit /\ [][ChecksumNext]_checksumVars

-----------------------------------------------------------------------------
\* Whichever processors the two ends are built for, a packet that arrives as it was sent
\* is accepted at its length, and one with flipped bits that all lie within the width of
\* a checksum, across its boundary with the payload too, is refused: the table, the
\* instructions and the byte order of the appended checksum all fit one polynomial.
DamageIsFound ==
    verdict # NoVerdict => verdict = (IF carried = sealed THEN Len(payload) ELSE 0)
=============================================================================
