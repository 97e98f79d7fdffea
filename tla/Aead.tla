------------------------------- MODULE Aead --------------------------------
(***************************************************************************)
(* The sealing of packets (cbits/nn_crypto.c, nn_crypto_encrypt and        *)
(* nn_crypto_decrypt): which block of the key stream covers which byte,    *)
(* what the authenticator is given, and the order of checking and          *)
(* deciphering.  The key stream and the authenticator are ideal: a byte of *)
(* the one is an atom of its own, and a tag of the other shows all that it *)
(* was given; Ciphers and Poly1305 are about how they are computed.        *)
(* A byte is the set of atoms that are XORed in it.                        *)
(***************************************************************************)
EXTENDS Integers, Sequences, SequencesExt, FiniteSets

CONSTANTS
    StreamBlock,    \* NN_CHACHA20_BLOCK_SIZE, in bytes
    TagBlock,       \* NN_POLY1305_BLOCK_SIZE, in bytes
    Plaintexts,     \* sequences of numbers; 0 is the byte that is zero
    Protocols,      \* the protocol ids of the two ends
    MaxSealed      \* bound on the packets sealed

ASSUME AeadAssumption ==
    /\ StreamBlock \in Nat \ {0}
    /\ TagBlock \in Nat \ {0}
    /\ \A plain \in Plaintexts : plain \in Seq(Nat)

VARIABLES
    protocol,       \* the protocol id of the end that seals
    sendNonce,      \* connSendNonce
    onWire,         \* the packets it sealed
    plainOf,        \* their plaintexts, by counter
    tried,          \* the last packet that was given to nn_crypto_decrypt, or <<>>
    outcome         \* what it returned, and what it left in the buffer

aeadVars == <<protocol, sendNonce, onWire, plainOf, tried, outcome>>

XorBytes(x, y) == (x \ y) \cup (y \ x)
PlainByte(v)   == IF v = 0 THEN {} ELSE {<<v>>}

-----------------------------------------------------------------------------
\* chacha20_crypt from block 1 on: a block of the key stream for every StreamBlock bytes
Nonce(counter, id) == <<counter, id>>      \* build_nonce
StreamByte(nonce, block, offset) == <<nonce[1], nonce[2], block, offset>>
CryptFromBlock0(nonce, data) ==
    [i \in DOMAIN data |->
        XorBytes(data[i], {StreamByte(nonce, (i - 1) \div StreamBlock, (i - 1) % StreamBlock)})]
Crypt(nonce, data) ==
    [i \in DOMAIN data |->
        XorBytes(data[i], {StreamByte(nonce, 1 + (i - 1) \div StreamBlock, (i - 1) % StreamBlock)})]

\* What the authenticator takes: the whole blocks, what is left with zeros after it, and
\* the length.  Its key is block 0 of the key stream.
MacInput(data) ==
    LET full == Len(data) - (Len(data) % TagBlock)
        rem  == Len(data) - full
        last == [i \in 1 .. TagBlock |-> IF i <= rem THEN data[full + i] ELSE {}]
    IN  SubSeq(data, 1, full) \o (IF rem > 0 THEN last ELSE <<>>)
TagOf(nonce, data) ==
    [key |-> StreamByte(nonce, 0, 0), input |-> MacInput(data), length |-> Len(data)]

\* A packet of at least NN_CRYPTO_OVERHEAD bytes: [counter][ciphertext][tag]
Packet(counter, data, t) == [counter |-> counter, data |-> data, tag |-> t]

\* nn_crypto_encrypt, and advanceNonce after it
Encrypt(plain) ==
    LET nonce  == Nonce(sendNonce, protocol)
        cipher == Crypt(nonce, [i \in DOMAIN plain |-> PlainByte(plain[i])])
    IN  /\ Cardinality(onWire) < MaxSealed
        /\ onWire' = onWire \cup {Packet(sendNonce, cipher, TagOf(nonce, cipher))}
        /\ plainOf' = Append(plainOf, plain)
        /\ sendNonce' = sendNonce + 1
        /\ UNCHANGED <<protocol, tried, outcome>>

\* nn_crypto_decrypt: the counter is read from the packet; the tag is compared before the
\* buffer is touched.
Opened(id, packet) ==
    LET nonce == Nonce(packet.counter, id)
    IN  IF packet.tag # TagOf(nonce, packet.data)
        THEN [status |-> "auth", buffer |-> packet.data]
        ELSE [status |-> "ok", buffer |-> Crypt(nonce, packet.data)]

\* The ways a packet may be other than it was sealed: a byte that flipped in its counter,
\* its ciphertext or its tag, one that is missing before the tag, a zero put in there, or
\* the tag of another packet.
Altered(packet) ==
    LET n == Len(packet.data)
    IN  {[packet EXCEPT !.counter = c] : c \in 0 .. MaxSealed - 1}
        \cup {[packet EXCEPT !.data[i] = XorBytes(@, {<<9>>})] : i \in 1 .. n}
        \cup {[packet EXCEPT !.data = SubSeq(@, 1, k)] : k \in 0 .. n}
        \cup {[packet EXCEPT !.data = Append(@, {})]}
        \cup {[packet EXCEPT !.tag = other.tag] : other \in onWire}

Decrypt(packet, id) ==
    /\ tried' = <<packet, id>>
    /\ outcome' = Opened(id, packet)
    /\ UNCHANGED <<protocol, sendNonce, onWire, plainOf>>

\* A packet shorter than what sealing adds is refused as it is.
DecryptShort ==
    /\ tried' = <<>>
    /\ outcome' = [status |-> "short", buffer |-> <<>>]
    /\ UNCHANGED <<protocol, sendNonce, onWire, plainOf>>

AeadInit ==
    /\ protocol \in Protocols
    /\ sendNonce = 0 /\ onWire = {} /\ plainOf = <<>>
    /\ tried = <<>> /\ outcome = [status |-> "idle", buffer |-> <<>>]

AeadNext ==
    \/ \E plain \in Plaintexts : Encrypt(plain)
    \/ \E sealed \in onWire, id \in Protocols :
           \E packet \in {sealed} \cup Altered(sealed) : Decrypt(packet, id)
    \/ DecryptShort

AeadSpec == AeadInit /\ [][AeadNext]_aeadVars

-----------------------------------------------------------------------------
\* Only a packet exactly as it was sealed opens, at an end with the same protocol id, and
\* it opens to the plaintext; any other leaves the buffer as it came.
OnlySealedOpens ==
    tried # <<>> =>
        LET packet == tried[1]
            intact == packet \in onWire /\ tried[2] = protocol
        IN  IF outcome.status = "ok"
            THEN /\ intact
                 /\ outcome.buffer = [i \in DOMAIN plainOf[packet.counter + 1] |->
                                         PlainByte(plainOf[packet.counter + 1][i])]
            ELSE ~intact /\ outcome.buffer = packet.data

\* No byte of the key stream covers two bytes of what was sealed, and none of block 0,
\* which is the key of the authenticator, covers any.
StreamUsedOnce ==
    LET Places == UNION {{<<packet, i>> : i \in DOMAIN packet.data} : packet \in onWire}
        Cover(place) == {atom \in place[1].data[place[2]] : Len(atom) = 4}
    IN  \A x, y \in Places :
            /\ \A atom \in Cover(x) : atom[3] # 0
            /\ x # y => Cover(x) \cap Cover(y) = {}

\* What is opened is what was sealed, and what is sealed is never covered twice.
OpenedIsSealed == OnlySealedOpens /\ StreamUsedOnce
=============================================================================
