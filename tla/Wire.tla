------------------------------- MODULE Wire ---------------------------------
(***************************************************************************)
(* From a message to datagrams and back: the bytes of a packet header      *)
(* (cbits/nn_packet.c), of the payload and fragment headers, of salts and  *)
(* channel numbers (NovaNet/Peer/Protocol.hs, Fragment.hs), and the way    *)
(* through serializeOutgoing and processOnePacket of NovaNet/Peer.hs.      *)
(*                                                                         *)
(* Half a byte has Nibble values: 16 in the code.  The CRC is taken to     *)
(* notice every damage; in which order fragments fill the assembler, and   *)
(* when it gives up, is the business of Fragment.                          *)
(***************************************************************************)
EXTENDS Words, FiniteSets

CONSTANTS
    Nibble,             \* values of half a byte
    Channels,           \* mkChannelId: channels are numbered below this
    PayloadType,        \* packet type of data
    HandshakeType,      \* packet type of what carries a salt
    WireMtu,            \* ncMtu
    FragmentThreshold,  \* ncFragmentThreshold
    WireMessages,       \* messages: channel, channel number and size
    WireHeaders,        \* headers: packet number, ack number and ack bits
    WireSalts,          \* salts
    MaxWritten          \* bound: messages and handshake packets

Byte  == Nibble * Nibble
Num16 == Byte * Byte
Num32 == Num16 * Num16
Num64 == Num32 * Num32

ASSUME WireAssumption ==
    /\ Nibble \in Nat \ {0, 1} /\ {PayloadType, HandshakeType} \subseteq 0 .. Nibble - 1
    /\ PayloadType # HandshakeType
    /\ Channels \in Nat \ {0} /\ Channels <= Byte \div 2 /\ (Byte \div 2) % Channels = 0
    \* validateConfig: the MTU has room for more than the 16 bytes of headers
    /\ WireMtu \in Nat /\ WireMtu > 16
    /\ FragmentThreshold \in Nat /\ MaxWritten \in Nat
    /\ \A m \in WireMessages :
          m.channel \in 0 .. Channels - 1 /\ m.num \in 0 .. Num16 - 1 /\ m.size \in Nat
    /\ \A h \in WireHeaders :
          {h.num, h.ack} \subseteq 0 .. Num16 - 1 /\ h.bits \in 0 .. Num32 - 1
    /\ WireSalts \subseteq 0 .. Num64 - 1

VARIABLES
    written,            \* history: what was sent, in the order of sending
    datagrams,          \* datagrams the network may deliver, each with the index
                        \* of what it belongs to, and whether it is damaged
    processed,          \* those the receiver has processed
    slices,             \* message id -> fragment index -> data
    read                \* what the receiver has understood

wireVars == <<written, datagrams, processed, slices, read>>

WireInit ==
    /\ written = <<>> /\ datagrams = {} /\ processed = {}
    /\ slices = [id \in {} |-> 0] /\ read = {}

-----------------------------------------------------------------------------
\* nn_packet_write: type, number, ack and ack bits, half a byte after half a byte.
HalvesOf(n, k)  == [i \in 1 .. k |-> Shifted(n, Nibble, k - i) % Nibble]
FromHalves(hs)  == FromDigits(hs, Nibble)
HeaderHalves(h) ==
    <<h.type>> \o HalvesOf(h.num, 4) \o HalvesOf(h.ack, 4) \o HalvesOf(h.bits, 8) \o <<0>>
PacketWrite(h) ==
    LET hs == HeaderHalves(h)
    IN  [i \in 1 .. 9 |-> Nibble * hs[2 * i - 1] + hs[2 * i]]

\* nn_packet_read, of at least as many bytes as a header has
HeaderSize == 9
PacketRead(bytes) ==
    LET hs == [i \in 1 .. 18 |-> IF i % 2 = 1 THEN bytes[(i + 1) \div 2] \div Nibble
                                 ELSE bytes[i \div 2] % Nibble]
    IN  [type |-> hs[1],
         num  |-> FromHalves(SubSeq(hs, 2, 5)),
         ack  |-> FromHalves(SubSeq(hs, 6, 9)),
         bits |-> FromHalves(SubSeq(hs, 10, 17))]

\* Little-endian numbers of k bytes: salts, protocol ids, channel numbers, message ids.
BigEndian(n, k) == [i \in 1 .. k |-> Shifted(n, Byte, k - i) % Byte]
EncodeLE(n, k)  == [i \in 1 .. k |-> Shifted(n, Byte, i - 1) % Byte]
DecodeLE(bytes) == FromDigits(Reverse(bytes), Byte)

\* encodePayloadHeader: the top bit marks a fragment.
EncodePayloadHeader(ch, isFragment) == (IF isFragment THEN Byte \div 2 ELSE 0) + ch
IsFragment(b) == b >= Byte \div 2
ChannelOf(b)  == b % Channels

-----------------------------------------------------------------------------
\* The bytes of a message do not matter, so long as they differ.
Body(size) == [i \in 1 .. size |-> i % Byte]

\* processChannelOutput: what goes after the packet header.
MessagePayload(m) == <<EncodePayloadHeader(m.channel, FALSE)>> \o EncodeLE(m.num, 2) \o Body(m.size)

\* sendFragmented with splitMessage: a channel number and the message, in fragments.
MaxSlice == LET room == WireMtu - (HeaderSize + 1 + 6) IN IF room < 1 THEN 1 ELSE room
SliceCount(size) == (size + MaxSlice - 1) \div MaxSlice
FragmentPayloads(m, id) ==
    LET inner == EncodeLE(m.num, 2) \o Body(m.size)
        count == SliceCount(Len(inner))
        EndOf(i) == IF (i + 1) * MaxSlice < Len(inner) THEN (i + 1) * MaxSlice ELSE Len(inner)
    IN  [i \in 1 .. count |->
            <<EncodePayloadHeader(m.channel, TRUE)>> \o EncodeLE(id, 4) \o <<i - 1, count>>
            \o SubSeq(inner, (i - 1) * MaxSlice + 1, EndOf(i - 1))]
Payloads(m, id) ==
    IF m.size <= FragmentThreshold THEN <<MessagePayload(m)>> ELSE FragmentPayloads(m, id)

\* serializeOutgoing of each packet of a message; the packets have consecutive numbers.
SendPayload(m, h) ==
    LET id       == Len(written)
        payloads == Payloads(m, id)
        Header(i) == [type |-> PayloadType, num |-> (h.num + i - 1) % Num16,
                      ack |-> h.ack, bits |-> h.bits]
    IN  /\ id < MaxWritten /\ Len(payloads) < Byte
        /\ written' = Append(written, [header |-> Header(1), content |-> m])
        /\ datagrams' = datagrams \cup
             {[of |-> id, bytes |-> PacketWrite(Header(i)) \o payloads[i], damaged |-> FALSE]
                : i \in DOMAIN payloads}
        /\ UNCHANGED <<processed, slices, read>>

\* serializeHandshakePacket, of a packet with a salt
SendHandshake(salt) ==
    LET h == [type |-> HandshakeType, num |-> 0, ack |-> 0, bits |-> 0]
    IN  /\ Len(written) < MaxWritten
        /\ written' = Append(written, [header |-> h, content |-> salt])
        /\ datagrams' = datagrams \cup
             {[of |-> Len(written), bytes |-> PacketWrite(h) \o EncodeLE(salt, 8), damaged |-> FALSE]}
        /\ UNCHANGED <<processed, slices, read>>

\* The network damages a datagram; validateCrc drops it.
Damage(d) ==
    /\ ~d.damaged /\ d \notin processed
    /\ datagrams' = (datagrams \ {d}) \cup {[d EXCEPT !.damaged = TRUE]}
    /\ UNCHANGED <<written, processed, slices, read>>

-----------------------------------------------------------------------------
\* processDirectMessage
DirectMessage(channel, bytes) ==
    [channel |-> channel, num |-> DecodeLE(SubSeq(bytes, 1, 2)),
     body |-> SubSeq(bytes, 3, Len(bytes))]

\* processFragmentData: the message, once all its fragments are there.
WithSlice(rest) ==
    LET id  == DecodeLE(SubSeq(rest, 1, 4))
        old == IF id \in DOMAIN slices THEN slices[id] ELSE [i \in {} |-> <<>>]
        new == [i \in DOMAIN old \cup {rest[5]} |->
                    IF i = rest[5] THEN SubSeq(rest, 7, Len(rest)) ELSE old[i]]
    IN  [i \in DOMAIN slices \cup {id} |-> IF i = id THEN new ELSE slices[i]]
Joined(parts, count) == FlattenSeq([i \in 1 .. count |-> parts[i - 1]])

\* processOnePacket with processPayloadData.  What is understood is noted with the
\* header of the packet that completed it.
ProcessOnePacket(d) ==
    LET h     == PacketRead(d.bytes)
        data  == SubSeq(d.bytes, HeaderSize + 1, Len(d.bytes))
        first == data[1]
        rest  == SubSeq(data, 2, Len(data))
        id    == DecodeLE(SubSeq(rest, 1, 4))
        parts == WithSlice(rest)[id]
        Understood(content) == read' = read \cup {[header |-> h, content |-> content]}
    IN  /\ ~d.damaged
        /\ processed' = processed \cup {d}
        /\ \/ /\ h.type = HandshakeType
              /\ Understood(DecodeLE(data)) /\ UNCHANGED slices
           \/ /\ h.type = PayloadType /\ ~IsFragment(first)
              /\ Understood(DirectMessage(ChannelOf(first), rest)) /\ UNCHANGED slices
           \/ /\ h.type = PayloadType /\ IsFragment(first)
              /\ slices' = WithSlice(rest)
              /\ IF Cardinality(DOMAIN parts) = rest[6]
                 THEN Understood(DirectMessage(ChannelOf(first), Joined(parts, rest[6])))
                 ELSE UNCHANGED read
        /\ UNCHANGED <<written, datagrams>>

WireNext ==
    \/ \E m \in WireMessages, h \in WireHeaders : SendPayload(m, h)
    \/ \E salt \in WireSalts : SendHandshake(salt)
    \/ \E d \in datagrams : Damage(d) \/ ProcessOnePacket(d)
WireSpec == WireInit /\ [][WireNext]_wireVars
-----------------------------------------------------------------------------
\* The numbers of the packets that carry what was written.
NumbersOf(w) ==
    IF w.header.type = HandshakeType THEN {w.header.num}
    ELSE {(w.header.num + i - 1) % Num16 : i \in DOMAIN Payloads(w.content, 0)}
Means(r, w) ==
    /\ r.header.type = w.header.type /\ r.header.num \in NumbersOf(w)
    /\ r.header.ack = w.header.ack /\ r.header.bits = w.header.bits
    /\ r.content = IF w.header.type = HandshakeType THEN w.content
                   ELSE [channel |-> w.content.channel, num |-> w.content.num,
                         body |-> Body(w.content.size)]

\* In whatever order packets arrive and whichever are damaged, the receiver understands
\* only what was written, and all of it once its packets are there; and no fragment
\* is longer, but for its CRC, than the MTU.
ReadIsWritten ==
    /\ \A r \in read : \E i \in DOMAIN written : Means(r, written[i])
    /\ \A i \in DOMAIN written :
          {d \in datagrams : d.of = i - 1} \subseteq processed => \E r \in read : Means(r, written[i])
    /\ \A d \in datagrams :
          written[d.of + 1].header.type = PayloadType
              /\ written[d.of + 1].content.size > FragmentThreshold => Len(d.bytes) <= WireMtu
=============================================================================
