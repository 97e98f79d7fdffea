# Nova-net: specification and proofs

nova-net is a game-networking library: Haskell on top, C for the hot path. This
directory holds TLA+ models of its protocol logic, the TLC configurations that
check them on small instances, and proofs, checked by TLAPS, of the theorems
that matter most. Paths below are relative to the repository.

## 1. The system

A **peer** (`src/NovaNet/Peer.hs`) owns a socket, a table of pending handshakes
and a table of connections. The application calls `peerProcess` once per frame:
it reads every datagram that has arrived, dispatches each one, runs the
maintenance of every table, and sends what the connections have queued. There
are no threads inside a peer; everything concurrent comes from the network,
from the other peers, and from the time between frames.

| Component | State | Operations | Talks to |
|---|---|---|---|
| Sequence numbers (`cbits/nn_seq.h`, `Types.hs`) | none | circular order, difference, distance | everything that numbers anything |
| Packet reliability (`Reliability.hs`, `cbits/nn_seq.c`, `cbits/nn_ack_process.c`) | local number, ring of sent packets with its cached count, ring of received numbers, ack pair, totals, RTT | allocate a number, record a sent packet, accept or reject a received one, process an incoming ack pair, read the outgoing one | connection |
| Channel (`Channel.hs`) | send buffer, next/received/expected numbers, ordered buffer, seen set, receive queue | send, acknowledge, retransmit, receive in five delivery modes, ordered time-out, dedup clean-up | connection |
| Connection (`Connection.hs`) | channels, an output queue per channel, map from packet to the message it carried, owed acknowledgement, clocks, congestion controllers | send a message, receive a header and a payload, per-frame update, output by channel priority, keepalive, disconnect | reliability, channels, congestion |
| Congestion control (`Congestion.hs`, `cbits/nn_congestion.*`, `cbits/nn_rtt.c`) | rate mode and byte budget, or window and bytes in flight | may-send, on-send, on-ack, on-loss, tick | connection |
| Handshake and peer (`Peer.hs`, `Peer/Handshake.hs`, `Peer/Protocol.hs`) | connections, pending entries, cookie secret | connect, disconnect, one handler per packet type, retries, clean-up, broadcast | every component above, the socket |
| Fragmentation (`Fragment.hs`, `cbits/nn_fragment.c`) | partially assembled messages, their total size | split, insert, complete, evict, time out; in C: count, build, read | peer, channel |
| Security (`Security.hs`) | request times per source; used connect tokens | rate limit, token validation | peer |
| Path measurement (`cbits/nn_rtt.c`, the loss window of `nn_seq.c`, `nn_bandwidth.c`, `Mtu.hs`) | smoothed round trip and time-out; rings of outcomes and of transfers; search interval | one update each; a loss fraction, a rate; probe | reliability, connection; the MTU search stands alone |
| Migration (`Peer/Migration.hs`) | cool-downs per connection | match an unknown address to a connection | peer |
| Replication (`Replication/*`) | baselines and unacknowledged snapshots; accumulated priorities; snapshots to play back; interest | delta encode, acknowledge, decode; accumulate and drain; push and sample | the application |
| Wire formats and batches (`cbits/nn_packet.c`, `nn_batch.c`, `nn_wire.h`, ...) | a batch being written or read | encode, decode | peer; batches stand alone |
| Cryptography and checksums (`cbits/nn_crypto.c`, `nn_siphash.c`, `nn_crc32c.c`) | the state of a cipher, a hash or an authenticator under way | seal, open, hash; append and validate a checksum | cookies, every datagram; sealing stands alone |
| Sockets, test network, simulator | queues | send, receive | the tests |

### What is hard

* **Sequence numbers wrap** at 2^16, and every ring, map and comparison is
  indexed by the wrapped number.
* **The network** loses, repeats, delays and reorders; a retransmission may
  overtake or follow its original; an acknowledgement may be stale when it is
  read.
* **Three layers retry or give up independently**: the packet layer (acks and
  nacks), the channel (retransmission, ordered time-out), the connection
  (time-out, keepalive). The failure of one must not be hidden by another: a
  message that is acknowledged and yet dropped is gone for good.
* **Handshakes interleave**: both peers call at once, one restarts, a late
  packet of an earlier attempt arrives in a later one; capacity is checked when
  the handshake starts and not when it ends.
* **Bounded tables** (rings, ordered buffer, dedup set, ack map, pending table)
  evict, prune or refuse at their limits.
* **A large message** crosses three of those layers: its fragments take numbers of
  the channel, may be refused half-way, and are retransmitted one by one.
* **The two ends of a connection** may be built for processors that differ in byte
  order and in the instructions they have.

`PROJECT.json` lists each hazard at its line, with the properties that cover it.

### What makes each component right

* *Sequence numbers*: on a window shorter than half the circle the circular
  operators agree with the order of what the numbers stand for.
* *Packet reliability*: the ack pair says exactly what was accepted; the sender
  takes a packet for acknowledged only if it arrived, and counts a nack only if
  it had not; nothing is accepted twice that the ring can still know; the count of
  packets in flight is true.
* *Channel*: the guarantee its delivery mode names, across wrap-around,
  retransmission and give-up; nothing acknowledged is lost; nothing waits
  forever.
* *Connection*: acknowledgements reach the message the packet carried, are paid
  in time, and are not forgotten; retries are bounded; a quiet connection on a
  good network neither times out nor sends anything twice.
* *Congestion control*: the rate and the budget, or the window and the bytes in
  flight, stay within their bounds and consistent with their mode; what waits is
  sent in the end.
* *Fragmentation and wire formats*: what is handed on is a message that was sent,
  as it was sent; the memory is bounded and accounted for; nothing incomplete stays.
* *Cryptography and checksums*: only what was sealed opens, to what was sealed;
  damage is found; the arithmetic is exact whatever the carries; the builds for
  different processors, and hosts of either byte order, agree with each other and
  with the published algorithms.
* *Path measurement*: an estimate stays among what was measured, however the
  integers round and whichever slots the rings reuse.
* *Migration*: a connection moves to where its packets come from, alone, and not
  again at once.
* *Replication*: a delta is decoded to the snapshot it was made from; every entity's
  turn comes if its user lets it; what is shown lies between two snapshots that were received.
* *Handshake*: the two tables and the events the application has seen agree;
  limits hold; peers of different protocols never connect; nothing stays
  pending or half-open.

## 2. The modules

| Module | Models | Extends |
|---|---|---|
| `SeqNum` | the circular arithmetic, for a circle of `2 * Half` numbers | |
| `Reliability` | one direction of the packet layer: a sender, a receiver, the network between them | `SeqNum` |
| `Delivery` | **abstract**: what each delivery mode promises the application | |
| `Channel` | one channel between two endpoints | `SeqNum`; instantiates `Delivery` |
| `Connection` | two ends of an established connection, with several channels each | |
| `Handshake` | any number of peers, from nothing to connected and back | |
| `MCEndpoints` | `Reliability` or `Handshake`, for TLC: one per behaviour | `Reliability`; instantiates `Handshake` |
| `Fragment` | fragmentation: a sender, a lossy link, the assembler | |
| `Aimd` | congestion control by rate, driven by the frames of a connection | |
| `Cwnd` | congestion control by window, with the packets and headers that drive it | `SeqNum` |
| `RateLimiter` | the limit on connection requests per source | |
| `TokenValidator` | connect tokens: made, taken once, remembered for a while | |
| `Wire` | a message down to the bytes of its packets and back | `Words` |
| `Batch` | the writer and the reader of batches of messages | |
| `Estimators` | the smoothed round-trip time with its time-out, and the loss window | |
| `Bandwidth` | the bandwidth tracker | |
| `Migration` | connections that follow their clients to new addresses | `SeqNum` |
| `Mtu` | the search for the path MTU, driven in any order | |
| `Delta` | replication by deltas: both sides and the network between them | |
| `Priority` | the choice of entities that fit a budget | |
| `Interpolation` | the buffer of snapshots a client plays back | |
| `TestNet` | the in-memory network of the tests, with any number of peers | |
| `Simulator` | the network simulator: loss, bandwidth, delay, duplicates | |
| `Slices` | a message cut up and put together by the C interface to fragments | |
| `Words` | the unsigned integers of C, their digits, and the byte orders of hosts | |
| `Crc32c` | the checksum: a table, or the instructions of two processors | `Words` |
| `Checksum` | two ends that may be built differently, and a link that flips bits | `Crc32c` |
| `Ciphers` | ChaCha20 and SipHash, round by round and at their real widths | `Words` |
| `Poly1305` | the authenticator: a number modulo a prime, in limbs with late carries | `Words` |
| `Aead` | sealing and opening packets, with ideal ciphers | `Words` |
| `Parts` | one of the parts from `Fragment` to `Aead` per behaviour: parts that share no state | these modules |
| `Order` | what counting numbers in order needs of them | |
| `CommonProofs` | theorems about `SeqNum` and `Order`, and the lemmas on sequences, counting and sums that several proofs need | these two, and `TLAPS` |
| `ReliabilityProofs`, `HandshakeProofs`, `ConnectionProofs` | theorems about the module they name | it, `CommonProofs` |
| `ChannelProofs` | theorems about `Channel`, and that it implements `Delivery` | `Channel`, `CommonProofs` |
| `AccountProofs` | theorems about the parts that keep accounts: `Fragment`, `Cwnd`, `RateLimiter`, `TokenValidator`, `Bandwidth`, `Migration`, `Simulator`, `TestNet`, `Delta` | these, `CommonProofs` |
| `ContentProofs` | theorems about the parts that carry contents: `Poly1305`, `Checksum`, `Aead`, `Batch`, `Slices`, `Wire`, `Interpolation`, `Priority` | these, `CommonProofs` |
| `PartsProofs` | theorems about `Aimd`, `Estimators` and `Mtu`, and about `Parts` as a whole | `Parts`, `AccountProofs`, `ContentProofs` |

**How they fit.** The layers are checked one at a time, and each takes the one
below as what that one was shown to provide. `Reliability` works with wrapped
numbers, rings and bit sets, and shows that an ack pair stands for a set of
packets and that a packet is accepted at most once, while none is older than the
ring spans. `Connection` takes that as
given: its packets carry sets. `Channel` takes from `Connection` that a copy of a
message arrives at most once per transmission and that only what arrived is
acknowledged, and shows what the application sees. `Handshake` reduces an
established connection to the time since it last heard from the other end.
`Aimd` and `Cwnd` are the two congestion controllers, of which a connection has
one (`newCongestionController`); `Connection` sees either as a gate that lets
through any prefix of a queue, so what it shows holds for both. `Fragment` sits
between the application and a connection and needs no more of the latter than
that it is a link that may lose, reorder and repeat. `RateLimiter` decides which
requests reach the handlers of `Handshake`, where a refused one is a lost one.
`Migration` is the answer of the peer to a data packet from an address at which
`Handshake` has no connection. `Wire` shows what the layers above take for granted:
that a packet read is a packet written, with a perfect check for damage; `Checksum` shows how
perfect the check is. `Ciphers` and `Poly1305` are the two halves of `Aead`, which takes
them as ideal. `Estimators` and `Bandwidth` are what a connection
measures; what the round trip and the losses decide is free in `Aimd` and
`Connection`, so these hold whatever was measured. `TokenValidator`, `Mtu`, `Batch`,
`Delta`, `Priority` and `Interpolation` are services the application drives; the peer
itself calls none of them. `TestNet` and `Simulator` stand where the socket does,
in the tests.

### SeqNum

`SeqGt`, `SeqDiff`, `SeqDist` and `NextSeq` are `nn_seq_gt`, `nn_seq_diff`, the
distance test of `onPacketReceived` and `nextSeq`. `Wire(n)` is the number on
the wire of the n-th packet or message. The circle has `2 * Half` numbers:
2^16 in the code, 4 to 32 in the runs.

### Reliability

The variables are the fields of `ReliableEndpoint` of the two ends, for the
direction in which data flows. `SendTracked` and `SendUntracked` are
`allocateSeq` with and without `onPacketSent`; `ReceivePacket` is
`onPacketReceived` with `ackUpdate`; `SendHeader` reads `getAckInfo` into a
packet on its way back; `ReceiveHeader` is `processIncomingAck` over
`nn_ack_process`, which releases every record the pair acknowledges and counts
against every record it denies. `ackBits` is the set of set bits. `accepted`,
`repeated`, `released` and `late` are history; `late` says whether a packet was accepted that
was older, by the time, than the ring spans.

A packet may be delivered any number of times while it is no older than
`MaxDelay`; one that is never delivered is lost. The bound is an assumption on
the network and it is needed: 2^15 packets later the circular order says
nothing. In the code's terms it says that no packet is delayed by half the
circle, and that the connection has timed out long before half the circle is
lost in a row.

### Channel and Delivery

`mode` and `blocks` are the configuration, chosen by `Init`, so that one run
covers every mode. `Send` is `channelSend` and the first transmission;
`Receive` is `onMessageReceived` in the mode's variant; `SenderTick` is
`getRetransmitMessages` and `ReceiverTick` is `channelUpdate`, each after a frame
of some length from `Frames`; `Acknowledge` is `acknowledgeMessage`. Entries
carry their ages instead of send times. A channel may start in the middle of
its life (`Start`): that is the state after that many messages were sent,
delivered and acknowledged.

A large message goes through the same channel. `SendLarge` is `sendFragmented` of the
peer: a number for the message itself (`channelNextSeq`), which no packet carries,
then a `channelSend` per fragment, undone if one is refused. `marked` are the copies in
packets that say they are fragments; `ReceivePiece` hands those to the assembler
(`processFragmentData`), past the channel, while `Receive` is what any other copy meets
(`processDirectMessage`), a retransmitted fragment included. The assembler has room and
time here (`gathered`); `Fragment` is about what it does without.

`Delivery` is the abstract specification: a message number and a queue, with the
guarantee of each mode on the queue. `Promise` instantiates it (INSTANCE ... WITH) with
`sent`, `delivered`, `mode` and `gaveUp`, everything else being hidden, and
`KeepsPromise` says that every step of the channel is one of `Delivery` or none. A
large message takes several numbers in one step, so `Send` of `Delivery` may too.

### Connection

`Frame` is the whole of a connection's part in `peerProcess` after dispatching:
`updateConnected` (`processRetransmissions`, then the keepalive), output by
channel priority, and the bare acknowledgement that goes out if one is owed and
no data carried it. `Expire` is the frame that finds the connection silent for
too long. `Receive` is `processIncomingHeader`: accept, resolve the
acknowledged packets to messages through the ack map, prune the map.
`SendMessage` is `sendMessage` under the blocking policy.

`Init` chooses between two worlds. In a rough one the network delivers what it
likes when it likes (a packet that is never received is lost) and congestion
control lets through any prefix of each queue. In a calm one nothing is lost or
blocked, and each unit of time has room for a frame of either end and for every
packet to arrive. The safety properties are checked in both; `StaysUp` and
`NoNeedlessRetransmission` say something about the calm one.

`drainAllConnections` runs the output of a connection a second time in the same
frame. For a connected one the second pass sends nothing: the queues hold only
what the budget refused, and within a frame the budget only shrinks. The model
has one pass.

### Handshake

One action per handler of `dispatchPacket` (`ReceiveRequest` ...
`ReceiveDisconnect`), one per call of the application (`Connect`, `Disconnect`,
`Restart`), `Update` for the maintenance at the end of `peerProcess`
(`updateTick` of every connection, `retryPendingConnections`, `cleanupPending`),
`Tick` for the peer's own clock. Peers run at unrelated speeds. Salts are fresh
numbers; a cookie is the record of what it is computed from. With `Duplicates`
the network may deliver a handshake packet again at any later time. Data is
abstracted to keepalives; every frame of a connected peer sends one, so a
time-out means that the network or the other end failed.

### Fragment

`SendFragmented` is the branch of `peerSend` for a message over the packet size:
`Split` is `splitMessage`, and all fragments leave or, if there are too many,
none. `ReceiveFragment` is `onFragmentReceived` with everything it calls:
`insertFragment` (`Ignored`, `Buffer`), then `evictIfNeeded` (`Evicted`, oldest
first, possibly the very buffer just filled), then `tryComplete`.
`AssemblerUpdate` is `assemblerUpdate`, with ages for creation times. A
fragment's data is its length; where it belongs is its index. `stats` holds the
counters of the code and, beside them, how many buffers were opened.

### Aimd

`Frame(d)` is the part of `updateConnected` that ticks the controller, followed by
what `processChannelOutput` sends from the budget; `Worsen`, `Thrive` and `Bad` are
the branches of `nn_cong_aimd_tick`. The code's doubles are fixed-point numbers
with `One` to a packet, time has `Hz` units to a second, and time stamps are
ages. The code passes the tick the time since the last *send*, and so does
`Frame`. What is congested (loss or round trip over the threshold) changes at any
time.

### Cwnd

`SendPacket` is a frame with a send that fits the window (`nn_cong_cwnd_check_idle`
first, as in the code), `Header` the call of `processIncomingHeader` with what
`nn_ack_process` reports to the controller in its order: acknowledged bytes, the
newest acknowledged number, then a loss if something is missing, with the
retransmit number, which is 0 while nothing was missing often enough. Packets
are recorded in the sent ring only if they went over a reliable channel, but all
of them count as in flight.

### RateLimiter and TokenValidator

`Allow` is `rateLimiterAllow` with the clean-up it may trigger (`MaybeCleanup`), which
goes over all sources. Time stamps are ages; a source is the hash of an address.
`admitted` is history: what really went through in the last second, whatever the
table says. `Validate` is `validateToken` with `enforceLimit` and `evictOldest`; its two
refusals change nothing and are no steps. `lastTaken` is history.

### Wire and Batch

`SendPayload` writes a message as `peerSend` does, plain or in fragments, and
`SendHandshake` a handshake packet; `PacketBytes` is `nn_packet_write`, whose type and
numbers share bytes, and `EncodeLE` the little-endian integers of the payload headers.
`ProcessOnePacket` reads it all back. A byte is two halves, each of as many values as
the run needs (`Nibble`), which is the granularity at which `nn_packet.c` shifts and
masks. `Damage` is a change on the way, which the CRC finds: that it always does is
assumed. Numbers have the digits of `Words` (`Shifted`, `FromDigits`), to the base of a half or of a byte.

`Batch` has the three operations of the writer and the two of the reader, which may be
given a buffer that was cut short at any byte and may be called again after it failed.

### Estimators and Bandwidth

`RttUpdate` is `nn_rtt_update` in integers as the C code has them, each operand
shifted by itself; `LossRecord` and `LossesCounted` are the loss window,
`RttReset` and `LossReset` what `resetMetrics` does on a migration.
`BandwidthRecord` is `nn_bandwidth_record` and `BandwidthBps` the quotient that
`nn_bandwidth_bps` computes, as its two operands.

### Migration

`MigrateConnection` is the branch of `processDataPacket` for an unknown address with
`findMigrationCandidate`, `ForgetCooldowns` the end of `peerProcess`. Clients `Roam`, also
to an address another had before, and packets from earlier addresses may arrive
late and again. Which connection moves is the code's choice, by number and in
address order, not the sender's (section 6).

### Mtu

The four operations of `Mtu.hs`, in any order: nothing in the library says in which
the user calls them. The path carries sizes up to `pathMtu`, and the answer to a
probe that fits may be reported late, again, or never.

### Delta

`Encode` and `DeltaOnAck` are the sending side's `deltaEncode` and `deltaOnAck`,
`PushBaseline`, `GetBaseline` and `NotExpired` the receiving side's store.
`ReceiveDelta` is the application that uses them: what it can decode it stores and
acknowledges. A delta is the pair of snapshots it leads from and to; applied to any
other state, or taken for a full one, it yields `Garbled`. Either side may start afresh at any time.
Numbers on the wire are modulo `Numbers` (2^16 in the code), and the last of them is
`NoBaseline`, the mark that there is none, as in the code: the caller of `deltaEncode` may use
it like any other, and a delta against the snapshot of that number is `Marked` like a full state. `MaxLag` and `MaxSpan` say that nothing is used so late that the
numbers have come round: the same assumption as `MaxDelay` above.

### Priority and Interpolation

`Accumulate` and `DrainTop` alternate, as the user of `Priority.hs` calls them. `ApplyModifier` may come at any
time, as often as one likes, with any factor below 1, 0 included (`Neutral` stands for 1.0, and a
priority is rounded down); factors above 1 come once per entity and tick, several being one, their
product. `SelectWithinBudget` passes over what does not
fit (`IfItFits`) and goes on, as the recursion in the code, through the entities in the order of their priorities
(`Sorted`, which ranks them by how many are higher). `waited` is history: it counts the ticks since an entity was
sent, registered or weighted down, for whoever is weighted down in every tick may never be sent (section 6).

`PushSnapshot` is `pushSnapshot`, `SampleSnapshot` is `sampleSnapshot` with
`findAndInterpolate`, as an exact fraction. The state at a time is its square, so that a
value tells between which two snapshots it was drawn.

### Slices

`Count`, `Build` and `Read` are `nn_fragment_count`, `nn_fragment_build` and
`nn_fragment_read`, with the slices built and read in any order and as often as one likes.

### Words, Crc32c and Checksum

A word is the set of the positions of its ones, so that the operators of C are those of
sets; addition carries (`Plus`). `WriteLE` and `ReadLE` are the `nn_write_...` and
`nn_read_...` of `nn_wire.h`, compiled for a host of either byte order.

`Crc32c` has the checksum three times, as the code does: `Software` from the table,
`Hardware` a word at a time with the instructions of x86 or ARM (which are external,
and taken to do what their manuals say). `Checksum` lets one build append it
(`AppendCrc`), the link flip any pattern of bits that lies within the width of the
checksum or deliver a runt, and another build validate it.

### Ciphers

`QuarterRound` is a `QR` of `chacha20_block` and `XorBlock` the rest of it with its turn of
`chacha20_crypt`; `SipAbsorb` and `SipFinish` are the blocks of `nn_siphash_2_4`, `CrcCompute`
is `nn_crc32c` at its real width. A task names an input and the answer that is published
for it, and each is computed on hosts of both byte orders.

### Poly1305

`Feed` is `poly1305_blocks` for one block and `Finish` is `poly1305_finish`, with every
truncation to 32 or 64 bits. Beside the limbs, `exact` keeps what they stand for, computed
without limbs. `Packed` puts limbs together with `|`, bit by bit, so that overlapping ones show. The
size of a limb is a parameter: 26 bits in the code, five in the run, any in the proofs.

### Aead

`Encrypt` and `Decrypt` are `nn_crypto_encrypt` and `nn_crypto_decrypt`. A byte is a set of
atoms under exclusive or: a plaintext byte, or a byte of the key stream named by key,
nonce, block and place. The tag is an ideal function of its input, of which the code's
padding with zeros and its two lengths are part. `Altered` are the ways a packet may
differ from one that was sealed.

### TestNet and Simulator

`NetSend`, `NetRecv` and `NetClose` are the instance of `MonadNetwork`,
`WorldAdvanceTime` is `worldAdvanceTime` with `deliverPackets`, whose two folds go from
the right and so reverse what they keep and what they deliver. `ProcessSend` is
`simulatorProcessSend` (`LosePacket`, `Drop`, `Pass`) and `ReceiveReady` is
`simulatorReceiveReady`. Random numbers are choices, and bandwidth is in whole tokens.

## 3. What TLC checks

| Run | Question | Size |
|---|---|---|
| `Endpoints` | loss, reordering and duplication of packets: `SentAccounting`, `AckStateExact`, `AckedWasReceived`, `NackMeansMissing`, `AcceptedOnce`; or two clients and a server with one slot of each kind: `AdmissionBound` | five packets, two headers, rings of four slots; three peers; 1,260,000 states |
| `Channel_modes` | five modes and both policies refine `Delivery`, with messages large and small (`KeepsPromise`); buffers stay consistent (`BuffersConsistent`); nothing acknowledged is lost (`AckedIsSettled`) | five numbers, past the first; 594,000 states |
| `Channel_wrap` | ordered and sequenced delivery on a circle of ten numbers, crossing the wrap-around (`OrderHolds`); nothing waits forever in the ordered buffer (`HeldBackIsDelivered`) or the send buffer (`SendBufferDrains`) | three numbers, from the ninth, both policies; 25,000 states |
| `Connection` | both worlds: acknowledgements are true, paid and remembered; retries bounded; a calm connection stays up and sends nothing twice | two channels, one end sending, one answering |
| `Handshake_two` | two peers, one of them of another protocol or not, both may call, disconnect and restart, packets repeat; no pending and no half-open connection stays | two calls |
| `Parts` | twenty-two parts, listed below | 217,000 states |

What `Parts` asks of each part:

| Part | Properties |
|---|---|
| assembler | what it hands on is a message that was sent (`AssembledWhole`); its memory is accounted for and no complete buffer is overlooked (`AssemblerAccounts`); nothing incomplete stays (`BuffersDrain`) |
| wire format, batches, slices | what is read is what was written, from packets in any order, buffers cut at any byte and slices built in any order (`WrittenIsRead`) |
| rate | halvings are spaced (`HalvingsSpaced`), what waits is sent (`WaitingIsSent`), good conditions bring the good mode back (`ModeComesBack`); budget and recovery time stay in bounds (in `PartsTypeOK`) |
| window | it agrees with its phase, and never counts too little in flight (`WindowIsTrue`) |
| round trip, losses, bandwidth, MTU | what the library says of its path is true of it (`PathIsMeasured`) |
| migration | a connection is in one place, displaces none, and stays for the cool-down (`MovesKeepConnections`) |
| limiter, tokens | the limiter lets through and refuses exactly what it should, and nobody's token is forgotten early (`GatesHold`) |
| deltas, interpolation, priority | what is decoded was sent, what is shown lies between, and no entity that is not weighted down waits longer than `MaxWait` ticks (`ReplicaIsTrue`) |
| test networks | nothing is lost, doubled or misdirected unbidden (`NetworksKeepAccounts`) |
| checksum | whatever the two ends are built for, a packet as it was sent is accepted, and any damage within the width of the checksum is found (`DamageIsFound`) |
| ciphers | key stream, hash and checksum are the published ones, on hosts of both byte orders (`DigestsAreStandard`) |
| mac | the accumulator stands for the polynomial, the last reduction yields its residue, and the tag is that plus the pad (`MacIsExact`); the limbs have room (in `PartsTypeOK`) |
| sealing | only what was sealed opens, to its plaintext; nothing else touches the buffer; no byte of the key stream covers two bytes (`OpenedIsSealed`) |

Six more runs state what a comment or document of the repository says of the
program and find it violated (section 6): `Reliability_first_ack`,
`Channel_first_sequenced`, `Channel_fragments`, `Handshake_tiebreak`,
`Cwnd_in_flight`, `Priority_weighted_down`.

**Bounds and why they are enough.**

* `Endpoints`, packets: rings smaller than the number of packets, so slots are
  reused and evicted, and a packet may come when its slot was reused (`late`); `MaxSeqDist` is
  half the circle, which is the default, so that it is still looked at then; an ack field smaller than the delay, so numbers fall out
  of it; the ring's slots divide the circle, as 256 divides 2^16. Five packets do
  not go round the circle of sixteen numbers; the theorems do, for every number
  of packets (section 4), and the channel runs do.
* `Channel_*`: the send buffer is full with two messages, so eviction and
  refusal happen; one retry, so dropping happens; time-outs of one and two units
  with frames of one and two, so that a frame may step over either.
  `OrderedBufferSize` is as large as the ordered buffer can get given
  `SendBufferSize`; section 6 says what happens when it is smaller. `MaxAge`
  lies beyond every time-out. `MaxSpan` bounds how far apart, in messages, what
  is outstanding may be: with the pieces of a large message it stays below half the circle
  in both runs (`SpanFits`, section 4), as the code's time-outs ensure for a circle of 65536. A large message has two pieces in `Channel_modes`, so that the
  send buffer may take one and refuse the other, and they may arrive either way round;
  across the wrap-around it has one.
* `Connection`: in the rough world one message per channel, three packets one
  way and two back are enough for a lost original, its retransmission, an
  acknowledgement of either and one that overtakes; in the calm one, two
  messages per channel fill the send buffer. The ack map prunes above one entry.
  `WireBits` covers the packets that may arrive between two frames of the
  receiver (four messages and one bare packet): with fewer, a burst is never
  wholly acknowledged and is sent again, as the 32 bits of the code do for a
  burst of more than 33 packets.
* `Handshake_*`: two salts per peer let an answer to one attempt arrive in the
  next; one retry lets the retry, the answer and the clean-up race; limits of
  one make every request meet a full table. In `Endpoints` two clients call one server that has
  one place of each kind; calls and salts suffice for both to call and one to come again.

* `Parts`, assembler: messages of two fragments with a full and a shorter last
  one, and one message too large to be split; memory for one full message, so two
  of them compete and evict; every fragment may come twice, the second time
  after its buffer was completed, evicted or timed out. Rate: the times are the
  code's own in half seconds, except that the cap of the recovery time stands
  just above eight seconds, which nothing exceeds in the run, and far below the
  code's minute (`RecoveryStaysShort`, proved for all values); the rate may grow
  threefold, not fourfold; ages beyond `MaxIdle`, of three, make no difference, since by then rate and budget are at their caps.
  Window: a circle of six numbers, packets of a whole segment, three of which fill the
  window, and five of them: enough for a loss, the recovery, its end, a second
  loss and an idle spell (`Cwnd_in_flight` has packets of half a segment as well, and four). Limiter: a limit of two in a second of two
  units, with clean-ups every three, so that they fall inside a window. Validator:
  room for two of three clients, and a token made for as long as a use is
  remembered, so that it is taken, forgotten and offered again. Wire: a
  half of a byte has two values, so that a byte has four and every shift shows; two
  packets' worth of messages, one of which is cut into two fragments. Batch: a byte
  of four values, so the count is full at three messages, and a buffer of twelve bytes,
  cut at every length. Slices: messages up to one slice more than the limit, for slices of
  none to three bytes. Checksum: a checksum of four bits over bytes of two, with
  instructions for words of two bytes and payloads up to two words and a byte, so that every
  remainder occurs; every burst within the width, at every place. Ciphers: the
  answers are those of the repository's own tests, at full width: 67 bytes of the golden
  packet, which reach into the second block; the vector of the SipHash paper; the digits
  for CRC32C, with instructions and without. Mac: limbs of five bits (`LimbBits`, with `Base` its power of two), with which the prime of
  130 bits becomes 2^25 - 5, a multiple of the sizes in the same proportion, and is as close
  below a power of two as its limbs can tell; keys of nothing, of one and of full
  limbs; blocks at both ends and at thirds of the modulus. Sealing: blocks of three and of
  two bytes, two packets, and plaintexts that end in zeros, within and at the end of a block.
  Round trip: samples on both sides of multiples of eight, up
  to the fixed point. Losses: a window of four goes round almost twice with seven
  outcomes. Bandwidth: four transfers in a ring of two and a window of two.
  Migration: three addresses and two connections, so one may roam to where the other
  was; numbers go up to one, so any
  distance but 0 would match every connection. MTU: ten sizes and
  four probes, enough to close the interval; the path's MTU is any of them. Deltas:
  five snapshots over four numbers, so one comes round and one has the number that is also the mark; both stores hold two.
  Priority: entities of one, two and three bytes and a budget of three, so the largest
  goes only when it is first; a factor of 0, the extreme, and one of 4/3; `MaxWait` is the longest wait there is with these
  weights. (`Priority_weighted_down`: two entities of one priority, and a third as a factor.) Interpolation: buffers of two and four snapshots, five pushed, early
  and late, and a sample at every time.
  Test world: two packets between two peers, each delayed, lost or doubled, so the
  order of the folds shows. Simulator: a bucket of three bytes and packets of one
  and three.

`TypeOK` of `Reliability` and of `Handshake` is proved (section 4), so no run repeats
it. Those of `Channel` and `Connection` are part of `BuffersConsistent` and `CopiesBounded`.
`PartsTypeOK` holds the type invariants of the parts, except of those whose state
says nothing more than their properties (`Wire`, `Batch`, `Bandwidth`, `Interpolation`), with the bounds on the
rate controller that are proved as well (`BudgetWithinRate`, `RecoveryStaysShort`).

`CHECK_DEADLOCK FALSE` stands in the configurations of `Endpoints`, `Reliability`, `Channel`,
`Connection`, `Parts` and `Cwnd`: they end when the bounds on messages and packets
are used up, which the clocks of `Parts` do not change for the assembler, whose
update has nothing to do when no buffer is left.
`Handshake` never stops, since clocks tick, and is checked for deadlock.

**Fairness.** `Channel!FairSpec` asks that both endpoints keep being ticked,
`Handshake!FairSpec` that every peer's clock advances and that every application
keeps calling `peerProcess`: the library has no thread of its own, and all its
time-outs run inside that call. Nothing is asked of the network: no
delivery is fair, so the liveness properties hold even if everything is lost.
`Parts!Fairness` asks the same of the two parts that have a clock: that the
assembler is updated and that frames go on, both of them calls that `peerProcess`
makes every time. `PriorityFairSpec` asks that its user goes on with its ticks, without which
`EverySent` would fail for no fault of the code.

## 4. What is proved

| Module | Theorem | Says | Assuming, besides the modules' ASSUMEs |
|---|---|---|---|
| `CommonProofs` | `WindowOrder` | on numbers less than half the circle apart, the circular operators agree with order, difference and distance | |
| `ReliabilityProofs` | `TypeCorrect` | `TypeOK` | |
| | `CountIsExact` | `SentAccounting` | |
| | `AckExact` | `AckStateExact`, for ever, across every wrap-around | |
| | `AcceptedAtMostOnce` | `AcceptedOnce`, for any ring and any distance | |
| | `AckedArrived` | `AckedWasReceived` | `MaxPackets <= SeqSpace` |
| | `NackedWasMissing` | `NackMeansMissing`, an action property | `MaxPackets <= SeqSpace` |
| `ChannelProofs` | `OrderKept` | `OrderHolds` | `SpanFits`: `MaxSpan + Pieces < Half` |
| | `Promised` | `KeepsPromise`, the refinement of `Delivery`, in every mode | `SpanFits` and `NumbersLast`: `MaxMessages <= Half` if there is `ReliableUnordered` or `ReliableOrdered` |
| | `BuffersSound` | `BuffersConsistent` | |
| | `AcknowledgedIsSettled` | `AckedIsSettled` | `HandsFree`: `SpanFits`, and per mode what keeps a message from being dropped after its acknowledgement (below) |
| `ConnectionProofs` | `AcksAreTrue` | `AckedArrived` | |
| | `AcksArePaid` | `AcksGoOut` | |
| | `CalmStaysUp` | `StaysUp` | |
| | `SentSparingly` | `CopiesBounded` | |
| | `CalmNeverRepeats` | `NoNeedlessRetransmission` | `TimeAndRoom`: `2 <= Rto`, and what can be posted in calm weather fits in `WireBits` |
| `HandshakeProofs` | `TypeCorrect` | `TypeOK` | |
| | `PhaseCorrect` | `OnePhase` | |
| | `EventsCorrect` | `EventsMatchState` | |
| | `Admission` | `AdmissionBound` | |
| | `Refusal` | `ForeignRefused` | |
| `AccountProofs` | `WholeMessages` | `AssembledWhole` | |
| | `AccountsKept` | `AssemblerAccounts`, `FragmentTypeOK` | |
| | `WindowAgrees` | `PhaseAgrees`, `NeverUndercounts`, `CwndTypeOK` | |
| | `LimitExact` | `LimitIsExact`, `LimiterTypeOK` | |
| | `RecentRemembered`, `TokensTyped` | `RemembersRecent`, `TokenTypeOK` | |
| | `RateOfTransfers` | `RateIsExact` | |
| | `MovesKept`, `PlacesTyped` | `MovesKeepConnections`, an action property, and `MigrationTypeOK` | |
| | `SimulatorKeepsAccounts` | `BandwidthHeld`, `CopiesConserved`, `SimTypeOK` | |
| | `WorldDeliversAsSent` | `DeliveredAsSent`, `WorldTypeOK` | |
| | `DecodedAsSent` | `DecodedIsSent`, a part of `ReplicaIsTrue`, and `DeltaTypeOK` | `MaxPending <= Numbers` |
| `ContentProofs` | `RoomForCarries` | `LimbsFit` | |
| | `ResidueExact`, `MacExact` | `ResidueIsExact`, and all of `MacIsExact` | `Base >= 128` |
| | `DamageFound` | `DamageIsFound` | |
| | `SealingSound` | `OpenedIsSealed` | |
| | `BatchReadBack`, `SlicesJoined` | `BatchIsRead` and `SlicesJoin`, parts of `WrittenIsRead` | |
| | `MessagesRead` | `ReadIsWritten`, the third part of `WrittenIsRead` | `IdsLast`: `MaxWritten <= Num32` |
| | `PlaybackSound` | `SampledIsPlayback`, a part of `ReplicaIsTrue` | |
| | `PrioritiesTyped` | `PriorityTypeOK` | |
| | `NobodyStarves` | `NothingStarves`, a part of `ReplicaIsTrue` | `MaxWait` at least what the weights allow (below) |
| `PartsProofs` | `RateTypeCorrect`, `RateAndBudget`, `RecoveryShort` | `AimdTypeOK`, `BudgetWithinRate`, `RecoveryStaysShort` | |
| | `Spacing` | `HalvingsSpaced`, an action property | |
| | `RoundTripAmongSamples` | `SmoothedWithinSamples`, `RttTypeOK` | |
| | `LossExact` | `LossIsExact`, `LossTypeOK` | |
| | `DiscoveredCarried` | `DiscoveredIsCarried`, `MtuTypeOK` | |
| | `WindowTrue`, `Gates`, `PathMeasured`, `NetworksKeep`, `Assembling`, `ChecksumHolds`, `Sealing`, `PutTogether` | the invariants of `Parts` that those make: `WindowIsTrue`, `GatesHold`, `PathIsMeasured`, `NetworksKeepAccounts`, `AssembledWhole` and `AssemblerAccounts`, `DamageIsFound`, `OpenedIsSealed`, `BatchIsRead` and `SlicesJoin` | |
| | `ReadAsWritten` | `WrittenIsRead` | `IdsLast` |
| | `Authenticating` | `MacIsExact` | `Base >= 128` |
| | `ReplicaTrue` | `ReplicaIsTrue` | those of `DecodedAsSent` and `NobodyStarves` |
| | `PartsTyped` | `PartsTypeOK` | `MaxPending <= Numbers` |

Each is for every value of the constants: ring sizes, windows and circle; any
finite set of peers, any limits and time-outs, and a network that repeats packets
or not. The arguments:

* **Counting** (`CountIsExact`). An insert adds a slot or replaces one, an ack
  empties the slots it names; the lemmas on cardinality are about the set of
  occupied slots.
* **The ack pair** (`AckExact`). `AckStateExact` is not inductive: the bits below
  the window that is sent matter to the next shift, and an arrival must be
  known to lie within half the circle of the newest for the circular order to
  be right. `AckInv` adds both: every set bit stands for a packet that arrived,
  below bit `AckWindow` every arrival has its bit, and `next` stays within
  `MaxDelay + 2` of the newest arrival. `AckWindow` itself is excluded, and
  rightly: the C code keeps 64 bits and shifts one of them out.
* **Deduplication** (`AcceptedAtMostOnce`). Two packets in the same slot are a multiple of `Ring` apart. So as
  long as nothing was accepted that is more than a ring older than the next number
  (`~late`), what lies within a ring of that number is still in its slot (`EarlyInv`), whatever the
  distance at which packets are looked at: by default 32768, with a ring of 256. Once something older
  has come in, it may have displaced what is newer, or be itself forgotten, and a repetition is
  accepted (section 6). Where the distance is less than the ring that cannot happen: `DedupInv`, what arrived
  within `MaxSeqDist` of the newest is still in its slot, and what an arrival displaces is further away.
* **What the sender concludes** (`AckedArrived`, `NackedWasMissing`).
  `HeaderInv` says of each header on its way back what was true when it was
  written, which stays true because arrivals are never undone. It needs the
  numbers not to have come round: the records of the ring carry 16 bits.
* **The channel** (`OrderKept`, `Promised`). `LinkInv` says that whatever the sender or the
  link holds was given its number no more than `MaxSpan` numbers ago; `Sequenced` and
  `InOrder`, that the receiver is no further behind and that what an ordered channel
  holds back lies between what it has delivered and what was sent. Any two
  numbers that meet are then less than half the circle apart (`SpanFits`), so that
  `WindowOrder` and `WireInjective` apply. `RunEnds` is about `flushConsecutive`: the run it
  delivers exists, is a run of messages and not only of numbers on the wire, and ends before
  what was sent; the least `k` at which it stops is no more than the size of the buffer
  because its messages are different. `BuffersEntries` goes through the pieces of a large message one by
  one. Where an argument is an induction it takes the least element of a set of
  exceptions (`Least`). `Firm` leaves out an ordered channel that has given up, after which
  order is not promised, but still that nothing is delivered twice. `DealtInv` says why not:
  what was delivered, or flushed by the time-out however it was held back, is behind the number
  awaited, and no number is both delivered and held back. It compares numbers as they are sorted, raw,
  and so holds until they come round (`NumbersLast`); across the wrap-around it fails (section 6).
  The seen set of an unordered channel works for one half of the circle as well: the code trims it
  around a number that never moves.
* **The channel's buffers** (`BuffersSound`). No order enters here, so nothing is assumed of the
  span: `BufferInv` is the types, sizes and labels of the two buffers. It adds to
  `BuffersConsistent` that the number awaited is not among those held back, which receiving, flushing a run and
  flushing after the time-out each have to keep.
* **What becomes of the acknowledged** (`AcknowledgedIsSettled`). `HandsInv` speaks of everything
  that arrived and not only of what was acknowledged, because an acknowledgement may come any time
  after; of the pieces of large messages, which may not be shared (`LargeApart`), or one
  message's settling would unsettle another's piece; of the seen set, whose numbers are those
  of messages delivered; and of the newest message of a sequenced channel, whose number is
  `recvSeq`. Every part of `HandsFree` is needed. A sequenced channel that starts at
  message 0 refuses it and acknowledges it (section 6, `Channel_first_sequenced`); an ordered
  buffer with less room than what may be ahead drops what was acknowledged, and so does a seen
  set that meets a number again (both in section 6). `Firm` leaves out the ordered channel
  that gave up, about which `AckedIsSettled` claims nothing.
* **The connection** (`AcksAreTrue`, `AcksArePaid`, `CalmStaysUp`, `SentSparingly`, `CalmNeverRepeats`). `ConnInv` states what was
  sent as a function of its number: `Numbered`, that the n-th entry of `carried` is what packet
  n carried; `Mapped`, that the ack map agrees with that wherever it has an entry; `Arrivals`,
  that a packet on its way acknowledges only what had arrived. A message acknowledged
  is then one that was carried by a packet that arrived. What a frame sends is a
  concatenation of the queues' prefixes, and `CountConcat` counts a message in it. `CopyInv` bounds
  the copies sent and queued together by the retries its entry has counted: retransmission
  moves one from the entry to the queue and output one from the queue to the network. `CalmInv`
  bounds each end's silence by the time since the other sent, unless something is on its way; that
  is kept because a unit of time passes only when both have run a frame and nothing is left on
  the way. That nothing is sent twice in calm weather (`CalmNeverRepeats`) needs the whole round
  of a message: `Prompt` says of each one in a send buffer that it was sent once and is waiting in its
  queue, on its way, accepted and owed an acknowledgement, or acknowledged by a packet coming
  back, and how old it can be in each of these places; none is as old as `Rto` when a frame
  looks for retransmissions. An acknowledgement that is owed is still within the ack bits when the frame
  pays it, because no more packets than those bits can be sent in calm weather (`TimeAndRoom`).
* **Whole messages** (`WholeMessages`). A buffer is complete when it holds as many
  fragments as its count says, whatever their indices. `Genuine` says that
  every fragment on the link is one of its message's split, `Holds` that a buffer
  holds such fragments at their own indices; a set of as many indices below the
  count as the count is all of them, by cardinality.
* **The assembler's books** (`AccountsKept`). `BookInv` is the sums: the size of a set of buffers
  is a sum over a function, which changes by one term where one buffer does (`CommonProofs`).
  `SightInv` says that every fragment that arrived is in a buffer, in a message handed on, or of a
  message whose buffer was dropped, and needs `AssemblerInv` to know that a buffer that is not
  complete lacks a fragment that is on its way or lost. Buffers are evicted oldest first until the rest fits, so the least size that
  is left is within the bound (`Evicted`).
* **The window** (`WindowAgrees`). `WindowInv` has one line that is not a type: the bytes of the
  tracked packets are at most those in flight. Each header releases some records and subtracts
  their bytes, and the subtraction stops at 0 in the code.
* **Limiter and tokens** (`LimitExact`, `RecentRemembered`). `LimiterInv` says that what the table has of a
  source, as far as it is recent, is what was admitted of it; a clean-up removes a source
  only when nothing of it is recent. `TokenInv` says that what is remembered of a client is its
  last use; whoever is evicted is the oldest, hence older than all that are kept (`OldestIs`).
* **Rings** (`RateOfTransfers`, `LossExact`). The latest entries are in the slots that their numbers
  give them, and fewer entries than slots have different slots.
* **Moves** (`MovesKept`). `MigrationInv` says that a connection that moved within the cool-down is
  among the cool-downs with the time of its move, so that the guard of the code, which reads the
  table, speaks of the move; and that no two places have the same connection.
* **The test networks** (`SimulatorKeepsAccounts`, `WorldDeliversAsSent`). Both count copies of a packet
  in queues that are filtered, split and reversed by folds; `Hits` counts entries of a sequence,
  and is kept or halved by each of those (`CommonProofs`). `WorldInv` says that a packet's
  copies are only at its sender, before they are due, or in the inbox of its addressee, so the
  count has two terms and not one per pair of peers.
* **Deltas** (`DecodedAsSent`). `DeltaInv` says that a delta leads from a snapshot that the receiver had when
  it was made, and that a store keeps, behind a baseline, every later one that arrived (`InStore`),
  so that none is outlived by one that came before it. A number on the wire then names at
  most one snapshot that can be in the store, as `MaxSpan + MaxLag` is at most the circle. The
  numbers awaiting an acknowledgment must not come round either, whence `MaxPending <= Numbers`:
  the code's circle has 65536 numbers, and the caller chooses how many it awaits
  (`newDeltaTracker`). What is decoded of a delta whose mark means a full state is not claimed, nor
  what rests on it: `Mistaken` is the set of those, and the claim stands while it is empty; that the
  sender encodes only against what the receiver has had stands in any case.
* **The rate** (`Spacing`). The spacing of two halvings is not inductive: leaving
  the bad mode checks the recovery time, but the recovery time may be
  halved later, in the good mode. `FallsAreOld` says that in the good mode the last
  halving is at least the *present* recovery time ago, which the clamp keeps at
  or above the minimum; doubling happens only on the way into the bad mode.
* **The path** (`RoundTripAmongSamples`, `LossExact`, `DiscoveredCarried`). The average is bounded
  by eighths of the extremes and not by the extremes, since an eighth rounds: with
  the range so stated it is inductive (`AverageInRange`), and widens with the samples.
  `LossInv` says that the latest outcomes are in the slots their numbers give them; the
  slots in use and the latest outcomes are then in bijection (`LossesMatch`), so
  the losses among them are equally many. `MtuInv` keeps the lower end of the
  search at a size that was carried, whichever order the answers come in.
* **The authenticator** (`RoomForCarries`, `ResidueExact`, `MacExact`). `MacInv` says that the limbs
  have room and that the accumulator is congruent to `exact` modulo the prime. Room comes
  first: in units of a product of two full limbs, the columns of the product are bounded
  one by one (`ColumnsBounded`) and so are the carries between them (`SumsBounded`), after
  which every truncation to 32 or 64 bits is the identity (`MixedIs`) and the congruence
  is algebra (`ProductCong`, `MixedCong`). At the end, a carry out of a limb is at most
  one and needs a carry into it, so that one which comes all the way round finds room in
  the second limb (`CarriedIs`); and adding 5 carries out of the top exactly when the prime
  is to be taken off (`ReducedIs`). `CarriedIs` needs the surplus of the second
  limb to be less than a limb, whence `Base >= 128`; the code's is 2^26 (the run's, for the sake of TLC's integers, 2^5).
  The tag is then put together bit by bit (`MacExact`). A limb within its size has no bits beyond it
  (`BitsWorth`), taking i limbs off the value moves it down by as many bits (`LimbsAway`), and so a bit
  of the value is one of exactly one limb (`BitOfLimb`): the words are the value modulo 2^128
  (`PackedIs`), to which the pad is added modulo the same (`RestPlus`). Powers of two are a recursive function
  (`PowerOf2`), for the prover knows nothing of exponentiation.
* **The checksum** (`DamageFound`). The register is a linear map of the bits that went through it:
  `ShiftXor` says so of any number of turns, `ShiftMoves` that bits which do not reach the lowest place
  are only moved, and `RegisterMore` concludes that bytes may be taken one at a time or several
  together. A lookup in the table and an instruction are then the same turns
  (`TableIsTurns`, `HardStep`), and every build computes the same checksum (`CrcIs`), on hosts of either byte
  order (`LittleEndian`). A packet is valid when all of its bits, with all ones before them, leave all
  ones in the register (`ChecksIs`), so damage is seen when the turns do not take it to
  nothing. A burst no wider than the register arrives in it whole, and a turn
  takes no register but nothing to nothing, provided that the polynomial has its lowest power
  (`ShiftKeeps`; `CrcAssumption`, as 0x82F63B78 does): `BurstLeavesTrace`. Inductions are over the set of numbers
  for which a fact holds (`Everywhere`).
* **Sealing** (`SealingSound`). That a packet which failed to open was not sealed must hold still when more have been
  sealed since. `SealInv` therefore says that whatever was tried has the tag of a packet that was sealed before:
  the tag tells the counter (`TagTells`), and a counter is used once. A byte of the key stream is named by its
  counter, block and place, so that two bytes covered by the same one are the same byte (`CoverIs`).
* **Batches and slices** (`BatchReadBack`, `SlicesJoined`). `BatchInv` names where in the buffer each message
  ends (`LaidOut`): a message added moves none of the earlier ends, finishing writes only the count in front of them,
  and the reader stands at the end of the messages it has read for as long as it has not failed (`ReaderPlace`).
  The buffer it was given may end anywhere, in the middle of a length too, and then the reader
  fails before it can pass the end. `SlicesInv` says that a slice built or read is the piece of its index; each goes
  from the edge of those before it to the next (`EdgeOf`), and two pieces that follow each other are one
  (`PiecesFollow`), so that the join is the message.
* **Datagrams** (`MessagesRead`). A number comes back from its digits, most significant first or last, if no digit is left
  out (`DigitsBack`), so a header comes back although its type and its numbers share bytes (`HeaderBack`), and
  the pieces of a message join to it (`PiecesJoin`). `WireInv` says that every datagram, damaged or not, carries
  a packet of something written and that every such packet has one (`OnTheWay`); that the assembler holds
  pieces, among them all that were processed (`Assembled`); and that what was read was written and
  what is complete was read (`AllRead`). An MTU above the sixteen bytes of headers, which is all `WireAssumption`
  asks of it, leaves room for a slice (`validateConfig` requires 576). A fragment's identifier
  names its message as long as the 32 bits do not come round (`IdsLast`).
* **Playback** (`PlaybackSound`). The snapshots that count are those newer than all before them. `PlaybackInv` says
  that the buffer holds the end of those: whatever of them it does not hold is older than its first entry, and
  then it is full. So a target between two of its entries lies between the same two of all that came, and one before
  the first or after the last is shown as the code clamps it. The line between the two is exact, as a fraction.
* **Whose turn** (`NobodyStarves`). Let `peak[k]` bound what an entity can gather in k ticks, with every weight a user
  gives (`Climbs`). An entity gathers at least 1 in a tick (`Waits`), so after `peak[n - 1]` ticks without being
  sent, n being the number of entities, it outweighs everybody who has been sent within the last n - 1 of them. Whoever
  is then sent before it has waited at least that long, and starts afresh: in each further tick there is one more
  that has waited less than the ticks since (`Fresh`, `MadeWay`), and after n - 1 of them nobody is left.
  An entity that is weighted down starts its wait again, and the factors of the others only help it when they are
  below 1. `ChosenBefore` is about the budget: who fits it and is passed over has somebody chosen before it, because nothing is
  spent as long as none is. With the constants of the run (peaks 0, 3, 7 for three entities) the bound is 9; the
  run's `MaxWait` of 3 is tighter, and stays with TLC.
* **Parts.** A behaviour of `Parts` is one of each part, as every step is one of it or leaves it alone
  (`FollowsAssembler` ... `FollowsSealing`), so the theorems about the parts are theorems about `Parts`.
* **Tables and events** (`PhaseCorrect`, `EventsCorrect`). The two properties are inductive
  together and not apart: a denial that removes a pending entry reports the
  peer as down, which is right only because a pending peer is not a connected
  one. The proof is about one entry of the tables at a time.
* **Admission**. The limits are read when a request opens an entry and never
  again. `HeldBound` holds because a connection takes the place of a pending
  entry, and `OnlyAnswers` because nothing but `peerConnect` makes an outbound
  entry, for which the limits are not read at all.
* **Refusal**. A connection comes from an answered challenge or from an Accepted
  packet. `ProtocolInv` carries the protocol check along both ways: challenges
  go only to peers of the same protocol, and Accepted only comes from a peer
  that is connected to its addressee, by the time it was sent.

**Only model-checked.**

* Every liveness property, and what rests on fairness: the prover has neither fairness nor `ENABLED`.
* That no entity waits more than 5 ticks with the weights of the run: `NobodyStarves` has the bound for all weights.
* `DigestsAreStandard`, which is about known answers: the published digests of particular inputs are a computation
  and no theorem.

Of the properties the passing runs check, each invariant and action property but that last one is a
theorem. Two theorems assume more than holds of their runs: `ReplicaTrue` a longer `MaxWait`, and
`Authenticating` limbs of seven bits, with which TLC's integers are too small. The runs satisfy what the
others assume.

The prover cannot apply an induction theorem that takes an operator as a parameter, and loses its
main backend in a module with a `RECURSIVE` operator (the models have none). Where a proof needs an
induction over numbers it goes by the least exception (`Least`) or by the set of numbers for which a
fact holds (`Everywhere`), and folds and recursive functions are unfolded by a predicate that says what
one of their steps is.

## 5. What is not modelled

* What the round-trip estimate and the loss window decide: it is free in `Aimd` and
  `Connection` (congested or not) and given in `Channel` (the time-out). Pacing, for
  which `Cwnd` has no clock.
* Counters of drops and evictions, and the user data of a token. The single-peer
  `advanceTime` of the test network and the setters of its configuration.
* In `Fragment`, the channel whose numbers the fragments use, which `Channel` has, and
  headers that contradict each other, since there the link is honest.
* In `Channel`, the assembler's limits, which `Fragment` has; draining the receive queue (`delivered` is all that ever entered
  it), statistics and `resetChannel`. In `Connection`, the disconnecting state,
  which `Handshake` has, and `connReset`. In `Handshake`, encryption and payloads.
* In `Ciphers`, the table of 256 entries: `Table` is what its generator yields, and the
  numbers printed in `nn_crc32c.c` were compared with it once. In `Poly1305`, the clamping of
  the key, which leaves its limbs within their size; and a message that does not end with
  a block, with which no caller calls `poly1305_finish`. Randomness (`nn_random`) is the
  system's; `nn_ffi.c` passes arguments on; `nn_seq_buf` of the C library is called by its test alone.
* Interest
  management: geometry in floating point. Statistics: read by nothing. Sockets and the
  drivers: input and output. In `Interpolation`, clamping of the fraction and what
  the user's own interpolation does with it.
* In `Peer`, broadcast and draining of the outgoing queues.

## 6. Where the code and what is said of it disagree

Six runs end in a counterexample.

* `Reliability_first_ack`. A fresh endpoint's ack pair is (0, none), which reads
  as "packet 0 received" before anything was. The sender releases packet 0 as
  acknowledged. `nn_ack_process.c:31`: "Bit set: peer received this packet".
  Every property above that says "packet 0 excepted" means this.
* `Channel_first_sequenced`. A sequenced channel delivers numbers greater than
  `chRecvSeq`, which starts at 0: the message numbered 0 is never delivered, and on a
  `ReliableSequenced` channel it is acknowledged. `Types.hs:233` answers "Does
  this mode guarantee delivery?" with yes. `Channel_modes` starts at the second
  message for this reason.
* `Channel_fragments`. A retransmission goes out as an ordinary message, whatever it
  was (`Channel.hs:347`): a fragment that was lost comes back with the channel number of the
  fragment, and the receiver hands its header and slice to the application, while the
  assembler waits for it in vain. `Connection.hs:286` says of sending one that it "marks the outgoing
  message as a fragment so the wire encoder uses the fragment payload header".
  The fragments are settled for all that, so `AckedIsSettled` holds; it is the message
  that is gone.
* `Handshake_tiebreak`. Two peers that call each other both turn into servers.
  `Handshake.hs:11`: "Simultaneous connect tiebreak (lower address = server)".
* `Cwnd_in_flight`. Every packet that leaves is added to the window's bytes in
  flight; an acknowledgement takes out only what the sent ring had on record.
  Packets of unreliable channels, and records that were evicted, stay for good,
  until nothing fits the window any more. `nn_congestion.h:100`: "bytes in
  flight".
* `Priority_weighted_down`. `applyModifier` multiplies what an entity has gathered so far. Applied in
  every tick, a factor of a third keeps a priority of 3 per tick at no more than 1.5 whenever entities are chosen, and the entity is passed over in
  favour of one that is not weighted, although it fits the budget, is raised in every tick and the
  ticks go on. Such factors are the library's own: `Interest.hs:41` says of them "< 1.0 decrease it", and both managers there
  return factors from 0 to 1, by distance. `Priority.hs:5`: "ensuring all entities eventually get sent even at low
  priority". `NothingStarves` says what holds instead: whoever is not weighted down meanwhile is sent in time,
  however the others are weighted.

Other things met on the way, which no line of the repository contradicts or which
need a configuration the runs do not have:

* With the default `ncMaxSequenceDistance` a duplicate that is older than the ring spans, or of
  which such a one has taken the slot, is accepted as new: the condition of `AcceptedOnce`.
* A record of the sent ring that was never acknowledged is released, a circle
  later, by the acknowledgement of the packet with the same number.
* `reTotalLost` counts a missing packet once per header that misses it.
* The ordered time-out takes the highest raw key it flushed as the newest
  (`Channel.hs:401`). If the buffer straddles the wrap-around that is an old one, the
  expected number falls behind what was delivered, and a retransmission is delivered
  twice, which `Channel.hs:296` ("Behind expected: duplicate") does not foresee.
  `Channel_wrap` therefore claims order only until the first give-up.
* A full ordered buffer drops a message whose packet is acknowledged; the
  message is lost, and the channel waits for it until the time-out. It takes
  `ccMaxOrderedBufferSize` smaller than the sender's buffer, and the defaults are: 64
  (`Config.hs:78`) against 256 (`Config.hs:72`). One message that is lost while more than 64 are sent behind it is enough.
  The runs and `HandsFree` keep the ordered buffer as large as what may be ahead, so neither `AckedIsSettled` nor
  `AcknowledgedIsSettled` says anything of the defaults in that case.
* After an ordered time-out, order is no longer strict: the number given up on may
  be in the buffer's past.
* The seen set of a `ReliableUnordered` channel is trimmed around `chRecvSeq`,
  which that mode never moves; when numbers come round, new messages are taken
  for old.
* `ncMaxClients` is read when a handshake begins, so it can be exceeded by the
  handshakes pending at the time (`AdmissionBound` is what holds instead).
* ConnectionAccepted is believed without comparing salts, so a late one of an
  earlier attempt completes the next.
* Once the keepalive interval has passed without data, a keepalive goes out in every
  frame: sending one leaves `connLastSendTime` alone.
* Retries are counted when a retransmission is queued, so messages that
  congestion control holds back use up their retries unsent.
* A burst of more packets than the ack bits cover, between two frames of the
  receiver, is never wholly acknowledged.
* The rate controller's tick is given the time since the last send
  (`Connection.hs:562`), so a frame that sends nothing earns the pause again, and
  again in the next: at one packet per second and 60 frames per second a packet
  leaves after some eleven frames. The budget's bound is kept; the rate is not.
* The recovery of the window ends when a number beyond `recovery_seq` is
  acknowledged, but that is 0 unless a record was missed often enough: the next
  header ends it, and the same gap halves the window again. In the upper half
  of the circle it is the other way round, and recovery does not end.
* A recovery time of a minute (`NN_CONG_RECOVERY_MAX_NS`) is never reached:
  doubling stops at twice the five seconds within which a relapse doubles it.
* `validateConfig` accepts an `ncSendRate` below a quarter. Its cap, four times
  that, is less than one packet per second, and the budget, capped by the rate, does
  not admit one as long as conditions are good.
* `Fragment.hs:8` promises LRU eviction; `evictIfNeeded` goes by creation time, and
  may evict the buffer that the fragment just completed.
* A large message takes a channel sequence number of its own (`Peer.hs:220`), with which
  it is delivered, and every fragment takes one more that is never delivered: the
  receiver of an ordered channel waits for it until the time-out. `AckedIsSettled` and the
  liveness properties hold through that time-out.
* Nothing in `Peer` encrypts: sealing is there for the library's user, through `nn_ffi.c`.
* `nn_crc32c.c:7` calls the table lookup slice-by-4; it goes byte by byte. On a big-endian
  ARM the words would reach the instruction the wrong way round; `Builds` leaves that out.
* `onProbeSuccess` does not clear `mdLastProbeTime`, so a probe that was answered still
  times out. `checkProbeTimeout` ("Call once per tick") then lowers the upper bound to
  the size that was just answered, and the search is over at its first midpoint; if
  `nextProbe` comes first instead, it sends the next probe and the upper bound stays.
  `Mtu.hs:4` describes a search that converges on the largest size that works; what
  holds in any order is `DiscoveredIsCarried`.
* `findMigrationCandidate` compares the number of the packet with the number the
  connection itself *sends* next, and takes the first in address order that is near.
  With the default `ncMaxSequenceDistance` every connection is near: the first one
  moves, whether or not the packet was its client's.
* The datagram of a full fragment is four bytes longer than `ncMtu`: the overhead that
  `peerSend` subtracts (`Peer.hs:217`) has no room for the CRC. `ReadIsWritten` claims the
  limit without it. `validateConfig` also admits a fragment threshold up to `ncMtu`
  (`Config.hs:425`), under which a message goes out whole, with all headers.
* The reader of a batch passes a length before it finds that the message is cut
  short; called again, it takes what comes next for a length. `BatchIsRead` holds up to
  the first error.
* `nn_bandwidth_bps` divides by the time since the oldest transfer in the window and not
  by the window: right after a single packet the rate is that packet per millisecond.
* Baseline 65535 is also `noBaseline` (`Delta.hs:57`), and nothing keeps the caller of `deltaEncode` from using that number. A delta
  against that snapshot reads as a full state, and what is stored of it spoils what is decoded
  against it. `Delta` has that case (`Marked`, `ReadAsFull`); `DecodedIsSent` claims what is decoded as long as it has not happened (`Mistaken`).
* The receiver may evict, by age or for room, the baseline that the sender holds
  confirmed. From then on it can decode nothing, so it acknowledges nothing, and
  the sender keeps the baseline until it is reset.
* The validator knows a client and not a token: while a client is remembered, a second
  token of the same client is refused.
* `deliverPackets` hands over packets that are due together in the reverse order of
  sending, also where no reordering is configured; the single-peer `advanceTime` drops
  what is due and addressed to another peer.

## 7. Plan

Done: the sequence arithmetic, the packet layer, the channel with its abstract
specification and the fragments that travel through it, the connection's frame, the
handshake, fragmentation, the wire format, batches and slices, the two congestion
controllers, what is measured of the path, migration, the rate limiter, connect tokens,
replication but for the geometry of interest, checksums and cryptography, and the test
networks; and proofs about all of these but the ciphers.
In this order, what is left:

1. The rest of `Peer`: broadcast and draining.
2. Proofs: the tightest `MaxWait` of `NothingStarves`, and what an ordered channel still promises when
   its numbers come round after a time-out.
3. `validateConfig` as the set of configurations, and that it implies the ASSUMEs the
   proofs rest on, with the exceptions of section 6.
4. `Interest` with `Priority`: which factors observers and entities that move can meet, and who then
   is weighted down in every tick. A full ordered buffer, as the defaults allow it, in a run of its own.
