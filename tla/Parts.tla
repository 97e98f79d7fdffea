------------------------------- MODULE Parts --------------------------------
(***************************************************************************)
(* The parts of the library that share no state: the fragment assembler,   *)
(* the two congestion controllers, of which a connection has the one its   *)
(* configuration names (Congestion.hs, newCongestionController), the wire  *)
(* format, batches and slices, what an endpoint measures, migration, the   *)
(* rate limiter and the token validator, path MTU discovery, replication,  *)
(* the checksum and the sealing of packets, and the two networks the tests *)
(* run on.  A behaviour follows one of them, chosen at the start; the      *)
(* others rest.                                                            *)
(***************************************************************************)
EXTENDS Fragment, Wire, Batch, Aimd, Cwnd, Estimators, Bandwidth, Migration, Mtu,
        RateLimiter, TokenValidator, Delta, Priority, Interpolation, TestNet, Simulator,
        Slices, Checksum, Ciphers, Poly1305, Aead

VARIABLE part       \* the part this behaviour follows

messageVars     == <<fragmentVars, wireVars, batchVars, sliceVars>>
controlVars     == <<aimdVars, cwndVars>>
pathVars        == <<rttVars, lossVars, bandwidthVars, migrationVars, mtuVars>>
securityVars    == <<limiterVars, tokenVars>>
replicationVars == <<deltaVars, priorityVars, interpolationVars>>
networkVars     == <<worldVars, simVars>>
cryptoVars      == <<checksumVars, cipherVars, macVars, aeadVars>>
partsVars       == <<part, messageVars, controlVars, pathVars, securityVars,
                     replicationVars, networkVars, cryptoVars>>

PartNames == {"assembler", "wire", "batch", "rate", "window", "round trip", "losses",
              "bandwidth", "migration", "mtu", "limiter", "tokens", "delta", "priority",
              "interpolation", "test net", "simulator", "slices", "checksum", "ciphers", "mac",
              "sealing"}

AnyOf(S) == CHOOSE x \in S : TRUE

Init ==
    /\ part \in PartNames
    /\ FragmentInit /\ WireInit /\ BatchInit /\ AimdInit /\ CwndInit
    /\ RttInit /\ LossInit /\ BandwidthInit /\ MigrationInit /\ MtuInit
    /\ LimiterInit /\ TokenInit /\ DeltaInit /\ PriorityInit /\ InterpolationInit
    /\ WorldInit /\ SimInit
    \* one of the paths, depths, delays and inputs, where they do not matter
    /\ part # "mtu" => pathMtu = LowBound
    /\ part # "interpolation" => depth = Min(Depths) /\ delay = Min(Delays)
    /\ SlicesInit   /\ (part # "slices" => whole = AnyOf([msg : SliceMessages, max : SliceSizes]))
    /\ ChecksumInit /\ (part # "checksum" => payload = AnyOf(CrcPayloads))
    /\ CipherInit   /\ (part # "ciphers" => job = Len(Tasks) /\ cipherHost = "little")
    /\ MacInit      /\ (part # "mac" => macKey = AnyOf(MacKeys))
    /\ AeadInit     /\ (part # "sealing" => protocol = AnyOf(Protocols))

\* A step is one of the part that was chosen.
Rests(name, v) == IF part = name THEN TRUE ELSE UNCHANGED v
OthersRest ==
    /\ UNCHANGED part
    /\ Rests("assembler", fragmentVars) /\ Rests("wire", wireVars) /\ Rests("batch", batchVars)
    /\ Rests("rate", aimdVars) /\ Rests("window", cwndVars)
    /\ Rests("round trip", rttVars) /\ Rests("losses", lossVars)
    /\ Rests("bandwidth", bandwidthVars) /\ Rests("migration", migrationVars) /\ Rests("mtu", mtuVars)
    /\ Rests("limiter", limiterVars) /\ Rests("tokens", tokenVars)
    /\ Rests("delta", deltaVars) /\ Rests("priority", priorityVars)
    /\ Rests("interpolation", interpolationVars)
    /\ Rests("test net", worldVars) /\ Rests("simulator", simVars)
    /\ Rests("slices", sliceVars) /\ Rests("checksum", checksumVars)
    /\ Rests("ciphers", cipherVars) /\ Rests("mac", macVars) /\ Rests("sealing", aeadVars)

Next ==
    \/ part = "assembler"     /\ FragmentNext      /\ OthersRest
    \/ part = "wire"          /\ WireNext          /\ OthersRest
    \/ part = "batch"         /\ BatchNext         /\ OthersRest
    \/ part = "rate"          /\ AimdNext          /\ OthersRest
    \/ part = "window"        /\ CwndNext          /\ OthersRest
    \/ part = "round trip"    /\ RttNext           /\ OthersRest
    \/ part = "losses"        /\ LossNext          /\ OthersRest
    \/ part = "bandwidth"     /\ BandwidthNext     /\ OthersRest
    \/ part = "migration"     /\ MigrationNext     /\ OthersRest
    \/ part = "mtu"           /\ MtuNext           /\ OthersRest
    \/ part = "limiter"       /\ LimiterNext       /\ OthersRest
    \/ part = "tokens"        /\ TokenNext         /\ OthersRest
    \/ part = "delta"         /\ DeltaNext         /\ OthersRest
    \/ part = "priority"      /\ PriorityNext      /\ OthersRest
    \/ part = "interpolation" /\ InterpolationNext /\ OthersRest
    \/ part = "test net"      /\ WorldNext         /\ OthersRest
    \/ part = "simulator"     /\ SimNext           /\ OthersRest
    \/ part = "slices"        /\ SlicesNext        /\ OthersRest
    \/ part = "checksum"      /\ ChecksumNext      /\ OthersRest
    \/ part = "ciphers"       /\ CipherNext        /\ OthersRest
    \/ part = "mac"           /\ MacNext           /\ OthersRest
    \/ part = "sealing"       /\ AeadNext          /\ OthersRest

\* The application keeps calling peerProcess, which runs the time-outs of the
\* assembler and the frames of the connections.
Fairness ==
    /\ WF_partsVars(part = "assembler" /\ AssemblerUpdate /\ OthersRest)
    /\ WF_partsVars(part = "rate" /\ (\E d \in 1 .. MaxFrame : Frame(d)) /\ OthersRest)

Spec == Init /\ [][Next]_partsVars /\ Fairness

\* Every part's state is one its code can hold; for the controllers this includes
\* the ends of the rate, the budget and the recovery time, the clamps on the window
\* and the threshold, and the room in the authenticator's limbs.
PartsTypeOK ==
    /\ FragmentTypeOK /\ AimdTypeOK /\ BudgetWithinRate /\ RecoveryStaysShort /\ CwndTypeOK
    /\ EstimatorsTypeOK /\ MigrationTypeOK /\ MtuTypeOK /\ LimiterTypeOK /\ TokenTypeOK
    /\ DeltaTypeOK /\ PriorityTypeOK /\ WorldTypeOK /\ SimTypeOK /\ LimbsFit

\* What the library says of its path is true of it: the smoothed round-trip time lies
\* among the samples, the losses are those of the latest outcomes, the rate is that
\* of the latest transfers, and the MTU was carried.
PathIsMeasured ==
    SmoothedWithinSamples /\ LossIsExact /\ RateIsExact /\ DiscoveredIsCarried

\* Neither test network loses, invents or misdirects a copy it has scheduled, or lets
\* one through that its latency or bandwidth forbids.
NetworksKeepAccounts == DeliveredAsSent /\ BandwidthHeld /\ CopiesConserved

\* What is understood of datagrams, of batches and of slices is what was put into them.
WrittenIsRead == ReadIsWritten /\ BatchIsRead /\ SlicesJoin

\* A replica shows what was replicated: the states that were encoded, and in between
\* what lies between them; and nobody is passed over forever but who is weighted down.
ReplicaIsTrue == DecodedIsSent /\ SampledIsPlayback /\ NothingStarves

\* The congestion window's phase is that of its thresholds, and what it counts as in
\* flight is no less than what is.
WindowIsTrue == PhaseAgrees /\ NeverUndercounts

\* The gates of the handshake remember what they must: the requests of the last second,
\* and the tokens that were used while they are valid.
GatesHold == LimitIsExact /\ RemembersRecent

-----------------------------------------------------------------------------
\* The messages and headers of Wire and the messages of Batch in the run: numbers
\* whose halves of bytes all differ from their neighbours somewhere.
RunMessages == {[channel |-> 0, num |-> 11, size |-> 1], [channel |-> 1, num |-> 4, size |-> 3]}
RunHeaders  == {[num |-> 15, ack |-> 9, bits |-> 165], [num |-> 6, ack |-> 12, bits |-> 207]}
RunBatch    == {<<>>, <<2>>, <<0, 1, 3>>, <<1, 0, 3, 2, 0>>}

\* Messages to slice, with up to one slice more than a message may have.
RunSlices == {<<>>, <<1>>, <<1, 2>>, <<1, 2, 3, 4>>, <<1, 2, 3, 4, 5, 6, 7>>}

\* Payloads to check, from none to two words and a byte, and x^4 + x + 1, reflected.
RunPayloads == {<<>>, <<{1}>>, <<{}, {0}>>, <<{0, 1}, {}, {1}>>, <<{}, {0}, {1}, {0, 1}, {0}>>}
RunPoly     == {2, 3}

\* The known answers of the repository's tests: the first 67 bytes, which reach into the
\* second block, of the golden packet of test_crypto.c:240; the digits of
\* test_crc32c.c:36; the vector of the SipHash paper, whose key and message
\* test/Main.hs:1446 has.
Octets(numbers) == [i \in DOMAIN numbers |-> BitsOf(numbers[i])]
Counting(from, to) == [i \in 1 .. to - from + 1 |-> BitsOf(from + i - 1)]
GoldenPacket == [
    kind     |-> "stream",
    key      |-> [i \in 1 .. 32 |-> BitsOf(\h42)],
    nonce    |-> Octets(<<7, 0, 0, 0, 0, 0, 0, 0, \h4E, \h4E, 0, 0>>),
    first    |-> 1,
    data     |-> Octets(<<76, 97, 100, 105, 101, 115, 32, 97, 110, 100, 32, 71, 101, 110, 116, 108,
                         101, 109, 101, 110, 32, 111, 102, 32, 116, 104, 101, 32, 99, 108, 97, 115,
                         115, 32, 111, 102, 32, 39, 57, 57, 58, 32, 73, 102, 32, 73, 32, 99, 111,
                         117, 108, 100, 32, 111, 102, 102, 101, 114, 32, 121, 111, 117, 32, 111,
                         110, 108, 121>>),
    expected |-> Octets(<<\h0c, \hc8, \h63, \hdf, \hf5, \h81, \h93, \h1f, \hbd, \ha4, \h1f, \ha3,
                         \ha1, \h42, \h31, \h2b, \h51, \h5d, \hd9, \hf5, \h72, \h9b, \h4f, \h7a,
                         \h38, \h6b, \haf, \h1b, \h89, \h8b, \h8f, \h87, \h86, \h08, \h3d, \h0e,
                         \h4d, \h49, \h12, \h87, \h22, \hcb, \h27, \h9a, \h17, \h6f, \h93, \h09,
                         \h54, \h96, \hb8, \h82, \hba, \h81, \h14, \h26, \h8f, \hfb, \hcd, \h68,
                         \h70, \hde, \hfa, \hf6, \h12, \h02, \h07>>)]
PaperVector == [kind |-> "hash", key |-> Counting(0, 15), msg |-> Counting(0, 14),
                expected |-> <<Long(\ha129, \hca61, \h49be, \h45e5)>>]
Digits(hw)  == [kind |-> "sum", hardware |-> hw, msg |-> Counting(49, 57),
                expected |-> <<Hex(\hE306, \h9283)>>]
RunTasks    == <<GoldenPacket, PaperVector, Digits(TRUE), Digits(FALSE)>>

\* Keys with limbs of nothing, of 1, and as large as they get; blocks at the ends and near
\* the thirds of the prime.
Key(r0, r1, r2, r3, r4, pad) == [r |-> Five(r0, r1, r2, r3, r4), pad |-> pad]
RunMacKeys == {Key(1, 0, 0, 0, 0, 0), Key(1, 0, 0, 0, 0, Block - 1), Key(31, 31, 31, 31, 31, 5),
               Key(0, 0, 0, 0, 31, 77777), Key(2, 30, 3, 29, 1, 4711)}
RunMacBlocks == {0, 1, 992, Block \div 3, Block \div 2, Block - 3, Block - 1}

\* Plaintexts: none, whole and partial blocks of both kinds, and zeros at the end.
RunPlaintexts == {<<>>, <<0>>, <<1, 0>>, <<1, 1, 2, 0, 1, 0, 2>>}
=============================================================================
