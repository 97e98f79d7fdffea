------------------------------ MODULE Ciphers -------------------------------
(***************************************************************************)
(* The key stream of ChaCha20 (cbits/nn_crypto.c), the hash SipHash-2-4    *)
(* (cbits/nn_siphash.c) and the checksum CRC32C (cbits/nn_crc32c.c), word  *)
(* by word and at their real widths, as a computation that takes one round *)
(* per step on a host of either byte order.  Bytes and words are sets of   *)
(* positions, as in Words.                                                 *)
(***************************************************************************)
EXTENDS Words

CONSTANT Tasks      \* what is computed, each with its known answer:
                    \*   [kind |-> "stream", key, nonce, first, data, expected]  chacha20_crypt
                    \*   [kind |-> "hash", key, msg, expected]                   nn_siphash_2_4
                    \*   [kind |-> "sum", hardware, msg, expected]               nn_crc32c

VARIABLES
    job,        \* which of the tasks
    cipherHost, \* the byte order of the host that computes it
    words,      \* the words a round works on
    turn,       \* the rounds done: of this block, or of the hash
    output      \* chacha20_crypt: the bytes so far; a hash or a checksum: <<>>, then <<it>>

cipherVars == <<job, cipherHost, words, turn, output>>
Task       == Tasks[job]

LoadWord(buf, at, k) == FromBytes(ReadLE(cipherHost, SubSeq(buf, at + 1, at + k)), 8)

-----------------------------------------------------------------------------
\* QR: four of the sixteen words
QR(w) ==
    LET a1 == Plus(32, w[1], w[2])    d1 == Rotl(32, Xor(w[4], a1), 16)
        c1 == Plus(32, w[3], d1)      b1 == Rotl(32, Xor(w[2], c1), 12)
        a2 == Plus(32, a1, b1)        d2 == Rotl(32, Xor(d1, a2), 8)
        c2 == Plus(32, c1, d2)        b2 == Rotl(32, Xor(b1, c2), 7)
    IN  <<a2, b2, c2, d2>>

\* The rounds of chacha20_block: the columns, then the diagonals, ten times over
Quarters == <<<<0, 4, 8, 12>>, <<1, 5, 9, 13>>, <<2, 6, 10, 14>>, <<3, 7, 11, 15>>,
              <<0, 5, 10, 15>>, <<1, 6, 11, 12>>, <<2, 7, 8, 13>>, <<3, 4, 9, 14>>>>
QuartersOfABlock == 80

\* chacha20_setup: the constants, the key, the counter and the nonce
Sigma == <<Hex(\h6170, \h7865), Hex(\h3320, \h646E), Hex(\h7962, \h2D32), Hex(\h6B20, \h6574)>>
Setup(counter) ==
    [i \in 0 .. 15 |->
        IF i < 4 THEN Sigma[i + 1]
        ELSE IF i < 12 THEN LoadWord(Task.key, 4 * (i - 4), 4)
        ELSE IF i = 12 THEN BitsOf(counter)
        ELSE LoadWord(Task.nonce, 4 * (i - 13), 4)]

\* The counter of chacha20_crypt at the block under way
Counter == Task.first + Len(output) \div 64

QuarterRound ==
    /\ Task.kind = "stream"
    /\ Len(output) < Len(Task.data) /\ turn < QuartersOfABlock
    /\ LET places == Quarters[(turn % 8) + 1]
           mixed  == QR([i \in 1 .. 4 |-> words[places[i]]])
       IN  words' = [p \in 0 .. 15 |->
               IF \E i \in 1 .. 4 : places[i] = p
               THEN mixed[CHOOSE i \in 1 .. 4 : places[i] = p] ELSE words[p]]
    /\ turn' = turn + 1
    /\ UNCHANGED <<job, cipherHost, output>>

\* The end of chacha20_block and a turn of chacha20_crypt: the words plus those the
\* block began with are written out, and the data XORed with them.
XorBlock ==
    /\ Task.kind = "stream"
    /\ turn = QuartersOfABlock
    /\ LET start == Setup(Counter)
           block == FlattenSeq([i \in 1 .. 16 |->
                        WriteLE(cipherHost, BytesOf(Plus(32, words[i - 1], start[i - 1]), 4, 8))])
           at    == Len(output)
           chunk == Min({64, Len(Task.data) - at})
       IN  output' = output \o [i \in 1 .. chunk |-> Xor(Task.data[at + i], block[i])]
    /\ words' = Setup(Counter + 1)
    /\ turn' = 0
    /\ UNCHANGED <<job, cipherHost>>

-----------------------------------------------------------------------------
\* NN_SIPROUND
SipRound(v) ==
    LET a == Plus(64, v[0], v[1])             b == Xor(Rotl(64, v[1], 13), a)
        c == Plus(64, v[2], v[3])             d == Xor(Rotl(64, v[3], 16), c)
        e == Plus(64, Rotl(64, a, 32), d)     f == Plus(64, c, b)
    IN  [i \in 0 .. 3 |-> <<e, Xor(Rotl(64, b, 17), f), Rotl(64, f, 32), Xor(Rotl(64, d, 21), e)>>[i + 1]]

Long(h1, l1, h2, l2) == Shl(64, Hex(h1, l1), 32) \cup Hex(h2, l2)
SipStart ==
    LET k0 == LoadWord(Task.key, 0, 8)
        k1 == LoadWord(Task.key, 8, 8)
        v  == <<Xor(k0, Long(\h736f, \h6d65, \h7073, \h6575)), Xor(k1, Long(\h646f, \h7261, \h6e64, \h6f6d)),
                Xor(k0, Long(\h6c79, \h6765, \h6e65, \h7261)), Xor(k1, Long(\h7465, \h6462, \h7974, \h6573))>>
    IN  [i \in 0 .. 3 |-> v[i + 1]]

\* The blocks of the message; the last has what is left of it, and its length on top.
SipBlocks == Len(Task.msg) \div 8 + 1
SipBlock(n) ==
    IF n < SipBlocks THEN LoadWord(Task.msg, 8 * (n - 1), 8)
    ELSE FromBytes(SubSeq(Task.msg, 8 * (n - 1) + 1, Len(Task.msg)), 8)
             \cup Shl(64, BitsOf(Len(Task.msg) % 256), 56)

\* A block of nn_siphash_2_4: into v3, two rounds, into v0.
SipAbsorb ==
    /\ Task.kind = "hash"
    /\ turn < SipBlocks
    /\ LET m == SipBlock(turn + 1)
           v == SipRound(SipRound([words EXCEPT ![3] = Xor(@, m)]))
       IN  words' = [v EXCEPT ![0] = Xor(@, m)]
    /\ turn' = turn + 1
    /\ UNCHANGED <<job, cipherHost, output>>

\* Its end: four rounds more.
SipFinish ==
    /\ Task.kind = "hash"
    /\ turn = SipBlocks /\ output = <<>>
    /\ LET v == SipRound(SipRound(SipRound(SipRound([words EXCEPT ![2] = Xor(@, BitsOf(255))]))))
       IN  /\ words' = v
           /\ output' = <<Xor(Xor(v[0], v[1]), Xor(v[2], v[3]))>>
    /\ UNCHANGED <<job, cipherHost, turn>>

-----------------------------------------------------------------------------
Castagnoli == INSTANCE Crc32c WITH
           CrcByte <- 8, CrcSize <- 4, CrcPoly <- Hex(\h82F6, \h3B78), CrcWord <- 8

CrcCompute ==
    /\ Task.kind = "sum"
    /\ output = <<>>
    /\ output' = <<Castagnoli!Crc([hardware |-> Task.hardware, order |-> cipherHost], Task.msg)>>
    /\ UNCHANGED <<job, cipherHost, words, turn>>

-----------------------------------------------------------------------------
CipherInit ==
    /\ cipherHost \in ByteOrders
    /\ job \in DOMAIN Tasks
    /\ Task.kind = "sum" /\ Task.hardware => cipherHost = "little"
    /\ words = IF Task.kind = "stream" THEN Setup(Task.first) ELSE IF Task.kind = "hash" THEN SipStart ELSE <<>>
    /\ turn = 0
    /\ output = <<>>

CipherNext == QuarterRound \/ XorBlock \/ SipAbsorb \/ SipFinish \/ CrcCompute

-----------------------------------------------------------------------------
\* Whatever the byte order of the host, and with the instructions of the processor or
\* without, the bytes enciphered so far and the finished digests are those of the
\* standards (the known answers of the repository's tests): the two ends of a connection
\* need not run on the same kind of machine.
DigestsAreStandard == output = SubSeq(Task.expected, 1, Len(output))
=============================================================================
