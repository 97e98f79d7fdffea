------------------------------- MODULE Batch --------------------------------
(***************************************************************************)
(* Batches of messages in one buffer (cbits/nn_batch.c): a count, and each *)
(* message behind its length.  The reader may be given a buffer cut short, *)
(* and its user may go on after an error.                                  *)
(*                                                                         *)
(* A byte has ByteValues values: 256 in the code.                          *)
(***************************************************************************)
EXTENDS Integers, Sequences, SequencesExt

CONSTANTS
    ByteValues,         \* values of a byte
    Capacity,           \* capacity of the writer's buffer
    BatchMessages       \* messages, each a sequence of bytes

ASSUME BatchAssumption ==
    /\ ByteValues \in Nat \ {0, 1} /\ Capacity \in Nat \ {0}
    /\ \A msg \in BatchMessages : msg \in Seq(0 .. ByteValues - 1)

VARIABLES
    batch,              \* the buffer as far as it is written; its first byte is the count's
    batched,            \* the messages in it: count is their number
    finished,           \* whether nn_batch_writer_finish was called
    reader,             \* nn_batch_reader: buf_len, offset, read; NoReader before
    unbatched,          \* the messages read
    readFailed          \* history: whether the reader has reported an error

batchVars == <<batch, batched, finished, reader, unbatched, readFailed>>

NoReader == [bufLen |-> 0, offset |-> 0, read |-> 0]

\* nn_batch_writer_init
BatchInit ==
    /\ batch = <<0>> /\ batched = <<>> /\ finished = FALSE
    /\ reader = NoReader /\ unbatched = <<>> /\ readFailed = FALSE

\* nn_write_u16le, nn_read_u16le
WriteU16(n)         == <<n % ByteValues, n \div ByteValues>>
ReadU16(buf, offset) == buf[offset + 1] + ByteValues * buf[offset + 2]

\* nn_batch_writer_add; what does not fit leaves the writer as it is.
WriterAdd(msg) ==
    /\ ~finished
    /\ Len(batched) < ByteValues - 1 /\ Len(msg) < ByteValues * ByteValues
    /\ Len(batch) + 2 + Len(msg) <= Capacity
    /\ batch' = batch \o WriteU16(Len(msg)) \o msg
    /\ batched' = Append(batched, msg)
    /\ UNCHANGED <<finished, reader, unbatched, readFailed>>

\* nn_batch_writer_finish; a batch without messages is not sent.
WriterFinish ==
    /\ ~finished /\ batched # <<>>
    /\ finished' = TRUE /\ batch' = [batch EXCEPT ![1] = Len(batched)]
    /\ UNCHANGED <<batched, reader, unbatched, readFailed>>

\* nn_batch_reader_init, with the first n bytes of the buffer
ReaderInit(n) ==
    /\ finished /\ reader = NoReader
    /\ reader' = [bufLen |-> n, offset |-> 1, read |-> 0]
    /\ UNCHANGED <<batch, batched, finished, unbatched, readFailed>>

\* nn_batch_reader_next.  A length that leads beyond the buffer has been passed when
\* the error is reported.
LengthIsThere  == reader.offset + 2 <= reader.bufLen
MessageIsThere ==
    reader.offset + 2 + ReadU16(batch, reader.offset) <= reader.bufLen
ReaderNext ==
    /\ reader # NoReader /\ reader.read < batch[1]
    /\ \/ /\ ~LengthIsThere
          /\ readFailed' = TRUE /\ UNCHANGED <<reader, unbatched>>
       \/ /\ LengthIsThere /\ ~MessageIsThere
          /\ readFailed' = TRUE /\ reader' = [reader EXCEPT !.offset = @ + 2]
          /\ UNCHANGED unbatched
       \/ /\ LengthIsThere /\ MessageIsThere
          /\ LET start == reader.offset + 2
                 len   == ReadU16(batch, reader.offset)
             IN  /\ unbatched' = Append(unbatched, SubSeq(batch, start + 1, start + len))
                 /\ reader' = [reader EXCEPT !.offset = start + len, !.read = @ + 1]
          /\ UNCHANGED readFailed
    /\ UNCHANGED <<batch, batched, finished>>

BatchNext ==
    \/ \E msg \in BatchMessages : WriterAdd(msg)
    \/ WriterFinish
    \/ \E n \in 1 .. Len(batch) : ReaderInit(n)
    \/ ReaderNext
BatchSpec == BatchInit /\ [][BatchNext]_batchVars
-----------------------------------------------------------------------------
\* Up to the first error the reader returns what was put in, in order; from a whole
\* buffer it does so without error.
BatchIsRead ==
    /\ Len(batch) <= Capacity
    /\ ~readFailed => IsPrefix(unbatched, batched)
    /\ reader.bufLen = Len(batch) => ~readFailed
=============================================================================
