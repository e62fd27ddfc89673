------------------------------ MODULE WireBuf -------------------------------
(***************************************************************************)
(* The wire buffer of a TCP session, daemon/session.c: DNS messages, each  *)
(* after a two-byte length, are cut out of the stream of bytes that reads  *)
(* leave in a buffer of fixed size.                                        *)
(*                                                                         *)
(* A byte is represented by its position in the stream, so that a message  *)
(* handed to worker_submit() can be compared with the one that was sent.   *)
(***************************************************************************)
EXTENDS Integers, Sequences, Functions

CONSTANTS
  Streams,                    \* what may be sent: the sizes of the messages
  wire_buf_size,
  KNOT_WIRE_HEADER_SIZE,
  KNOT_WIRE_QUESTION_MIN_SIZE

VARIABLES
  sizes,                \* the stream of this session
  wire_buf,             \* the buffer: positions in the stream
  wire_buf_start_idx, wire_buf_end_idx,
  wirebuf_error,        \* sflags.wirebuf_error
  received,             \* bytes read from the stream so far
  delivered,            \* what worker_submit() got: message numbers
  ret,                  \* of session_wirebuf_process(): messages parsed
  max_iterations,       \* of session_wirebuf_process(); 0 when not running
  open                  \* the session is not closed

buffer == <<wire_buf, wire_buf_start_idx, wire_buf_end_idx>>
vars   == <<sizes, buffer, wirebuf_error, received, delivered, ret,
            max_iterations, open>>

Message == 1 .. Len(sizes)

\* Where a message, its length included, starts in the stream.
Offset(i) == FoldFunctionOnSet(LAMBDA n, sum : sum + 2 + n, 0, sizes, 1 .. i - 1)

Total == Offset(Len(sizes) + 1)

\* Corrupt is "delivered" when the bytes are not those of one message.
Corrupt == 0

Idx == 0 .. wire_buf_size - 1

\* The message whose length is at idx of the buffer.
MessageAt(idx) ==
  IF \E i \in Message : wire_buf[idx] = Offset(i) /\ wire_buf[idx + 1] = Offset(i) + 1
    THEN CHOOSE i \in Message : wire_buf[idx] = Offset(i)
    ELSE Corrupt

\* What is delivered when the buffer is taken to hold message i at idx.
Taken(i, idx) ==
  IF \A k \in 0 .. sizes[i] + 1 : wire_buf[idx + k] = Offset(i) + k
    THEN i ELSE Corrupt

-----------------------------------------------------------------------------

\* session_produce_packet() on a non-empty buffer: what it finds.
DataSize == wire_buf_end_idx - wire_buf_start_idx

\* The length read from the buffer; 0, for an ended session, if it is not one.
MsgSize ==
  LET i == MessageAt(wire_buf_start_idx) IN IF i = Corrupt THEN 0 ELSE sizes[i]

TooBig == MsgSize >= wire_buf_size

\* Mutant: the two bytes of the length are not counted.
IncompleteShort ==
  \/ DataSize < 2
  \/ DataSize >= 2 /\ ~TooBig /\ MsgSize > DataSize

\* The start of a message that needs more bytes.
Incomplete ==
  \/ DataSize < 2
  \/ DataSize >= 2 /\ ~TooBig /\ MsgSize + 2 > DataSize

\* A length that cannot be: too big for the buffer, or zero.
BadLength == DataSize >= 2 /\ (TooBig \/ MsgSize = 0)

\* session_wirebuf_compress() of the bytes from start up to end.
Compress(start, end) ==
  /\ wire_buf' = [k \in Idx |-> IF start > 0 /\ k < end - start
                                  THEN wire_buf[start + k] ELSE wire_buf[k]]
  /\ wire_buf_start_idx' = 0
  /\ wire_buf_end_idx' = end - start

\* Mutant: the start of the data is not moved past the packet.
DiscardPacketKeeps(start) ==
  \/ /\ wire_buf_end_idx - start < KNOT_WIRE_HEADER_SIZE
     /\ Compress(start, wire_buf_end_idx)
  \/ /\ wire_buf_end_idx - start >= KNOT_WIRE_HEADER_SIZE
     /\ UNCHANGED buffer

\* session_discard_packet(): start is past the packet.
DiscardPacket(start) ==
  \/ /\ wire_buf_end_idx - start < KNOT_WIRE_HEADER_SIZE
     /\ Compress(start, wire_buf_end_idx)
  \/ /\ wire_buf_end_idx - start >= KNOT_WIRE_HEADER_SIZE
     /\ wire_buf_start_idx' = start
     /\ UNCHANGED <<wire_buf, wire_buf_end_idx>>

-----------------------------------------------------------------------------

\* tcp_recv(): session_wirebuf_consume() of n bytes read into the free space
\* that handle_getbuf() offers, and the start of session_wirebuf_process().
TcpRecv(n) ==
  /\ open /\ max_iterations = 0
  /\ wire_buf' = [k \in Idx |->
       IF k \in wire_buf_end_idx .. wire_buf_end_idx + n - 1
         THEN received + k - wire_buf_end_idx ELSE wire_buf[k]]
  /\ wire_buf_end_idx' = wire_buf_end_idx + n
  /\ received' = received + n
  /\ ret' = 0
  /\ max_iterations' =
       (DataSize + n) \div (KNOT_WIRE_HEADER_SIZE + KNOT_WIRE_QUESTION_MIN_SIZE) + 1
  /\ UNCHANGED <<sizes, wire_buf_start_idx, wirebuf_error, delivered, open>>

\* A read into no space is an error, and tcp_recv() ends the session.
TcpRecvNoSpace ==
  /\ open /\ max_iterations = 0
  /\ wire_buf_end_idx = wire_buf_size /\ received < Total
  /\ open' = FALSE
  /\ UNCHANGED <<sizes, buffer, wirebuf_error, received, delivered, ret, max_iterations>>

\* One turn of session_wirebuf_process().  The packet parses or it does not;
\* one that is shorter than a header does not.
Process ==
  LET i == MessageAt(wire_buf_start_idx) IN
  /\ max_iterations > 0 /\ ret < max_iterations
  /\ DataSize > 0 /\ ~Incomplete /\ ~BadLength
  /\ delivered' = Append(delivered, Taken(i, wire_buf_start_idx))
  /\ \/ /\ sizes[i] >= KNOT_WIRE_HEADER_SIZE
        /\ ret' = ret + 1
     \/ UNCHANGED ret
  /\ DiscardPacket(wire_buf_start_idx + sizes[i] + 2)
  /\ wirebuf_error' = FALSE
  /\ UNCHANGED <<sizes, received, max_iterations, open>>

\* The loop ends and tcp_recv() moves what is left to the front.
ProcessReturns ==
  /\ max_iterations > 0
  /\ \/ DataSize = 0
     \/ DataSize > 0 /\ (Incomplete \/ (~BadLength /\ ret = max_iterations))
  /\ max_iterations' = 0
  /\ wirebuf_error' = FALSE
  /\ Compress(wire_buf_start_idx, wire_buf_end_idx)
  /\ UNCHANGED <<sizes, received, delivered, ret, open>>

\* The loop ends with an error, and tcp_recv() ends the session.
ProcessFails ==
  /\ max_iterations > 0
  /\ DataSize > 0 /\ ~Incomplete /\ BadLength
  /\ max_iterations' = 0
  /\ wirebuf_error' = TRUE
  /\ open' = FALSE
  /\ Compress(wire_buf_start_idx, wire_buf_end_idx)
  /\ UNCHANGED <<sizes, received, delivered, ret>>

\* The peer closes its side, whatever it still meant to send.
PeerCloses ==
  /\ open /\ max_iterations = 0 /\ received = Total
  /\ open' = FALSE
  /\ UNCHANGED <<sizes, buffer, wirebuf_error, received, delivered, ret, max_iterations>>

Init ==
  /\ sizes \in Streams
  /\ wire_buf = [k \in Idx |-> -1]
  /\ wire_buf_start_idx = 0
  /\ wire_buf_end_idx = 0
  /\ wirebuf_error = FALSE
  /\ received = 0
  /\ delivered = <<>>
  /\ ret = 0
  /\ max_iterations = 0
  /\ open = TRUE

Next ==
  \/ \E n \in 1 .. wire_buf_size :
       n <= wire_buf_size - wire_buf_end_idx /\ n <= Total - received /\ TcpRecv(n)
  \/ TcpRecvNoSpace
  \/ Process
  \/ ProcessReturns
  \/ ProcessFails
  \/ PeerCloses
  \/ ~open /\ UNCHANGED vars

Spec == Init /\ [][Next]_vars

-----------------------------------------------------------------------------
(* Properties.                                                             *)

\* A message that is only a header: it parses, and is shorter than the least one
\* that max_iterations is computed for.
NoQuestion(i) ==
  sizes[i] \in KNOT_WIRE_HEADER_SIZE .. KNOT_WIRE_HEADER_SIZE + KNOT_WIRE_QUESTION_MIN_SIZE - 1

\* The messages handed to worker_submit() are those sent, each whole, in
\* order, none twice: neither the split of the stream into reads nor
\* compressing the buffer between messages loses or repeats a byte.
\* After tcp_recv() a complete message waits in the buffer, where only the next
\* read, which may never come, would find it, in one case alone: messages
\* without a question were read with it, and the loop of
\* session_wirebuf_process() had fewer turns than there were messages.  A
\* session is ended only when all messages are delivered, when one waits so, or
\* when the next one is empty or larger than the buffer.
StreamDelivered ==
  /\ \A k \in DOMAIN delivered : delivered[k] = k
  /\ LET i == Len(delivered) + 1
         waits == received >= Offset(i + 1) /\ \E k \in DOMAIN delivered : NoQuestion(k)
     IN i \in Message =>
          /\ open /\ max_iterations = 0 => received < Offset(i + 1) \/ waits
          /\ ~open => waits \/ sizes[i] = 0 \/ sizes[i] + 2 > wire_buf_size
=============================================================================
