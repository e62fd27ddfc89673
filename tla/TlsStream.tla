----------------------------- MODULE TlsStream -----------------------------
(***************************************************************************)
(* What a TLS session writes (daemon/tls.c, daemon/session.c): GnuTLS      *)
(* pushes records into kres_gnutls_vec_push(), which tries an immediate    *)
(* write and queues a copy of what is left; write callbacks come later;    *)
(* the session is closed in three steps, the timer's and the handle's      *)
(* callbacks.  The bytes GnuTLS pushes are numbered from one.  libuv and   *)
(* GnuTLS are external: queued writes go out in order, a closed handle     *)
(* first cancels them, a session whose push failed pushes nothing more.    *)
(***************************************************************************)
EXTENDS Integers, Sequences, SequencesExt

CONSTANTS
  Records,          \* the records GnuTLS pushes: sequences of lengths of their parts
  MaxBytes          \* bound on the bytes pushed

VARIABLES
  pushed,           \* bytes GnuTLS has pushed
  wire,             \* bytes the socket took
  uvq,              \* write requests of libuv whose bytes are not all taken: their bytes
  written,          \* write requests that are through and whose callback is to come
  write_queue_size,
  handshake_state,
  session,          \* "open", "closing" (timer), "handle" (uv_close of the socket), "freed"
  broken,           \* a push failed: GnuTLS gives the session up
  reset             \* the socket takes nothing more
vars == <<pushed, wire, uvq, written, write_queue_size, handshake_state, session, broken, reset>>

Init ==
  /\ pushed = 0 /\ wire = <<>> /\ uvq = <<>> /\ written = 0 /\ write_queue_size = 0
  /\ handshake_state = "TLS_HS_IN_PROGRESS" /\ session = "open"
  /\ broken = FALSE /\ reset = FALSE

\* The parts of a record, which starts after the bytes that were pushed before.
Parts(lens, from) ==
  LET Before(k) == FoldLeft(LAMBDA a, b : a + b, from, SubSeq(lens, 1, k - 1))
  IN [k \in DOMAIN lens |-> [i \in 1..lens[k] |-> Before(k) + i]]

\* Mutant: a buffer that is skipped in part is skipped as a whole.
CopySkippingParts(uv_buf, ret) ==
  FoldLeft(LAMBDA st, b : IF st.to_skip > 0
                          THEN [st EXCEPT !.to_skip = IF @ >= Len(b) THEN @ - Len(b) ELSE 0]
                          ELSE [st EXCEPT !.buf = @ \o b],
           [to_skip |-> ret, buf |-> <<>>], uv_buf).buf

\* The loop that copies the buffers into owned memory without the bytes already written.
CopySkipping(uv_buf, ret) ==
  FoldLeft(LAMBDA st, b : IF st.to_skip > 0 /\ st.to_skip >= Len(b)
                          THEN [st EXCEPT !.to_skip = @ - Len(b)]
                          ELSE [to_skip |-> 0, buf |-> st.buf \o SubSeq(b, st.to_skip + 1, Len(b))],
           [to_skip |-> ret, buf |-> <<>>], uv_buf).buf

stream_queue_is_empty == write_queue_size = 0

\* The results of uv_try_write(): libuv lets nobody overtake a queued write.
TryWrite(total) ==
  IF reset THEN {-1} ELSE {0} \cup (IF uvq = <<>> THEN 1..total ELSE {})

\* The asynchronous write of what is left, or no memory or no request for it.
WriteAsync(rest) ==
  \/ /\ uvq' = Append(uvq, rest) /\ write_queue_size' = write_queue_size + 1
     /\ UNCHANGED broken
  \/ broken' = TRUE /\ UNCHANGED <<uvq, write_queue_size>>

VecPush(lens) ==
  LET uv_buf == Parts(lens, pushed)
      all == FlattenSeq(uv_buf)
  IN /\ pushed' = pushed + Len(all)
     /\ \E ret \in IF stream_queue_is_empty THEN TryWrite(Len(all)) ELSE {0} :
          /\ wire' = IF ret > 0 THEN wire \o SubSeq(all, 1, ret) ELSE wire
          /\ IF ret = Len(all) THEN UNCHANGED <<uvq, write_queue_size, broken>>
             ELSE IF ret < 0 THEN broken' = TRUE /\ UNCHANGED <<uvq, write_queue_size>>
             ELSE WriteAsync(CopySkipping(uv_buf, ret))

\* tls_handshake() or tls_write(): a session whose push failed is closed by the caller.
Write ==
  /\ session = "open" /\ ~broken /\ pushed < MaxBytes
  /\ \E lens \in Records : VecPush(lens)
  /\ handshake_state' \in {handshake_state, "TLS_HS_DONE"}
  /\ UNCHANGED <<written, session, reset>>

\* session_close(), with the alert of gnutls_bye() when the handshake was done.
SessionClose ==
  /\ session = "open"
  /\ session' = "closing"
  /\ IF handshake_state = "TLS_HS_DONE"
     THEN /\ handshake_state' = "TLS_HS_CLOSING"
          /\ IF broken THEN UNCHANGED <<pushed, wire, uvq, write_queue_size, broken>>
             ELSE VecPush(<<1>>)
     ELSE UNCHANGED <<handshake_state, pushed, wire, uvq, write_queue_size, broken>>
  /\ UNCHANGED <<written, reset>>

\* on_session_timer_close(): the handle is closed after the timer.
OnSessionTimerClose ==
  /\ session = "closing"
  /\ session' = "handle"
  /\ UNCHANGED <<pushed, wire, uvq, written, write_queue_size, handshake_state, broken, reset>>

\* on_session_close(), io_free() and session_clear() with tls_free().
OnSessionClose ==
  /\ session = "handle" /\ uvq = <<>> /\ written = 0
  /\ session' = "freed"
  /\ UNCHANGED <<pushed, wire, uvq, written, write_queue_size, handshake_state, broken, reset>>

on_write_complete ==
  /\ written > 0
  /\ written' = written - 1
  /\ write_queue_size' = write_queue_size - 1
  /\ UNCHANGED <<pushed, wire, uvq, handshake_state, session, broken, reset>>

-----------------------------------------------------------------------------
(* libuv and the peer                                                      *)

\* The socket takes some bytes of the first request.
SocketTakes ==
  /\ uvq # <<>> /\ ~reset /\ session # "handle"
  /\ \E n \in 1..Len(Head(uvq)) :
       /\ wire' = wire \o SubSeq(Head(uvq), 1, n)
       /\ uvq' = IF n = Len(Head(uvq)) THEN Tail(uvq)
                 ELSE <<SubSeq(Head(uvq), n + 1, Len(Head(uvq)))>> \o Tail(uvq)
       /\ written' = IF n = Len(Head(uvq)) THEN written + 1 ELSE written
  /\ UNCHANGED <<pushed, write_queue_size, handshake_state, session, broken, reset>>

\* A request fails with the connection, or is cancelled on a handle being closed.
RequestFails ==
  /\ uvq # <<>> /\ (reset \/ session = "handle")
  /\ uvq' = Tail(uvq) /\ written' = written + 1
  /\ UNCHANGED <<pushed, wire, write_queue_size, handshake_state, session, broken, reset>>

PeerResets ==
  /\ session # "freed" /\ ~reset /\ reset' = TRUE
  /\ UNCHANGED <<pushed, wire, uvq, written, write_queue_size, handshake_state, session, broken>>

Next ==
  \/ Write \/ SessionClose \/ OnSessionTimerClose \/ OnSessionClose \/ on_write_complete
  \/ SocketTakes \/ RequestFails \/ PeerResets

Spec == Init /\ [][Next]_vars

-----------------------------------------------------------------------------
(* The bytes the peer gets are those GnuTLS pushed, in that order, whatever  *)
(* was written at once, in part or from the queue; and as long as nothing    *)
(* failed, those that are not yet out are in the queue.                      *)
StreamIntact ==
  LET out == wire \o FlattenSeq(uvq)
      Numbered(s) == \A i \in DOMAIN s : s[i] = i
  IN /\ Numbered(wire) /\ Len(wire) <= pushed
     /\ ~reset /\ session \in {"open", "closing"} => Numbered(out) /\ (Len(out) = pushed \/ broken)

(* A write callback finds the context of its session, which is only freed     *)
(* after the last of them, and write_queue_size counts those to come: the     *)
(* assertion of on_write_complete() holds, and no immediate write is kept     *)
(* from an idle session.                                                      *)
CallbacksFindContext ==
  /\ session = "freed" => uvq = <<>> /\ written = 0
  /\ write_queue_size = Len(uvq) + written
=============================================================================
