---------------------------- MODULE MCConnection ----------------------------
(* Client and what connections are made of, for TLC.  A behaviour is one of *)
(* one part: the variables of the others stay as they are.  Those of Client *)
(* and WireBuf never stop; the behaviours of the other parts are bounded    *)
(* and may end.                                                             *)
(*                                                                         *)
(* Client: a plain connection that sends up to three queries at once and   *)
(* one over TLS that sends up to two.  WireBuf, scaled down: a buffer of 12 *)
(* bytes, a header of 2 and a question of at least 5, so that, as in the    *)
(* code, headers alone take less room than max_iterations counts on: three  *)
(* of them in one read get two turns.                                       *)
EXTENDS Client

CONSTANTS s1, s2, Streams, wire_buf_size, KNOT_WIRE_HEADER_SIZE, KNOT_WIRE_QUESTION_MIN_SIZE,
          Records, MaxBytes,
          Sessions, Addrs, Credentials, Entries, Chains, Configs, CertsFor, MaxOps,
          chunk_cap, MaxPush,
          TST_KEY_LIFETIME, Starts, Delays, MaxChecks

VARIABLES part,
          sizes, wire_buf, wire_buf_start_idx, wire_buf_end_idx, wirebuf_error,
          received, delivered, ret, max_iterations, open,
          pushed, wire, uvq, written, write_queue_size, handshake_state, session, broken, reset,
          credentials, net_credentials, entries, params, ctx, ops,
          chunks, len, tail, pushes, items,
          now, key, hash_epoch, wake, checks, early

ASSUME ConnectionAssumption ==
  /\ "none" \notin Credentials /\ "none" \notin Entries
  /\ TST_KEY_LIFETIME \in Nat \ {0} /\ Starts \subseteq Nat /\ Delays \subseteq Nat

W == INSTANCE WireBuf
S == INSTANCE TlsStream
A == INSTANCE TlsAuth
Q == INSTANCE Queue WITH pushed <- pushes
T == INSTANCE Ticket

wvars == <<sizes, wire_buf, wire_buf_start_idx, wire_buf_end_idx, wirebuf_error,
           received, delivered, ret, max_iterations, open>>
svars == <<pushed, wire, uvq, written, write_queue_size, handshake_state, session, broken, reset>>
avars == <<credentials, net_credentials, entries, params, ctx, ops>>
qvars == <<chunks, len, tail, pushes, items>>
tvars == <<now, key, hash_epoch, wake, checks, early>>

MCSession == {s1, s2}
MCTls == {s2}
MCMaxBatch == [s \in {s1, s2} |-> IF s = s1 THEN 3 ELSE 2]

\* Queries of the least size and of the greatest that fits the buffer, a header
\* without a question, a fragment shorter than that, an empty message and one
\* that is a byte too long for the buffer; three of them in any order, and any
\* after three headers.
MCSizes == {0, 1, 2, 7, 10, 11}
MCStreams == [1 .. 3 -> MCSizes] \cup {<<2, 2, 2, n>> : n \in MCSizes}

\* TlsStream: records that are pushed in one part and in several.
MCRecords == {<<2>>, <<1, 2>>, <<2, 1, 1>>}

\* TlsAuth: a chain that is valid for the host name, and one that is not but
\* holds the certificate that may be pinned.
MCChains == {<<"good">>, <<"other", "ca">>}
MCConfigs ==
  {cfg \in [insecure : BOOLEAN, hostname : {"none", "host"}, pins : {{}, {"ca"}}, ca_file : {FALSE}] :
     cfg.insecure => cfg.hostname = "none" /\ cfg.pins = {}}
MCCertsFor == [h \in {"host"} |-> {"good"}]

\* Ticket: the microseconds at which the rounding to milliseconds changes.
MCStarts ==
  {s * 1000000 + u : s \in 0..2,
     u \in {0, 1, 498, 499, 500, 999, 1000, 499499, 998999, 999498, 999499, 999500, 999999}}

MCInit ==
  /\ Init /\ W!Init /\ S!Init /\ A!Init /\ Q!Init /\ T!Init
  /\ part \in {"client", "wirebuf", "stream", "auth", "queue", "ticket"}
  /\ part # "wirebuf" => sizes = <<7, 7, 7>>
  /\ part # "ticket" => now = 0

MCNext ==
  \/ part = "client" /\ Next /\ UNCHANGED <<part, wvars, svars, avars, qvars, tvars>>
  \/ part = "wirebuf" /\ W!Next /\ UNCHANGED <<part, vars, svars, avars, qvars, tvars>>
  \/ part = "stream" /\ S!Next /\ UNCHANGED <<part, vars, wvars, avars, qvars, tvars>>
  \/ part = "auth" /\ A!Next /\ UNCHANGED <<part, vars, wvars, svars, qvars, tvars>>
  \/ part = "queue" /\ Q!Next /\ UNCHANGED <<part, vars, wvars, svars, avars, tvars>>
  \/ part = "ticket" /\ T!Next /\ UNCHANGED <<part, vars, wvars, svars, avars, qvars>>
  \/ /\ part \in {"stream", "auth", "queue", "ticket"}
     /\ UNCHANGED <<part, vars, wvars, svars, avars, qvars, tvars>>

MCSpec == MCInit /\ [][MCNext]_<<part, vars, wvars, svars, avars, qvars, tvars>> /\ Fairness

-----------------------------------------------------------------------------

\* Messages reach worker_submit() whole and in order, and as soon as they are
\* there unless some have no question (WireBuf).
StreamDelivered == part = "wirebuf" => W!StreamDelivered

\* The peer sees the bytes GnuTLS pushed, in order (TlsStream).
StreamIntact == part = "stream" => S!StreamIntact

\* No callback of libuv finds the TLS context freed (TlsStream), nor a context
\* its credentials and parameters; and what nobody uses is freed (TlsAuth).
HeldIsAlive ==
  (part = "stream" => S!CallbacksFindContext) /\ (part = "auth" => A!HeldIsAlive)

\* A session is used only with a peer that its configuration accepts
\* (TlsAuth).
PeerIsVerified == part = "auth" => A!PeerIsVerified

\* A queue shows what was pushed and not popped, in order, until it is used again
\* after it was emptied (Queue).
QueueIsFifo == part = "queue" => Q!QueueIsFifo

\* The ticket key is replaced when an epoch begins, not before (Ticket).
RotatesInTime == part = "ticket" => T!RotatesInTime
=============================================================================
