------------------------------- MODULE Client -------------------------------
(***************************************************************************)
(* TCP and TLS connections of clients: daemon/session.c, daemon/io.c and   *)
(* the client's side of daemon/worker.c.                                   *)
(*                                                                         *)
(* A connection carries many queries at a time.  Its session lists the     *)
(* tasks not yet answered, each of which points back at the session until  *)
(* it is answered or detached; neither pointer holds the session.  When    *)
(* the list is long the session is throttled: reading stops, to be resumed *)
(* by the callback of an answer.                                           *)
(*                                                                         *)
(* "recv" is the session whose wire buffer session_wirebuf_process() goes  *)
(* through; other callbacks wait for its end.  How a task is resolved is   *)
(* the subject of modules Subreq and Upstream: here it is just "busy".     *)
(***************************************************************************)
EXTENDS Integers, FiniteSets

CONSTANTS
  Session, Task, NoSession,
  Tls,               \* sessions that speak TLS
  MaxBatch,          \* messages one read can leave in a session's wire buffer
  TCP_PIPELINE_MAX   \* worker->tcp_pipeline_max, net.tcp_pipeline()

ASSUME ClientAssumption ==
  /\ NoSession \notin Session
  /\ Tls \subseteq Session
  /\ MaxBatch \in [Session -> Nat] /\ TCP_PIPELINE_MAX \in Nat

VARIABLES
  state,       \* of a session: "free", "open" or "closing"
  throttled,   \* sflags.throttled
  reading,     \* io_start_read() is in effect
  tasklist,    \* session->tasks
  recv,        \* see above
  buffered,    \* complete messages in recv's wire buffer
  created, finished,
  primary,     \* ctx->task == task
  busy,        \* being resolved
  source,      \* ctx->source.session
  answering,   \* session to which a uv_write() of the answer is under way
  aborted,     \* the assertion that ended the process, "no" while it runs
  overrun      \* history: a session was closed, by a failed answer, with
               \* messages left that the loop over its buffer still submits

sess == <<state, throttled, reading, tasklist>>
task == <<finished, primary, busy, source, answering>>
vars == <<sess, recv, buffered, created, task, aborted, overrun>>

Idle == recv = NoSession /\ aborted = "no"

-----------------------------------------------------------------------------

\* session_close()
Close(s) ==
  /\ state' = [state EXCEPT ![s] = "closing"]
  /\ reading' = [reading EXCEPT ![s] = FALSE]

\* Mutant: a watermark that may be zero.
ResumesLate(s, stopped, n) ==
  stopped /\ state[s] = "open" /\ n < TCP_PIPELINE_MAX \div 4

\* The end of qr_task_on_send() with n tasks left on the session's list:
\* below the watermark a throttled ("stopped") session reads again.
Resumes(s, stopped, n) ==
  stopped /\ state[s] = "open" /\ n < TCP_PIPELINE_MAX \div 2

\* qr_task_register() of a task that makes the list n long.
Throttles(s, n) == n >= TCP_PIPELINE_MAX /\ ~throttled[s] /\ state[s] = "open"

\* qr_task_finalize() hands the answer of t over, and if on_write() runs at
\* once (TLS) completes t.  l: the session's list; stop: it is throttled now.
AnswerSent(t, s, l, stop) ==
  LET left == IF s \in Tls THEN l \ {t} ELSE l
      go   == s \in Tls /\ Resumes(s, throttled[s] \/ stop, Cardinality(left))
  IN  /\ finished' = [finished EXCEPT ![t] = TRUE]
      /\ busy' = [busy EXCEPT ![t] = FALSE]
      /\ tasklist' = [tasklist EXCEPT ![s] = left]
      /\ throttled' = [throttled EXCEPT ![s] = (@ \/ stop) /\ ~go]
      /\ reading' = [reading EXCEPT ![s] = (@ /\ ~stop) \/ go]
      /\ IF s \in Tls
           THEN /\ primary' = [primary EXCEPT ![t] = FALSE]
                /\ source' = [source EXCEPT ![t] = NoSession]
                /\ UNCHANGED answering
           ELSE /\ primary' = [primary EXCEPT ![t] = TRUE]
                /\ source' = [source EXCEPT ![t] = s]
                /\ answering' = [answering EXCEPT ![t] = s]
      /\ UNCHANGED state

\* The send fails, as only tls_write() can: t is completed, the other tasks
\* go on without a client, the session is closed.
AnswerFails(t, s, l) ==
  /\ s \in Tls
  /\ finished' = [finished EXCEPT ![t] = TRUE]
  /\ busy' = [busy EXCEPT ![t] = FALSE]
  /\ primary' = [primary EXCEPT ![t] = FALSE]
  /\ source' = [u \in Task |-> IF u \in l \cup {t} THEN NoSession ELSE source[u]]
  /\ tasklist' = [tasklist EXCEPT ![s] = {}]
  /\ throttled' = throttled
  /\ Close(s)
  /\ UNCHANGED answering

\* qr_task_finalize(): its client may be gone, but must not be closing.
Finalize(t, s, l, stop) ==
  \/ /\ s = NoSession
     /\ finished' = [finished EXCEPT ![t] = TRUE]
     /\ busy' = [busy EXCEPT ![t] = FALSE]
     /\ primary' = [primary EXCEPT ![t] = FALSE]
     /\ UNCHANGED <<source, answering, sess, aborted>>
  \/ /\ s # NoSession /\ state[s] = "closing"
     /\ aborted' = "source"
     /\ UNCHANGED <<task, sess>>
  \/ /\ s # NoSession /\ state[s] # "closing"
     /\ AnswerSent(t, s, l, stop) \/ AnswerFails(t, s, l)
     /\ UNCHANGED aborted

-----------------------------------------------------------------------------
(* tcp_recv()                                                              *)

\* _tcp_accept()
TcpAccept(s) ==
  /\ Idle /\ state[s] = "free"
  /\ state' = [state EXCEPT ![s] = "open"]
  /\ reading' = [reading EXCEPT ![s] = TRUE]
  /\ throttled' = [throttled EXCEPT ![s] = FALSE]
  /\ UNCHANGED <<tasklist, recv, buffered, created, task, aborted, overrun>>

\* A read completes n messages.
TcpRecv(s, n) ==
  /\ Idle /\ state[s] = "open" /\ reading[s]
  /\ recv' = s
  /\ buffered' = n
  /\ UNCHANGED <<sess, created, task, aborted, overrun>>

\* worker_submit() of a message, t its new task.  The resolver answers at
\* once, or the task stays busy.
WorkerSubmit(t) ==
  LET l    == tasklist[recv] \cup {t}
      stop == Throttles(recv, Cardinality(l))
  IN  /\ recv # NoSession /\ buffered > 0 /\ aborted = "no" /\ ~created[t]
      /\ created' = [created EXCEPT ![t] = TRUE]
      /\ buffered' = buffered - 1
      /\ \/ /\ busy' = [busy EXCEPT ![t] = TRUE]
            /\ primary' = [primary EXCEPT ![t] = TRUE]
            /\ source' = [source EXCEPT ![t] = recv]
            /\ tasklist' = [tasklist EXCEPT ![recv] = l]
            /\ throttled' = [throttled EXCEPT ![recv] = @ \/ stop]
            /\ reading' = [reading EXCEPT ![recv] = @ /\ ~stop]
            /\ UNCHANGED <<state, finished, answering, aborted>>
         \/ Finalize(t, recv, l, stop)
      /\ overrun' = (overrun \/ (state'[recv] = "closing" /\ buffered > 1))
      /\ UNCHANGED recv

\* A malformed message is dropped.
DropMessage ==
  /\ recv # NoSession /\ buffered > 0 /\ aborted = "no"
  /\ buffered' = buffered - 1
  /\ UNCHANGED <<sess, recv, created, task, aborted, overrun>>

\* Mutant: the tasks keep pointing at the session.
EndTcpDangling(s) ==
  /\ tasklist' = [tasklist EXCEPT ![s] = {}]
  /\ Close(s)
  /\ UNCHANGED <<throttled, task>>

\* worker_end_tcp(): the tasks go on without a client.
EndTcp(s) ==
  /\ source' = [t \in Task |-> IF t \in tasklist[s] THEN NoSession ELSE source[t]]
  /\ tasklist' = [tasklist EXCEPT ![s] = {}]
  /\ Close(s)
  /\ UNCHANGED <<throttled, finished, primary, busy, answering>>

\* The buffer holds no complete message any more, or its framing is lost.
TcpRecvReturns ==
  /\ recv # NoSession /\ buffered = 0 /\ aborted = "no"
  /\ recv' = NoSession
  /\ EndTcp(recv) \/ UNCHANGED <<sess, task>>
  /\ UNCHANGED <<buffered, created, aborted, overrun>>

\* End of file or a read error.
TcpRecvEnd(s) ==
  /\ Idle /\ state[s] = "open" /\ reading[s]
  /\ EndTcp(s)
  /\ UNCHANGED <<recv, buffered, created, aborted, overrun>>

-----------------------------------------------------------------------------
(* Other callbacks.                                                        *)

\* The resolver is done with t.
TaskDone(t) ==
  /\ Idle /\ busy[t]
  /\ Finalize(t, source[t],
              IF source[t] = NoSession THEN {} ELSE tasklist[source[t]], FALSE)
  /\ UNCHANGED <<recv, buffered, created, overrun>>

\* on_write() of an answer: qr_task_complete(), then maybe read again.
OnWrite(t) ==
  LET s    == answering[t]
      left == tasklist[s] \ {t}
      go   == Resumes(s, throttled[s], Cardinality(left))
  IN  /\ Idle /\ s # NoSession
      /\ answering' = [answering EXCEPT ![t] = NoSession]
      /\ source' = [source EXCEPT ![t] = NoSession]
      /\ primary' = [primary EXCEPT ![t] = FALSE]
      /\ tasklist' = [tasklist EXCEPT ![s] = left]
      /\ throttled' = [throttled EXCEPT ![s] = @ /\ ~go]
      /\ reading' = [reading EXCEPT ![s] = @ \/ go]
      /\ UNCHANGED <<state, recv, buffered, created, finished, busy, aborted,
                     overrun>>

\* The tasks of E are past KR_RESOLVE_TIME_LIMIT and are finalized, those of
\* "sent" with an answer.  If one of the others fails to be answered the
\* session is closed and the rest have no client left.  With an empty list an
\* idle session is closed.
Expire(s, E, sent) ==
  LET todo  == {t \in E : ~finished[t]}
      fails == sent # todo
      done  == IF s \in Tls THEN todo ELSE todo \ sent
      left  == tasklist[s] \ E
      lost  == done \cup IF fails THEN left ELSE {}
      go    == /\ s \in Tls /\ sent # {} /\ ~fails
               /\ Resumes(s, throttled[s], Cardinality(left))
  IN  /\ Idle /\ state[s] = "open"
      /\ sent \subseteq todo
      /\ fails => s \in Tls
      /\ finished' = [t \in Task |-> finished[t] \/ t \in todo]
      /\ busy' = [t \in Task |-> busy[t] /\ t \notin todo]
      /\ primary' = [t \in Task |-> primary[t] /\ t \notin done]
      /\ source' = [t \in Task |-> IF t \in lost THEN NoSession ELSE source[t]]
      /\ answering' = [t \in Task |->
           IF t \in sent /\ s \notin Tls THEN s ELSE answering[t]]
      /\ tasklist' = [tasklist EXCEPT ![s] = IF fails THEN {} ELSE left]
      /\ throttled' = [throttled EXCEPT ![s] = @ /\ ~go]
      /\ \/ /\ fails \/ left = {}
            /\ Close(s)
         \/ /\ ~fails
            /\ reading' = [reading EXCEPT ![s] = @ \/ go]
            /\ UNCHANGED state
      /\ UNCHANGED <<recv, buffered, created, aborted, overrun>>

\* tcp_timeout_trigger()
TcpTimeoutTrigger(s) ==
  \E E \in SUBSET tasklist[s] : \E sent \in SUBSET E : Expire(s, E, sent)

\* A closed session's writes are called back first, then it is freed.
OnSessionClose(s) ==
  /\ Idle /\ state[s] = "closing"
  /\ \A t \in Task : answering[t] # s
  /\ state' = [state EXCEPT ![s] = "free"]
  /\ UNCHANGED <<throttled, reading, tasklist, recv, buffered, created, task,
                 aborted, overrun>>

-----------------------------------------------------------------------------

Init ==
  /\ state = [s \in Session |-> "free"]
  /\ throttled = [s \in Session |-> FALSE]
  /\ reading = [s \in Session |-> FALSE]
  /\ tasklist = [s \in Session |-> {}]
  /\ recv = NoSession
  /\ buffered = 0
  /\ created = [t \in Task |-> FALSE]
  /\ finished = [t \in Task |-> FALSE]
  /\ primary = [t \in Task |-> FALSE]
  /\ busy = [t \in Task |-> FALSE]
  /\ source = [t \in Task |-> NoSession]
  /\ answering = [t \in Task |-> NoSession]
  /\ aborted = "no"
  /\ overrun = FALSE

Next ==
  \/ \E t \in Task : WorkerSubmit(t) \/ TaskDone(t) \/ OnWrite(t)
  \/ DropMessage
  \/ TcpRecvReturns
  \/ \E s \in Session :
       \/ TcpAccept(s)
       \/ \E n \in 1 .. MaxBatch[s] : TcpRecv(s, n)
       \/ TcpRecvEnd(s)
       \/ TcpTimeoutTrigger(s)
       \/ OnSessionClose(s)
  \/ aborted # "no" /\ UNCHANGED vars

Spec == Init /\ [][Next]_vars

\* The resolver ends its work (RequestLive of Subreq and Upstream), writes are
\* called back, and the loop over the wire buffer goes on.  A callback that is
\* due waits for the end of the one that runs, so it is enabled again and
\* again rather than all the time: the event loop does not pass it over.
Fairness ==
  /\ WF_vars(DropMessage \/ TcpRecvReturns)
  /\ \A t \in Task : SF_vars(TaskDone(t)) /\ SF_vars(OnWrite(t))

FairSpec == Spec /\ Fairness

-----------------------------------------------------------------------------
(* Properties.                                                             *)

\* A request points at its client's session only while the session's memory
\* is there: it is on the session's list, or its answer is being written,
\* and on_write() comes before on_session_close().  Conversely a task on a
\* session's list is alive and has the session as its source (the asserts of
\* qr_task_finalize() and worker_end_tcp()).  session_close() and session_free()
\* find an empty task list, and no answer is sent to a closing session (the
\* assertion of qr_task_finalize()).  Some of this fails when messages were
\* submitted after their session was closed.
SourceAlive ==
  /\ \A s \in Session : \A t \in tasklist[s] : primary[t] /\ source[t] = s
  /\ ~overrun =>
       /\ \A t \in Task : source[t] # NoSession =>
            /\ state[source[t]] # "free"
            /\ t \in tasklist[source[t]] \/ answering[t] = source[t]
       /\ aborted = "no"
       /\ Idle => \A s \in Session : state[s] # "open" => tasklist[s] = {}

\* A throttled session, whose client is no longer read from, reads again or is
\* closed: the answers that lift the throttle all come, and the last of them
\* finds the list short enough.  (It does not with tcp_pipeline_max at 1, whose
\* half is zero.)
ThrottleEnds ==
  \A s \in Session : throttled[s] ~> (reading[s] \/ state[s] # "open")

=============================================================================
