------------------------------ MODULE Upstream ------------------------------
(***************************************************************************)
(* Outgoing TCP and TLS connections of daemon/worker.c: the maps           *)
(* tcp_waiting (being connected to) and tcp_connected, the sessions in     *)
(* them with their waiting list (queries not yet sent) and task list       *)
(* (queries awaiting an answer), and the tasks on those lists.             *)
(*                                                                         *)
(* qr_task_step() of a task on such a list steps no other task, so the C   *)
(* stack is "loop" (a session's tasks being stepped one by one by          *)
(* session_waitinglist_retry() or worker_end_tcp()) with "now", the task   *)
(* being stepped, on top.  No callback starts before both are done.        *)
(*                                                                         *)
(* Queries over UDP are the subject of module Subreq: a task that has one  *)
(* out is "on_udp" here.                                                   *)
(***************************************************************************)
EXTENDS Integers, Sequences, FiniteSets

CONSTANTS
  Task, Peer,
  Session,           \* sessions that can be open at a time (descriptors)
  NoTask, NoSession, \* NULL pointers
  TlsPeer,           \* peers configured for TLS (net->tls_client_params)
  Sources,           \* where requests come from: "udp", "tcp", "none" (Lua)
  Faults,            \* what may go wrong: "connect", "send", "write", "answer"
  LongIdle,          \* net.tcp_in_idle() set above MAX_TCP_INACTIVITY
  TCP_PIPELINE_MAX,  \* worker->tcp_pipeline_max
  KR_ITER_LIMIT, KR_TIMEOUT_LIMIT

ASSUME UpstreamAssumption ==
  /\ NoTask \notin Task /\ NoSession \notin Session /\ IsFiniteSet(Session)
  /\ TlsPeer \subseteq Peer
  /\ Sources \subseteq {"udp", "tcp", "none"}
  /\ Faults \subseteq {"connect", "send", "write", "answer"}
  /\ LongIdle \in BOOLEAN
  /\ TCP_PIPELINE_MAX \in Nat /\ KR_ITER_LIMIT \in Nat
  /\ KR_TIMEOUT_LIMIT \in Nat

VARIABLES
  tcp_waiting, tcp_connected,   \* the worker's maps, keyed by peer address
  state,          \* life of a session; "connecting": its on_connect() is due
  peer,           \* session->peer
  waitinglist,    \* session->waiting
  tasklist,       \* session->tasks, whose order is that of message ids
  timer,          \* callback of session->timeout
  writes,         \* <<session, task>>: a uv_write() not yet called back
  created, finished, primary, on_udp, timeouts, iter_count, old,
  source, registered, answering,      \* as in module Subreq
  loop, now,      \* the C stack, see above
  aborted         \* what ended the process, "no" while it runs

sessions == <<tcp_waiting, tcp_connected, state, peer, waitinglist, tasklist,
              timer, writes>>
client   == <<finished, primary, source, registered, answering>>
plan     == <<on_udp, timeouts, iter_count>>
vars     == <<sessions, created, client, plan, old, loop, now, aborted>>

NoLoop == [op |-> "none", session |-> NoSession, timeout |-> FALSE]
Idle == loop = NoLoop /\ now = NoTask /\ aborted = "no"

One(b) == IF b THEN 1 ELSE 0

\* task->refs, counted from its holders (module Subreq shows the two agree).
Refs(t) ==
  One(primary[t]) + One(answering[t]) + One(registered[t])
  + Cardinality({s \in Session : \E i \in DOMAIN waitinglist[s] :
                                   waitinglist[s][i] = t})
  + Cardinality({s \in Session : t \in tasklist[s]})
  + Cardinality({s \in Session : <<s, t>> \in writes})

Elements(q) == {q[i] : i \in DOMAIN q}

-----------------------------------------------------------------------------
(* What handlers are made of.                                              *)

\* qr_task_complete()
Complete(t) ==
  /\ primary' = [primary EXCEPT ![t] = FALSE]
  /\ source' = [source EXCEPT ![t] = "none"]
  /\ registered' = [registered EXCEPT ![t] = FALSE]

\* qr_task_finalize() of each task of S; the answers of bad cannot be sent.
Finalize(S) ==
  LET todo == {t \in S : ~finished[t]} IN
  \E bad \in SUBSET {t \in todo : source[t] = "tcp" /\ "answer" \in Faults} :
    LET gone == bad \cup {t \in todo : source[t] = "none"} IN
    /\ finished' = [t \in Task |-> finished[t] \/ t \in todo]
    /\ answering' = [t \in Task |-> answering[t] \/ t \in todo \ gone]
    /\ primary' = [t \in Task |-> primary[t] /\ t \notin gone]
    /\ source' = [t \in Task |-> IF t \in gone THEN "none" ELSE source[t]]
    /\ registered' = [t \in Task |-> registered[t] /\ t \notin gone]

\* session_close(): both lists must be empty by then.
Close(s) ==
  /\ state' = [state EXCEPT ![s] = "closing"]
  /\ timer' = [timer EXCEPT ![s] = "off"]

\* Mutant: the entry stays in the map.
ForgetNothing(map, p) == map

\* worker_del_tcp_waiting() and worker_del_tcp_connected()
Forget(map, p) == [map EXCEPT ![p] = NoSession]

\* Mutant: the connect timer is stopped and no other started.
AllSentUntimed(s) ==
  /\ tasklist' = [tasklist EXCEPT ![s] = @ \cup Elements(waitinglist[s])]
  /\ waitinglist' = [waitinglist EXCEPT ![s] = <<>>]
  /\ tcp_connected' = [tcp_connected EXCEPT ![peer[s]] = s]
  /\ state' = [state EXCEPT ![s] = "connected"]
  /\ timer' = [timer EXCEPT ![s] = "off"]

\* All waiting tasks of s are on the wire and s is in tcp_connected.
AllSent(s) ==
  /\ tasklist' = [tasklist EXCEPT ![s] = @ \cup Elements(waitinglist[s])]
  /\ waitinglist' = [waitinglist EXCEPT ![s] = <<>>]
  /\ tcp_connected' = [tcp_connected EXCEPT ![peer[s]] = s]
  /\ state' = [state EXCEPT ![s] = "connected"]
  /\ timer' = [timer EXCEPT ![s] = "tcp_timeout_trigger"]

\* send_waiting() from on_connect(): all are sent, or one after the first n
\* fails, which fails every task of the session and closes it.
SendWaiting(s) ==
  \/ /\ peer[s] \notin TlsPeer
     /\ AllSent(s)
     /\ writes' = writes \cup ({s} \X Elements(waitinglist[s]))
     /\ UNCHANGED client
  \/ /\ "send" \in Faults
     /\ \E n \in IF peer[s] \in TlsPeer THEN {0} ELSE 0 .. Len(waitinglist[s]) - 1 :
          writes' = writes \cup ({s} \X {waitinglist[s][i] : i \in 1 .. n})
     /\ Finalize(tasklist[s] \cup Elements(waitinglist[s]))
     /\ tasklist' = [tasklist EXCEPT ![s] = {}]
     /\ waitinglist' = [waitinglist EXCEPT ![s] = <<>>]
     /\ tcp_connected' = Forget(tcp_connected, peer[s])
     /\ Close(s)

-----------------------------------------------------------------------------
(* qr_task_step() of the task on top of the stack.                         *)

\* Nothing left to do: the plan is resolved, failed or out of its limits.
StepFinal ==
  /\ Finalize({now})
  /\ now' = NoTask
  /\ UNCHANGED <<sessions, plan>>

\* A query goes out over UDP.
StepUdp ==
  /\ on_udp' = [on_udp EXCEPT ![now] = TRUE]
  /\ now' = NoTask
  /\ UNCHANGED <<sessions, client, timeouts>>

\* tcp_task_waiting_connection().  A queue that has been emptied still points
\* to the chunk queue_pop() freed, and queue_push() writes there: what follows
\* is undefined (module Queue), and the run of the process ends here.
StepWaiting(p) ==
  LET s == tcp_waiting[p] IN
  /\ s # NoSession
  /\ \/ /\ state[s] = "closing"
        /\ Finalize({now})
        /\ UNCHANGED <<waitinglist, aborted>>
     \/ /\ state[s] # "closing"
        /\ waitinglist' = [waitinglist EXCEPT ![s] = Append(@, now)]
        /\ aborted' = IF waitinglist[s] = <<>> THEN "emptied" ELSE "no"
        /\ UNCHANGED client
  /\ now' = NoTask
  /\ UNCHANGED <<tcp_waiting, tcp_connected, state, peer, tasklist, timer,
                 writes, on_udp, timeouts>>

\* tcp_task_existing_connection() when nothing is left to send first
\* (ConnectedIsFlushed).
StepExisting(p) ==
  LET s == tcp_connected[p] IN
  /\ s # NoSession /\ tcp_waiting[p] = NoSession
  /\ \/ \* closing, or too many queries outstanding
        /\ state[s] = "closing" \/ Cardinality(tasklist[s]) >= TCP_PIPELINE_MAX
        /\ Finalize({now})
        /\ UNCHANGED <<tcp_connected, state, tasklist, timer, writes>>
     \/ /\ state[s] # "closing" /\ Cardinality(tasklist[s]) < TCP_PIPELINE_MAX
        /\ \/ /\ tasklist' = [tasklist EXCEPT ![s] = @ \cup {now}]
              /\ writes' = IF p \in TlsPeer THEN writes
                                            ELSE writes \cup {<<s, now>>}
              /\ UNCHANGED <<tcp_connected, state, timer, client>>
           \/ \* qr_task_send() fails
              /\ "send" \in Faults
              /\ Finalize(tasklist[s] \cup {now})
              /\ tasklist' = [tasklist EXCEPT ![s] = {}]
              /\ tcp_connected' = Forget(tcp_connected, p)
              /\ Close(s)
              /\ UNCHANGED writes
  /\ now' = NoTask
  /\ UNCHANGED <<tcp_waiting, peer, waitinglist, on_udp, timeouts>>

\* tcp_task_make_connection().  When uv_tcp_connect() fails at once the
\* session is closed and the task stepped again.
StepConnect(p) ==
  /\ tcp_waiting[p] = NoSession /\ tcp_connected[p] = NoSession
  /\ \/ /\ \A s \in Session : state[s] # "free"
        /\ Finalize({now})
        /\ now' = NoTask
        /\ UNCHANGED sessions
     \/ \E s \in Session :
          /\ state[s] = "free"
          /\ peer' = [peer EXCEPT ![s] = p]
          /\ \/ /\ state' = [state EXCEPT ![s] = "connecting"]
                /\ timer' = [timer EXCEPT ![s] = "on_tcp_connect_timeout"]
                /\ tcp_waiting' = [tcp_waiting EXCEPT ![p] = s]
                /\ waitinglist' = [waitinglist EXCEPT ![s] = <<now>>]
                /\ now' = NoTask
             \/ /\ "connect" \in Faults
                /\ Close(s)
                /\ UNCHANGED <<tcp_waiting, waitinglist, now>>
          /\ UNCHANGED <<tcp_connected, tasklist, writes, client>>
  /\ UNCHANGED <<on_udp, timeouts>>

\* The limits qr_task_step() puts on a request.
WithinLimits(t) ==
  /\ ~old[t]
  /\ timeouts[t] < KR_TIMEOUT_LIMIT /\ iter_count[t] < KR_ITER_LIMIT

Step ==
  /\ now # NoTask /\ aborted = "no"
  /\ \/ /\ finished[now]
        /\ now' = NoTask
        /\ UNCHANGED <<sessions, client, plan, aborted>>
     \/ /\ ~finished[now]
        /\ StepFinal
        /\ UNCHANGED aborted
     \/ /\ ~finished[now] /\ WithinLimits(now)
        /\ iter_count' = [iter_count EXCEPT ![now] = @ + 1]
        /\ \/ StepUdp /\ UNCHANGED aborted
           \/ \E p \in Peer : \/ StepWaiting(p)
                              \/ StepExisting(p) /\ UNCHANGED aborted
                              \/ StepConnect(p) /\ UNCHANGED aborted
  /\ UNCHANGED <<created, old, loop>>

-----------------------------------------------------------------------------
(* session_waitinglist_retry() and worker_end_tcp() step the tasks of a    *)
(* session one by one; then the session is closed, except after            *)
(* on_tcp_connect_timeout().                                               *)

LoopTurn ==
  LET s == loop.session IN
  /\ loop # NoLoop /\ now = NoTask /\ aborted = "no"
  /\ \/ \* the next waiting task; worker_end_tcp() asserts task->refs > 1
        /\ waitinglist[s] # <<>>
        /\ IF loop.op = "end" /\ Refs(Head(waitinglist[s])) <= 1
             THEN /\ aborted' = "refs"
                  /\ UNCHANGED <<waitinglist, timeouts, now>>
             ELSE /\ now' = Head(waitinglist[s])
                  /\ waitinglist' = [waitinglist EXCEPT ![s] = Tail(@)]
                  /\ timeouts' = [timeouts EXCEPT ![Head(waitinglist[s])] =
                                    @ + One(loop.timeout)]
                  /\ UNCHANGED aborted
        /\ UNCHANGED <<tasklist, state, timer, loop>>
     \/ \* then, at the end of a connection, those that await an answer
        /\ waitinglist[s] = <<>> /\ loop.op = "end"
        /\ \E t \in tasklist[s] :
             /\ now' = t
             /\ tasklist' = [tasklist EXCEPT ![s] = @ \ {t}]
        /\ UNCHANGED <<waitinglist, timeouts, state, timer, loop, aborted>>
     \/ /\ waitinglist[s] = <<>>
        /\ loop.op = "end" => tasklist[s] = {}
        /\ IF loop.timeout THEN UNCHANGED <<state, timer>> ELSE Close(s)
        /\ loop' = NoLoop
        /\ UNCHANGED <<waitinglist, tasklist, timeouts, now, aborted>>
  /\ UNCHANGED <<tcp_waiting, tcp_connected, peer, writes, created, client,
                 on_udp, iter_count, old>>

\* session_waitinglist_retry()
Retry(s, timeout) ==
  loop' = [op |-> "retry", session |-> s, timeout |-> timeout]

\* worker_end_tcp(), up to its loops.
EndTcp(s) ==
  /\ timer' = [timer EXCEPT ![s] = "off"]
  /\ tcp_waiting' = Forget(tcp_waiting, peer[s])
  /\ tcp_connected' = Forget(tcp_connected, peer[s])
  /\ loop' = [op |-> "end", session |-> s, timeout |-> FALSE]
  /\ UNCHANGED <<state, peer, waitinglist, tasklist, writes>>

-----------------------------------------------------------------------------
(* Callbacks of the event loop.                                            *)

\* A new request, or a step of a task that had a query out over UDP.
WorkerSubmit(t, src) ==
  /\ Idle /\ ~created[t]
  /\ created' = [created EXCEPT ![t] = TRUE]
  /\ primary' = [primary EXCEPT ![t] = TRUE]
  /\ source' = [source EXCEPT ![t] = src]
  /\ registered' = [registered EXCEPT ![t] = (src = "tcp")]
  /\ now' = t
  /\ UNCHANGED <<sessions, finished, answering, plan, old, loop, aborted>>

UdpDone(t) ==
  /\ Idle /\ on_udp[t]
  /\ on_udp' = [on_udp EXCEPT ![t] = FALSE]
  /\ now' = t
  /\ UNCHANGED <<sessions, created, client, timeouts, iter_count, old, loop,
                 aborted>>

\* The session is the one its peer's tasks wait for; else it timed out before,
\* or the peer got connected meanwhile.
Awaited(s) == tcp_waiting[peer[s]] = s /\ tcp_connected[peer[s]] = NoSession

\* on_connect() with status 0
OnConnect(s) ==
  /\ Idle /\ state[s] = "connecting"
  /\ \/ /\ ~Awaited(s)
        /\ Retry(s, FALSE)
        /\ UNCHANGED <<sessions, client>>
     \/ /\ Awaited(s)
        /\ \/ \* also when the TLS handshake fails at once
              /\ tcp_waiting' = Forget(tcp_waiting, peer[s])
              /\ SendWaiting(s)
              /\ UNCHANGED peer
           \/ \* tls_client_connect_start() blocks on the peer's answer
              /\ peer[s] \in TlsPeer
              /\ state' = [state EXCEPT ![s] = "handshake"]
              /\ timer' = [timer EXCEPT ![s] = "tcp_timeout_trigger"]
              /\ UNCHANGED <<tcp_waiting, tcp_connected, peer, waitinglist,
                             tasklist, writes, client>>
        /\ UNCHANGED loop
  /\ UNCHANGED <<created, plan, old, now, aborted>>

\* on_connect() with an error
OnConnectError(s) ==
  /\ Idle /\ state[s] = "connecting"
  /\ tcp_waiting' = IF Awaited(s) THEN Forget(tcp_waiting, peer[s])
                                  ELSE tcp_waiting
  /\ Retry(s, FALSE)
  /\ UNCHANGED <<tcp_connected, state, peer, waitinglist, tasklist, timer,
                 writes, created, client, plan, old, now, aborted>>

\* on_tcp_connect_timeout(): uv_connect_t cannot be cancelled, so the session
\* stays until on_connect().
OnTcpConnectTimeout(s) ==
  /\ Idle /\ timer[s] = "on_tcp_connect_timeout"
  /\ timer' = [timer EXCEPT ![s] = "off"]
  /\ tcp_waiting' = Forget(tcp_waiting, peer[s])
  /\ IF waitinglist[s] = <<>> THEN UNCHANGED loop ELSE Retry(s, TRUE)
  /\ UNCHANGED <<tcp_connected, state, peer, waitinglist, tasklist, writes,
                 created, client, plan, old, now, aborted>>

\* session_tls_hs_cb() with status 0, also of a later rehandshake.  tls_write()
\* calls on_write() before it returns.  When a send fails the tasks still
\* waiting are failed, the task list is asserted to be empty, the session closed.
HandshakeDone(s) ==
  LET first  == tcp_waiting[peer[s]] # NoSession
      usable == tcp_connected[peer[s]] = IF first THEN NoSession ELSE s
      over   == {t \in Elements(waitinglist[s]) : finished[t]}
  IN  /\ Idle /\ peer[s] \in TlsPeer /\ state[s] \in {"handshake", "connected"}
      /\ \/ /\ usable
            /\ tcp_waiting' = Forget(tcp_waiting, peer[s])
            /\ AllSent(s)
            /\ primary' = [t \in Task |-> primary[t] /\ t \notin over]
            /\ source' = [t \in Task |-> IF t \in over THEN "none" ELSE source[t]]
            /\ registered' = [t \in Task |-> registered[t] /\ t \notin over]
            /\ UNCHANGED <<finished, answering, aborted>>
         \/ \* the first send fails, or there is none to be tried
            /\ usable => "send" \in Faults /\ waitinglist[s] # <<>>
            /\ tcp_waiting' = Forget(tcp_waiting, peer[s])
            /\ tcp_connected' = Forget(tcp_connected, peer[s])
            /\ Finalize(Elements(waitinglist[s]))
            /\ waitinglist' = [waitinglist EXCEPT ![s] = <<>>]
            /\ Close(s)
            /\ aborted' = IF tasklist[s] = {} THEN "no" ELSE "tasklist"
            /\ UNCHANGED tasklist
         \/ \* a later one fails: those before it are in the task list
            /\ usable /\ "send" \in Faults /\ Len(waitinglist[s]) > 1
            /\ aborted' = "tasklist"
            /\ UNCHANGED <<tcp_waiting, tcp_connected, state, waitinglist,
                           tasklist, timer, client>>
      /\ UNCHANGED <<peer, writes, created, plan, old, loop, now>>

\* session_tls_hs_cb() with an error, then worker_end_tcp().  With nothing
\* waiting, this is asserted to be a rehandshake on a connected session.
HandshakeFailed(s) ==
  /\ Idle /\ peer[s] \in TlsPeer /\ state[s] \in {"handshake", "connected"}
  /\ IF /\ waitinglist[s] = <<>>
        /\ tcp_waiting[peer[s]] # NoSession \/ tcp_connected[peer[s]] = NoSession
       THEN /\ aborted' = "rehandshake"
            /\ UNCHANGED <<sessions, loop>>
       ELSE /\ EndTcp(s)
            /\ UNCHANGED aborted
  /\ UNCHANGED <<created, client, plan, old, now>>

\* tcp_recv() of an end of file, an error, or a stream that lost its framing.
TcpRecvEnd(s) ==
  /\ Idle /\ state[s] \in {"handshake", "connected"}
  /\ EndTcp(s)
  /\ UNCHANGED <<created, client, plan, old, now, aborted>>

\* Mutant: the answered task stays in the task list.
ReplyKeeps(s, t) ==
  /\ Idle /\ state[s] = "connected" /\ t \in tasklist[s]
  /\ <<s, t>> \notin writes
  /\ now' = IF Refs(t) > 1 THEN t ELSE NoTask
  /\ UNCHANGED <<sessions, created, client, plan, old, loop, aborted>>

\* worker_submit() of an upstream's answer to the query of t.
Reply(s, t) ==
  /\ Idle /\ state[s] = "connected" /\ t \in tasklist[s]
  /\ <<s, t>> \notin writes          \* a query is answered after it is sent
  /\ tasklist' = [tasklist EXCEPT ![s] = @ \ {t}]
  /\ now' = IF Refs(t) > 1 THEN t ELSE NoTask
  /\ UNCHANGED <<tcp_waiting, tcp_connected, state, peer, waitinglist, timer,
                 writes, created, client, plan, old, loop, aborted>>

\* on_write() of the query of t.  On failure the task leaves the task list.
OnWrite(s, t, ok) ==
  /\ Idle /\ <<s, t>> \in writes
  /\ ok => state[s] # "closing"
  /\ ~ok => state[s] = "closing" \/ "write" \in Faults
  /\ writes' = writes \ {<<s, t>>}
  /\ IF finished[t] THEN Complete(t) ELSE UNCHANGED <<primary, source, registered>>
  /\ tasklist' = IF ok THEN tasklist ELSE [tasklist EXCEPT ![s] = @ \ {t}]
  /\ UNCHANGED <<tcp_waiting, tcp_connected, state, peer, waitinglist, timer,
                 created, finished, answering, plan, old, loop, now, aborted>>

\* session_tasklist_finalize_expired() takes these.
Expired(s) == {t \in tasklist[s] : old[t]}

\* tcp_timeout_trigger() of an upstream session: fail what is too old; with
\* nothing outstanding fail what waits, and close unless there was activity.
TcpTimeoutTrigger(s) ==
  LET left == tasklist[s] \ Expired(s)
  IN  /\ Idle /\ timer[s] = "tcp_timeout_trigger"
      /\ tasklist' = [tasklist EXCEPT ![s] = left]
      /\ \/ /\ left # {}
            /\ Finalize(Expired(s))
            /\ UNCHANGED <<waitinglist, state, timer, tcp_waiting, tcp_connected>>
         \/ /\ left = {}
            /\ Finalize(Expired(s) \cup Elements(waitinglist[s]))
            /\ waitinglist' = [waitinglist EXCEPT ![s] = <<>>]
            /\ \/ /\ state[s] = "connected" \/ LongIdle
                  /\ UNCHANGED <<state, timer, tcp_waiting, tcp_connected>>
               \/ /\ tcp_waiting' = Forget(tcp_waiting, peer[s])
                  /\ tcp_connected' = Forget(tcp_connected, peer[s])
                  /\ Close(s)
      /\ UNCHANGED <<peer, writes, created, plan, old, loop, now, aborted>>

\* A closed session's callbacks are done: on_session_close().
OnSessionClose(s) ==
  /\ Idle /\ state[s] = "closing"
  /\ \A t \in Task : <<s, t>> \notin writes
  /\ state' = [state EXCEPT ![s] = "free"]
  /\ UNCHANGED <<tcp_waiting, tcp_connected, peer, waitinglist, tasklist,
                 timer, writes, created, client, plan, old, loop, now, aborted>>

\* The client's side, as in module Subreq.
OnAnswerSent(t) ==
  /\ Idle /\ answering[t]
  /\ answering' = [answering EXCEPT ![t] = FALSE]
  /\ Complete(t)
  /\ UNCHANGED <<sessions, created, finished, plan, old, loop, now, aborted>>

ClientExpire(t) ==
  /\ Idle /\ registered[t] /\ old[t]
  /\ registered' = [registered EXCEPT ![t] = FALSE]
  /\ \/ /\ finished[t]
        /\ UNCHANGED <<finished, primary, source, answering, on_udp>>
     \/ /\ ~finished[t]
        /\ finished' = [finished EXCEPT ![t] = TRUE]
        /\ on_udp' = [on_udp EXCEPT ![t] = FALSE]
        /\ \/ /\ answering' = [answering EXCEPT ![t] = TRUE]
              /\ UNCHANGED <<primary, source>>
           \/ /\ "answer" \in Faults
              /\ primary' = [primary EXCEPT ![t] = FALSE]
              /\ source' = [source EXCEPT ![t] = "none"]
              /\ UNCHANGED answering
  /\ UNCHANGED <<sessions, created, timeouts, iter_count, old, loop, now, aborted>>

ClientEnds(t) ==
  /\ Idle /\ registered[t]
  /\ registered' = [registered EXCEPT ![t] = FALSE]
  /\ source' = [source EXCEPT ![t] = "none"]
  /\ UNCHANGED <<sessions, created, finished, primary, answering, plan, old,
                 loop, now, aborted>>

\* KR_RESOLVE_TIME_LIMIT passes.
Age(t) ==
  /\ Idle /\ created[t] /\ ~old[t]
  /\ old' = [old EXCEPT ![t] = TRUE]
  /\ UNCHANGED <<sessions, created, client, plan, loop, now, aborted>>
-----------------------------------------------------------------------------

Init ==
  /\ tcp_waiting = [p \in Peer |-> NoSession]
  /\ tcp_connected = [p \in Peer |-> NoSession]
  /\ state = [s \in Session |-> "free"]
  /\ peer \in [Session -> Peer]
  /\ waitinglist = [s \in Session |-> <<>>]
  /\ tasklist = [s \in Session |-> {}]
  /\ timer = [s \in Session |-> "off"]
  /\ writes = {}
  /\ created = [t \in Task |-> FALSE]
  /\ finished = [t \in Task |-> FALSE]
  /\ primary = [t \in Task |-> FALSE]
  /\ on_udp = [t \in Task |-> FALSE]
  /\ timeouts = [t \in Task |-> 0]
  /\ iter_count = [t \in Task |-> 0]
  /\ old = [t \in Task |-> FALSE]
  /\ source = [t \in Task |-> "none"]
  /\ registered = [t \in Task |-> FALSE]
  /\ answering = [t \in Task |-> FALSE]
  /\ loop = NoLoop
  /\ now = NoTask
  /\ aborted = "no"

\* What the event loop does by itself, sooner or later.
SessionProgress(s) ==
  \/ OnTcpConnectTimeout(s)
  \/ TcpTimeoutTrigger(s)
  \/ OnSessionClose(s)

TaskProgress(t) ==
  \/ UdpDone(t)
  \/ OnAnswerSent(t)
  \/ Age(t)
  \/ \E s \in Session, ok \in BOOLEAN : OnWrite(s, t, ok)

\* What peers and clients do, or do not.
SessionEnvironment(s) ==
  \/ OnConnect(s)
  \/ OnConnectError(s)
  \/ HandshakeDone(s)
  \/ HandshakeFailed(s)
  \/ TcpRecvEnd(s)
  \/ \E t \in Task : Reply(s, t)

TaskEnvironment(t) ==
  \/ \E src \in Sources : WorkerSubmit(t, src)
  \/ ClientExpire(t)
  \/ ClientEnds(t)

\* Every request is answered and every connection closed, or the process
\* has ended.
Done ==
  /\ \/ aborted # "no"
     \/ /\ Idle
        /\ \A t \in Task : created[t] /\ Refs(t) = 0
        /\ \A s \in Session : state[s] = "free"
  /\ UNCHANGED vars

Next ==
  \/ Step
  \/ LoopTurn
  \/ \E s \in Session : SessionProgress(s) \/ SessionEnvironment(s)
  \/ \E t \in Task : TaskProgress(t) \/ TaskEnvironment(t)
  \/ Done

Spec == Init /\ [][Next]_vars

\* Timers fire, writes are called back, UDP queries end and time passes;
\* peers may stay silent and clients stay connected.
Fairness ==
  /\ WF_vars(Step \/ LoopTurn)
  /\ \A s \in Session : WF_vars(OnTcpConnectTimeout(s))
                        /\ WF_vars(TcpTimeoutTrigger(s))
  /\ \A t \in Task : /\ WF_vars(UdpDone(t)) /\ WF_vars(OnAnswerSent(t))
                     /\ WF_vars(Age(t))
                     /\ \A s \in Session :
                          WF_vars(OnWrite(s, t, TRUE) \/ OnWrite(s, t, FALSE))

FairSpec == Spec /\ Fairness

-----------------------------------------------------------------------------
(* Properties.                                                             *)

\* Between callbacks a peer is in at most one of tcp_waiting and
\* tcp_connected, and a map entry is an open session to that very peer: a
\* task is never sent to, or made to wait for, a session that is closing or
\* that belongs to an earlier connection whose timeout came before
\* on_connect().  Conversely a connection in use is found by its peer's
\* address: no two sessions to one peer are open, but for the one being ended
\* and those whose connect timed out.  A session that tasks wait for has a
\* waiting list that is not empty, so session_waitinglist_push() never pushes
\* to a queue that has been emptied, unless tcp_timeout_trigger() emptied it
\* during the handshake and net.tcp_in_idle() kept the session.
\* session_close() finds both lists empty; queries wait only for a session
\* not yet usable and are outstanding only on a connected one, so
\* send_waiting() has nothing to do on a session found in tcp_connected.
MapsSound ==
  /\ \A p \in Peer :
       /\ tcp_waiting[p] = NoSession \/ tcp_connected[p] = NoSession
       /\ tcp_waiting[p] # NoSession =>
            /\ peer[tcp_waiting[p]] = p
            /\ state[tcp_waiting[p]] \in {"connecting", "handshake"}
            /\ timer[tcp_waiting[p]] # "off"
            /\ \/ waitinglist[tcp_waiting[p]] # <<>>
               \/ LongIdle /\ state[tcp_waiting[p]] = "handshake"
       /\ tcp_connected[p] # NoSession =>
            /\ peer[tcp_connected[p]] = p
            /\ state[tcp_connected[p]] = "connected"
  /\ \A s \in Session :
       /\ state[s] = "connected" /\ loop.session # s => tcp_connected[peer[s]] = s
       /\ state[s] = "handshake" /\ loop.session # s => tcp_waiting[peer[s]] = s
       /\ waitinglist[s] # <<>> => state[s] \in {"connecting", "handshake"}
       /\ tasklist[s] # {} => state[s] = "connected"

\* An unfinished task waits in one place only, so it is stepped by one
\* event at a time and holds its primary reference.  When no callback runs it
\* is in such a place: on a list of a session whose timer runs, or with a
\* query out over UDP.  (Not so when a write to a live connection fails: see
\* EventuallyFinished.)
OnePlace ==
  \A t \in Task :
    created[t] /\ ~finished[t] /\ aborted = "no" =>
      /\ primary[t]
      /\ One(now = t) + One(on_udp[t])
         + Cardinality({w \in Session \X (1 .. Cardinality(Task)) :
                          /\ w[2] \in DOMAIN waitinglist[w[1]]
                          /\ waitinglist[w[1]][w[2]] = t})
         + Cardinality({s \in Session : t \in tasklist[s]}) <= 1
      /\ Idle => \/ on_udp[t]
                 \/ \E s \in Session :
                      /\ timer[s] # "off"
                      /\ t \in Elements(waitinglist[s]) \cup tasklist[s]

\* What module Request sees of a task.
Phase(t) ==
  CASE ~created[t]               -> "new"
    [] created[t] /\ ~finished[t] -> "resolving"
    [] finished[t] /\ Refs(t) > 0 -> "finished"
    [] finished[t] /\ Refs(t) = 0 -> "released"

R == INSTANCE Request WITH phase <- [t \in Task |-> Phase(t)]

\* A request is finished once, released only then, and both in the end,
\* when writes to upstreams do not fail: see EventuallyFinished.
RequestLive == R!LiveSpec

\* A request is answered or given up: "Upper limit for resolution time of
\* single query" of lib/defines.h, enforced by the sessions' timers.
EventuallyFinished ==
  \A t \in Task : created[t] ~> finished[t]

\* The assertions of worker_end_tcp() and session_tls_hs_cb() hold: a task
\* taken from a waiting list has another holder, nothing was sent before a
\* failure, and an error with no task waiting is that of a rehandshake.  They
\* do when requests come over UDP, sends do not fail and idle connections are
\* closed at the first timeout.
NoAssertionFails == aborted = "no"
=============================================================================
