------------------------------- MODULE Subreq -------------------------------
(***************************************************************************)
(* Query-resolution tasks of daemon/worker.c and the deduplication of      *)
(* their outgoing UDP queries.                                             *)
(*                                                                         *)
(* A task whose next query is not yet on the wire sends it and LEADS:      *)
(* worker->subreq_out maps the query's key to it.  A task that wants the   *)
(* same query while it is out is put on the leader's "waiting" list and    *)
(* is stepped from subreq_finalize(), last one first, before the leader    *)
(* itself goes on.  The task is reference counted; its memory, and that of *)
(* its request, goes when the count reaches zero.                          *)
(*                                                                         *)
(* The process has one thread and callbacks of the event loop run to       *)
(* completion.  The only recursion is qr_task_step(leader) ->              *)
(* subreq_finalize -> qr_task_step(follower).  A follower neither leads    *)
(* nor has I/O pending (FollowersIdle), so the recursion is one level deep *)
(* and "call" is the whole C stack: the leader whose followers are being   *)
(* notified.  No callback starts while "call" is set.                      *)
(*                                                                         *)
(* Queries over TCP are the subject of module Upstream; here a task that   *)
(* waits for a TCP connection or answer is "parked".                       *)
(***************************************************************************)
EXTENDS Integers, Sequences, FiniteSets

CONSTANTS
  Task,              \* tasks (a task and its request_ctx are one to one)
  Key,               \* keys of outgoing queries: qname, qclass, qtype
  NoTask,            \* the NULL pointer
  NoKey,             \* the key of a pktbuf that holds no query yet
  Sources,           \* where requests come from: "udp", "tcp", "none" (Lua)
  MayRunOut,         \* whether the process can hit its limit of open files
  MAX_PENDING,       \* UDP sockets of one query, daemon/worker.c
  KR_ITER_LIMIT,     \* lib/defines.h
  KR_TIMEOUT_LIMIT,  \* lib/defines.h
  Slack,             \* the "- 10" of the open-files watermark
  SizeT              \* 2^w, w the width of size_t

ASSUME SubreqAssumption ==
  /\ NoTask \notin Task
  /\ NoKey \notin Key
  /\ Sources \subseteq {"udp", "tcp", "none"}
  /\ MayRunOut \in BOOLEAN
  /\ MAX_PENDING \in Nat \ {0}
  /\ KR_ITER_LIMIT \in Nat
  /\ KR_TIMEOUT_LIMIT \in Nat
  /\ Slack \in Nat
  /\ SizeT \in Nat \ {0}

VARIABLES
  created,        \* the request was accepted and its task exists or existed
  refs,           \* task->refs
  primary,        \* ctx->task == task: the primary reference is held
  finished,       \* task->finished
  leading,        \* task->leading
  waiting,        \* task->waiting: the followers still to be notified
  key,            \* subreq_key() of the task's pktbuf
  secret,         \* the pending query's 0x20 secret is not zero
  pending_count,  \* UDP sessions with this task in their task list
  timer,          \* callback of the timer of pending[0]
  inflight,       \* uv_udp_send() requests to upstreams not yet called back
  timeouts,       \* task->timeouts
  iter_count,     \* task->iter_count
  parked,         \* on a waiting or task list of an upstream TCP session
  source,         \* transport of ctx->source.session, "none" when NULL
  registered,     \* in the task list of the client's TCP session
  answering,      \* the answer's ioreq is not yet called back
  old,            \* KR_RESOLVE_TIME_LIMIT has passed since its creation
  subreq_out,     \* worker->subreq_out
  too_many_open,  \* worker->too_many_open
  rconcurrent,    \* worker->stats.rconcurrent
  rconcurrent_highwatermark,
  call,           \* the leader on the C stack, see above
  garbled         \* history: consumed a reply whose QNAME was still encoded

plan   == <<key, secret, timeouts, iter_count, parked, garbled>>
client == <<source, registered, answering, old>>
io     == <<pending_count, timer, inflight>>
load   == <<too_many_open, rconcurrent_highwatermark>>
vars   == <<created, refs, primary, finished, leading, waiting, plan, client,
            io, subreq_out, load, rconcurrent, call>>

NoCall == [task |-> NoTask, reply |-> FALSE, encoded |-> FALSE, then |-> "none"]

Idle == call = NoCall

-----------------------------------------------------------------------------
(* Requests and references.                                               *)

\* The open-files watermark test of qr_task_send() and qr_task_step();
\* the subtraction is on size_t.
BelowWatermark(high) == rconcurrent < (high - Slack) % SizeT

\* Mutant: the statistic is not decremented with the last reference.
ReferenceUncounted(t, n, isPrimary) ==
  /\ refs' = [refs EXCEPT ![t] = @ + n]
  /\ primary' = [primary EXCEPT ![t] = isPrimary]
  /\ UNCHANGED rconcurrent

\* n more references (fewer when negative) to t; with the last one
\* qr_task_free() runs, and request_free() if the primary reference is gone.
Reference(t, n, isPrimary) ==
  /\ refs' = [refs EXCEPT ![t] = @ + n]
  /\ primary' = [primary EXCEPT ![t] = isPrimary]
  /\ rconcurrent' = IF refs[t] + n = 0 /\ ~isPrimary
                      THEN rconcurrent - 1 ELSE rconcurrent

One(b) == IF b THEN 1 ELSE 0

\* Mutant: session_tasklist_del() does not give its reference back.
CompleteLeaks(t, n, inList) ==
  /\ Reference(t, n - One(primary[t]), FALSE)
  /\ source' = [source EXCEPT ![t] = "none"]
  /\ registered' = [registered EXCEPT ![t] = FALSE]

\* qr_task_complete(): forget the client, drop the primary reference.
\* n references are gained besides; inList: t is in the client's task list.
Complete(t, n, inList) ==
  /\ Reference(t, n - One(inList) - One(primary[t]), FALSE)
  /\ source' = [source EXCEPT ![t] = "none"]
  /\ registered' = [registered EXCEPT ![t] = FALSE]

\* qr_task_finalize() of an unfinished task, after which the caller drops
\* `drop` references.  open, high: the open-files state on entry; s: the 0x20
\* secrets.  What no code reads of a finished task is reset.
Finalize(t, drop, inList, open, high, s) ==
  /\ finished' = [finished EXCEPT ![t] = TRUE]
  /\ key' = [key EXCEPT ![t] = NoKey]
  /\ secret' = [s EXCEPT ![t] = FALSE]
  /\ timeouts' = [timeouts EXCEPT ![t] = 0]
  /\ iter_count' = [iter_count EXCEPT ![t] = 0]
  /\ rconcurrent_highwatermark' = high
  /\ \/ \* no client to answer
        /\ source[t] = "none"
        /\ Complete(t, -drop, inList)
        /\ too_many_open' = open
        /\ UNCHANGED answering
     \/ \* the answer is handed to the event loop
        /\ source[t] # "none"
        /\ answering' = [answering EXCEPT ![t] = TRUE]
        /\ registered' = [registered EXCEPT ![t] = inList]
        /\ Reference(t, 1 - drop, primary[t])
        /\ too_many_open' = (open /\ ~BelowWatermark(high))
        /\ UNCHANGED source
     \/ \* the client's connection refuses the answer and is closed
        /\ source[t] = "tcp"
        /\ Complete(t, -drop, inList)
        /\ too_many_open' = open
        /\ UNCHANGED answering

-----------------------------------------------------------------------------
(* One qr_task_step(), from the return of subreq_finalize() on.  The task  *)
(* has no I/O pending and no followers.                                    *)

\* Past the time limit, or out of file descriptors: no input is consumed.
Refused(t) ==
  \/ old[t]
  \/ too_many_open /\ ~BelowWatermark(rconcurrent_highwatermark)

\* subreq_enqueue(): join the task that has query k out.  Here and below, w
\* and s are task->waiting and the 0x20 secrets as the caller left them.
SubreqEnqueue(t, k, drop, w, s) ==
  /\ subreq_out[k] # NoTask
  /\ waiting' = [w EXCEPT ![subreq_out[k]] = Append(@, t)]
  /\ Reference(t, 1 - drop, primary[t])
  /\ leading' = [leading EXCEPT ![t] = FALSE]
  /\ secret' = s
  /\ UNCHANGED <<io, subreq_out>>

\* No task has query k out: retransmit() sends it, then subreq_lead().
SubreqLead(t, k, drop, w, s) ==
  /\ subreq_out[k] = NoTask
  /\ pending_count' = [pending_count EXCEPT ![t] = 1]
  /\ inflight' = [inflight EXCEPT ![t] = @ + 1]
  /\ timer' = [timer EXCEPT ![t] = "on_retransmit"]
  /\ Reference(t, 2 - drop, primary[t])
  /\ subreq_out' = [subreq_out EXCEPT ![k] = t]
  /\ leading' = [leading EXCEPT ![t] = TRUE]
  /\ \E b \in BOOLEAN : secret' = [s EXCEPT ![t] = b]
  /\ waiting' = w

\* udp_task_step()
UdpTaskStep(t, k, drop, w, s) ==
  /\ \/ SubreqEnqueue(t, k, drop, w, s)
     \/ SubreqLead(t, k, drop, w, s)
  /\ key' = [key EXCEPT ![t] = k]
  /\ too_many_open' = FALSE
  /\ UNCHANGED <<parked, client, finished, rconcurrent_highwatermark>>

\* The first send of query k fails: no socket, or a checkout layer refuses.
UdpTaskFails(t, k, drop, inList, w, s) ==
  /\ subreq_out[k] = NoTask
  /\ \/ MayRunOut /\ Finalize(t, drop, inList, TRUE, rconcurrent, s)
     \/ Finalize(t, drop, inList, FALSE, rconcurrent_highwatermark, s)
  /\ leading' = [leading EXCEPT ![t] = FALSE]
  /\ waiting' = w
  /\ UNCHANGED <<parked, old, io, subreq_out>>

\* tcp_task_step(): the task waits for an upstream TCP session.
TcpTaskStep(t, drop, w, s) ==
  /\ parked' = [parked EXCEPT ![t] = TRUE]
  /\ Reference(t, 1 - drop, primary[t])
  /\ leading' = [leading EXCEPT ![t] = FALSE]
  /\ waiting' = w
  /\ secret' = s
  /\ too_many_open' = FALSE
  /\ UNCHANGED <<key, client, finished, io, subreq_out,
                 rconcurrent_highwatermark>>

\* tcp_task_make_connection() gets no socket.
TcpTaskFails(t, drop, inList, w, s) ==
  /\ MayRunOut
  /\ Finalize(t, drop, inList, TRUE, rconcurrent, s)
  /\ leading' = [leading EXCEPT ![t] = FALSE]
  /\ waiting' = w
  /\ UNCHANGED <<parked, old, io, subreq_out>>

\* kr_resolve_consume() and the kr_resolve_produce() loop, then what they
\* ask for: an answer, or a query to send after n rounds of the loop.
Work(t, drop, inList, w, s) ==
  \/ \* done, failed, refused, or a limit of the loop was passed
     /\ Finalize(t, drop, inList,
                 too_many_open /\ (old[t] \/ Refused(t)),
                 rconcurrent_highwatermark, s)
     /\ leading' = [leading EXCEPT ![t] = FALSE]
     /\ waiting' = w
     /\ UNCHANGED <<parked, old, io, subreq_out>>
  \/ /\ ~Refused(t)
     /\ timeouts[t] < KR_TIMEOUT_LIMIT
     /\ iter_count[t] < KR_ITER_LIMIT
     /\ \/ \E k \in Key : UdpTaskFails(t, k, drop, inList, w, s)
        \/ TcpTaskFails(t, drop, inList, w, s)
        \/ /\ \E n \in (iter_count[t] + 1) .. KR_ITER_LIMIT :
                iter_count' = [iter_count EXCEPT ![t] = n]
           /\ \/ \E k \in Key : UdpTaskStep(t, k, drop, w, s)
              \/ TcpTaskStep(t, drop, w, s)
           /\ UNCHANGED timeouts

-----------------------------------------------------------------------------
(* Callbacks of the event loop.                                            *)

\* worker_submit() of a client's query, or worker_resolve_start() and
\* worker_resolve_exec() of an internal one (src = "none").
WorkerSubmit(t, src) ==
  /\ Idle /\ ~created[t]
  /\ created' = [created EXCEPT ![t] = TRUE]
  /\ rconcurrent' = rconcurrent + 1
  /\ refs' = [refs EXCEPT ![t] = 1 + One(src = "tcp")]
  /\ primary' = [primary EXCEPT ![t] = TRUE]
  /\ source' = [source EXCEPT ![t] = src]
  /\ registered' = [registered EXCEPT ![t] = (src = "tcp")]
  /\ call' = [task |-> t, reply |-> FALSE, encoded |-> FALSE, then |-> "step"]
  /\ UNCHANGED <<finished, leading, waiting, plan, io, answering, old,
                 subreq_out, load>>

\* Mutant: the entry of the query stays in subreq_out.
SubreqFinalizeStale(t, reply, then) ==
  /\ pending_count' = [pending_count EXCEPT ![t] = 0]
  /\ timer' = [timer EXCEPT ![t] = "off"]
  /\ call' = [task |-> t, reply |-> reply, encoded |-> reply /\ secret[t],
              then |-> then]
  /\ UNCHANGED <<inflight, subreq_out>>

\* subreq_finalize() up to its loop: close the sockets, leave subreq_out.
\* The loop is Notify, its end is Return.
SubreqFinalize(t, reply, then) ==
  /\ pending_count' = [pending_count EXCEPT ![t] = 0]
  /\ timer' = [timer EXCEPT ![t] = "off"]
  /\ subreq_out' = IF leading[t] THEN [subreq_out EXCEPT ![key[t]] = NoTask]
                                 ELSE subreq_out
  /\ call' = [task |-> t, reply |-> reply, encoded |-> reply /\ secret[t],
              then |-> then]
  /\ UNCHANGED inflight

\* An upstream answers on one of the UDP sockets of t.
UdpReply(t) ==
  /\ Idle /\ pending_count[t] > 0
  /\ SubreqFinalize(t, TRUE, "step")
  /\ Reference(t, -pending_count[t], primary[t])
  /\ UNCHANGED <<created, finished, leading, waiting, plan, client, load>>

\* on_udp_timeout()
OnUdpTimeout(t) ==
  /\ Idle /\ timer[t] = "on_udp_timeout"
  /\ SubreqFinalize(t, FALSE, "step")
  /\ Reference(t, -pending_count[t], primary[t])
  /\ timeouts' = [timeouts EXCEPT ![t] = @ + 1]
  /\ UNCHANGED <<created, finished, leading, waiting, key, secret, iter_count,
                 parked, garbled, client, load>>

\* retransmit() has room for one more socket.
CanRetransmit(t) == pending_count[t] < MAX_PENDING

\* Mutant: the timer is not restarted.
LastWaitLost(t) == timer' = [timer EXCEPT ![t] = "off"]

\* Mutant: the timer is restarted with the same callback.
LastWaitAgain(t) == UNCHANGED timer

\* The wait for the sockets that are open, when none can be added.
LastWait(t) == timer' = [timer EXCEPT ![t] = "on_udp_timeout"]

\* on_retransmit(): one more socket, or the last wait before the timeout.
OnRetransmit(t) ==
  /\ Idle /\ timer[t] = "on_retransmit"
  /\ \/ /\ CanRetransmit(t)
        /\ pending_count' = [pending_count EXCEPT ![t] = @ + 1]
        /\ inflight' = [inflight EXCEPT ![t] = @ + 1]
        /\ Reference(t, 2, primary[t])
        /\ too_many_open' =
             (too_many_open /\ ~BelowWatermark(rconcurrent_highwatermark))
        /\ UNCHANGED <<timer, rconcurrent_highwatermark>>
     \/ /\ LastWait(t)
        /\ \/ UNCHANGED load
           \/ /\ MayRunOut /\ CanRetransmit(t)
              /\ too_many_open' = TRUE
              /\ rconcurrent_highwatermark' = rconcurrent
        /\ UNCHANGED <<pending_count, inflight, refs, primary, rconcurrent>>
  /\ UNCHANGED <<created, finished, leading, waiting, plan, client,
                 subreq_out, call>>

\* on_send() of a query: qr_task_on_send() and the release of the ioreq.
OnSend(t) ==
  /\ Idle /\ inflight[t] > 0
  /\ inflight' = [inflight EXCEPT ![t] = @ - 1]
  /\ IF finished[t]
       THEN Complete(t, -1, registered[t])
       ELSE Reference(t, -1, primary[t]) /\ UNCHANGED <<source, registered>>
  /\ UNCHANGED <<created, finished, leading, waiting, plan, answering, old,
                 pending_count, timer, subreq_out, load, call>>

\* on_send() or on_write() of the answer.
OnAnswerSent(t) ==
  /\ Idle /\ answering[t]
  /\ answering' = [answering EXCEPT ![t] = FALSE]
  /\ Complete(t, -1, registered[t])
  /\ UNCHANGED <<created, finished, leading, waiting, plan, old, io,
                 subreq_out, load, call>>

\* An upstream TCP session steps or finalizes a task on one of its lists.
\* A finished task only loses the reference of the list.
Unpark(t) ==
  /\ Idle /\ parked[t]
  /\ parked' = [parked EXCEPT ![t] = FALSE]
  /\ Reference(t, -1, primary[t])
  /\ \/ /\ finished[t]
        /\ UNCHANGED call
     \/ /\ ~finished[t]
        /\ \E then \in {"step", "finalize"} :
             call' = [task |-> t, reply |-> FALSE, encoded |-> FALSE,
                      then |-> then]
  /\ UNCHANGED <<created, finished, leading, waiting, key, secret, timeouts,
                 iter_count, garbled, client, io, subreq_out, load>>

\* tcp_timeout_trigger() of the client's connection, t the task that
\* session_tasklist_finalize_expired() takes from its list.  The reference
\* of the list is dropped last, by Return.
ClientExpire(t) ==
  /\ Idle /\ registered[t] /\ old[t]
  /\ registered' = [registered EXCEPT ![t] = FALSE]
  /\ \/ /\ finished[t]
        /\ Reference(t, -1, primary[t])
        /\ UNCHANGED <<pending_count, timer, inflight, subreq_out, call>>
     \/ /\ ~finished[t]
        /\ SubreqFinalize(t, FALSE, "expire")
        /\ Reference(t, -pending_count[t], primary[t])
  /\ UNCHANGED <<created, finished, leading, waiting, plan, source, answering,
                 old, load>>

\* worker_end_tcp() of the client's connection: its tasks go on without it.
ClientEnds(t) ==
  /\ Idle /\ registered[t]
  /\ registered' = [registered EXCEPT ![t] = FALSE]
  /\ source' = [source EXCEPT ![t] = "none"]
  /\ Reference(t, -1, primary[t])
  /\ UNCHANGED <<created, finished, leading, waiting, plan, answering, old,
                 io, subreq_out, load, call>>

\* KR_RESOLVE_TIME_LIMIT passes.
Age(t) ==
  /\ Idle /\ created[t] /\ ~finished[t] /\ ~old[t]
  /\ old' = [old EXCEPT ![t] = TRUE]
  /\ UNCHANGED <<created, refs, primary, finished, leading, waiting, plan,
                 source, registered, answering, io, subreq_out, load,
                 rconcurrent, call>>

-----------------------------------------------------------------------------
(* The C stack unwinds.                                                    *)

\* Mutant: the follower is not given the secret.
HandOverNothing(lead, f) == [secret EXCEPT ![lead] = FALSE]

\* The 0x20 secrets after the leader's is given to a follower.
HandOver(lead, f) ==
  [secret EXCEPT ![f] = secret[lead] /\ ~finished[f], ![lead] = FALSE]

\* One turn of the loop of subreq_finalize(): the last follower takes the
\* leader's 0x20 secret and is stepped with the leader's packet.
Notify ==
  LET lead   == call.task
      f      == waiting[lead][Len(waiting[lead])]
      w      == [waiting EXCEPT ![lead] = SubSeq(@, 1, Len(@) - 1)]
      s      == HandOver(lead, f)
      reads  == call.reply /\ ~finished[f] /\ ~Refused(f)
  IN  /\ ~Idle /\ waiting[lead] # <<>>
      /\ call' = [call EXCEPT !.encoded = @ /\ ~(reads /\ s[f])]
      /\ garbled' = [garbled EXCEPT
                       ![f] = @ \/ (reads /\ call.encoded /\ ~s[f])]
      /\ \/ /\ finished[f]
            /\ Reference(f, -1, primary[f])
            /\ waiting' = w
            /\ secret' = s
            /\ UNCHANGED <<finished, leading, key, timeouts, iter_count,
                           parked, client, io, subreq_out, load>>
         \/ /\ ~finished[f]
            /\ Work(f, 1, registered[f], w, s)
      /\ UNCHANGED created

\* The loop is over: the rest of qr_task_step() for the leader, or of
\* session_tasklist_finalize_expired().
Return ==
  LET t     == call.task
      reads == call.reply /\ call.then = "step" /\ ~Refused(t)
  IN  /\ ~Idle /\ waiting[t] = <<>>
      /\ call' = NoCall
      /\ garbled' = [garbled EXCEPT
                       ![t] = @ \/ (reads /\ call.encoded /\ ~secret[t])]
      /\ \/ /\ call.then = "step"
            /\ Work(t, 0, registered[t], waiting, secret)
         \/ /\ call.then \in {"finalize", "expire"}
            /\ Finalize(t, One(call.then = "expire"), registered[t],
                        too_many_open, rconcurrent_highwatermark, secret)
            /\ leading' = [leading EXCEPT ![t] = FALSE]
            /\ UNCHANGED <<waiting, parked, old, io, subreq_out>>
      /\ UNCHANGED created

-----------------------------------------------------------------------------
Init ==
  /\ created = [t \in Task |-> FALSE]
  /\ refs = [t \in Task |-> 0]
  /\ primary = [t \in Task |-> FALSE]
  /\ finished = [t \in Task |-> FALSE]
  /\ leading = [t \in Task |-> FALSE]
  /\ waiting = [t \in Task |-> <<>>]
  /\ key = [t \in Task |-> NoKey]
  /\ secret = [t \in Task |-> FALSE]
  /\ pending_count = [t \in Task |-> 0]
  /\ timer = [t \in Task |-> "off"]
  /\ inflight = [t \in Task |-> 0]
  /\ timeouts = [t \in Task |-> 0]
  /\ iter_count = [t \in Task |-> 0]
  /\ parked = [t \in Task |-> FALSE]
  /\ source = [t \in Task |-> "none"]
  /\ registered = [t \in Task |-> FALSE]
  /\ answering = [t \in Task |-> FALSE]
  /\ old = [t \in Task |-> FALSE]
  /\ subreq_out = [k \in Key |-> NoTask]
  /\ too_many_open = FALSE
  /\ rconcurrent = 0
  /\ rconcurrent_highwatermark = 0
  /\ call = NoCall
  /\ garbled = [t \in Task |-> FALSE]

\* What the event loop is bound to call sooner or later: timers and the
\* callbacks of requests it was given.
Progress(t) ==
  \/ OnUdpTimeout(t)
  \/ OnRetransmit(t)
  \/ OnSend(t)
  \/ OnAnswerSent(t)
  \/ Unpark(t)

\* What clients, upstreams and the clock may do.
Environment(t) ==
  \/ \E src \in Sources : WorkerSubmit(t, src)
  \/ UdpReply(t)
  \/ ClientExpire(t)
  \/ ClientEnds(t)
  \/ Age(t)

\* No request is left and none will come.
Done ==
  /\ Idle
  /\ \A t \in Task : created[t] /\ refs[t] = 0
  /\ UNCHANGED vars

Next ==
  \/ Notify
  \/ Return
  \/ \E t \in Task : Progress(t) \/ Environment(t)
  \/ Done

Spec == Init /\ [][Next]_vars

\* Timers fire, requests given to the event loop are called back, upstream
\* TCP sessions end; upstreams and clients need not do anything.
Fairness ==
  /\ WF_vars(Notify \/ Return)
  /\ \A t \in Task : WF_vars(OnUdpTimeout(t)) /\ WF_vars(OnRetransmit(t))
                     /\ WF_vars(OnSend(t)) /\ WF_vars(OnAnswerSent(t))
                     /\ WF_vars(Unpark(t))

FairSpec == Spec /\ Fairness
-----------------------------------------------------------------------------
(* Properties.                                                             *)

\* t is on some leader's waiting list.
EnqIn(w, t) == \E l \in Task : \E i \in DOMAIN w[l] : w[l][i] = t
Enqueued(t) == EnqIn(waiting, t)

\* Types of the state of tasks, of the table of outgoing queries and of the
\* worker's counters.
TypeOK ==
  /\ created \in [Task -> BOOLEAN]
  /\ refs \in [Task -> Int]
  /\ primary \in [Task -> BOOLEAN]
  /\ finished \in [Task -> BOOLEAN]
  /\ leading \in [Task -> BOOLEAN]
  /\ waiting \in [Task -> Seq(Task)]
  /\ key \in [Task -> Key \cup {NoKey}]
  /\ secret \in [Task -> BOOLEAN]
  /\ pending_count \in [Task -> 0 .. MAX_PENDING]
  /\ timer \in [Task -> {"off", "on_retransmit", "on_udp_timeout"}]
  /\ inflight \in [Task -> Nat]
  /\ timeouts \in [Task -> Nat]
  /\ iter_count \in [Task -> 0 .. KR_ITER_LIMIT]
  /\ parked \in [Task -> BOOLEAN]
  /\ source \in [Task -> {"none", "udp", "tcp"}]
  /\ registered \in [Task -> BOOLEAN]
  /\ answering \in [Task -> BOOLEAN]
  /\ old \in [Task -> BOOLEAN]
  /\ subreq_out \in [Key -> Task \cup {NoTask}]
  /\ too_many_open \in BOOLEAN
  /\ rconcurrent \in Int
  /\ rconcurrent_highwatermark \in Int
  /\ call \in [task : Task \cup {NoTask}, reply : BOOLEAN, encoded : BOOLEAN,
               then : {"none", "step", "finalize", "expire"}]
  /\ garbled \in [Task -> BOOLEAN]

\* Who holds a reference to t: the request, the task lists of its UDP
\* sockets, its unfinished sends, the client's task list, a leader's waiting
\* list, an upstream TCP session, a running
\* session_tasklist_finalize_expired().
Holders(t) ==
  One(primary[t]) + pending_count[t] + inflight[t] + One(answering[t])
  + One(registered[t]) + One(Enqueued(t)) + One(parked[t])
  + One(call.task = t /\ call.then = "expire")

\* The reference count of a task is exactly the number of its holders: no
\* qr_task_ref() or qr_task_unref() is missing or doubled on any path.
RefCount == \A t \in Task : refs[t] = Holders(t)

\* subreq_out and the leading flags agree (the asserts of subreq_finalize()
\* and subreq_lead()), and a leader, to which subreq_out points without
\* holding a reference, is an unfinished task whose memory is live.
SubreqTable ==
  /\ \A k \in Key : subreq_out[k] # NoTask =>
       /\ leading[subreq_out[k]]
       /\ key[subreq_out[k]] = k
  /\ \A t \in Task : leading[t] =>
       /\ ~finished[t] /\ primary[t]
       /\ call.task # t => subreq_out[key[t]] = t

\* Why the recursion of qr_task_step() is one level deep: a task on a
\* waiting list is on no other, leads nothing and has no socket open, and
\* only leaders have followers.
FollowersIdle ==
  \A l \in Task : \A i \in DOMAIN waiting[l] :
    LET f == waiting[l][i] IN
      /\ leading[l]
      /\ ~leading[f] /\ pending_count[f] = 0 /\ ~parked[f]
      /\ \A m \in Task : \A j \in DOMAIN waiting[m] :
           waiting[m][j] = f => m = l /\ j = i

\* Between callbacks something is bound to step every unfinished task: the
\* timer of its first socket, its leader, or an upstream TCP session.
SomeoneSteps ==
  Idle => \A t \in Task : created[t] /\ ~finished[t] =>
    \/ leading[t] /\ pending_count[t] > 0 /\ timer[t] # "off"
    \/ Enqueued(t)
    \/ parked[t]

\* worker->stats.rconcurrent counts the requests whose memory is not yet
\* released; too_many_open is lifted by comparing it with a watermark.
RConcurrentExact ==
  rconcurrent = Cardinality({t \in Task : created[t] /\ refs[t] > 0})

\* A request's memory is released only after qr_task_finalize().
FreedIsFinished ==
  \A t \in Task : created[t] /\ refs[t] = 0 => finished[t] /\ ~primary[t]

\* What module Request sees of a task.
Phase(t) ==
  CASE ~created[t]               -> "new"
    [] created[t] /\ ~finished[t] -> "resolving"
    [] finished[t] /\ refs[t] > 0 -> "finished"
    [] finished[t] /\ refs[t] = 0 -> "released"

R == INSTANCE Request WITH phase <- [t \in Task |-> Phase(t)]

\* A request is finished once and released only then.
RequestSpec == R!Spec

\* Every request is finished and all its memory released in the end,
\* whatever upstreams and clients do.
RequestLive == R!LiveSpec

\* The comment in subreq_finalize() on the zeroed 0x20 secret, "Next will be
\* already decoded": the packet that followers and leader share is decoded by
\* the first that gets the secret, before any other reads it.  That holds as
\* long as no task is past its time limit and the worker never ran out of
\* descriptors (the watermark is unset): a task that is refused for one of
\* these when it is notified returns with the packet still encoded.
AlreadyDecoded ==
  rconcurrent_highwatermark = 0 /\ (\A t \in Task : ~old[t]) => \A t \in Task : ~garbled[t]

=============================================================================
