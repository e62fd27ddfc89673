# A TLA+ development of Knot Resolver's core

Knot Resolver is a caching, validating DNS resolver.  A process has one thread
and one libuv event loop; all that happens is a callback of a socket, a timer
or a child, run to completion.  Several processes share the cache and the key file.
This directory models the parts where callbacks interleave and share state, the
resolver library they call, and what the processes share: the cache, down to
the pages of LMDB, and the file of trust anchors.  TLC checks them on small
instances; TLAPS proves the most important invariants for every instance.

Contents: [the system](#the-system), [modules](#modules-and-code),
[runs](#runs), [bounds](#bounds), [fairness](#fairness), [proofs](#proofs),
[where code and comments disagree](#where-code-and-comments-disagree),
[not modelled](#not-modelled).

## The system

| part | state | operations | interacts with |
|---|---|---|---|
| worker: requests and tasks (`daemon/worker.c`) | `struct request_ctx`, `struct qr_task` (reference count, pending sockets, timer, waiting list), `subreq_out`, statistics, open-files watermark | submit, step, finalize, send, retransmit, timeout, lead/enqueue/finalize a subrequest, complete, free | sessions, resolver library |
| worker: upstream connections (`daemon/worker.c`) | maps `tcp_waiting`, `tcp_connected` | connect, connect timeout, handshake callback, send waiting, end of a connection | sessions, TLS, tasks |
| sessions (`daemon/session.c`, `daemon/io.c`) | flags, task list, waiting list, wire buffer, timer | accept, read, throttle, expire, close, free | worker |
| wire buffer (`daemon/session.c`) | start and end index in a fixed buffer | consume, produce a packet, discard, compress, process | reads, `worker_submit()` |
| TLS (`daemon/tls.c`, `daemon/tls_session_ticket-srv.c`) | handshake state, queue of writes, credentials of the server, parameters of forwarding targets, ticket key | handshake, write, close; set, renew, reserve and release credentials; verify, resume; rotate the key | worker, sessions, configuration |
| resolver library (`lib/resolve.c`, `lib/rplan.c`, `lib/layer/*.c`) | plan of pending queries, zone cut, flags, ranked records | begin, consume, produce, checkout, finish; iterate, validate, cache layers | worker (called by a step), cache, reputation |
| nameserver reputation (`lib/nsrep.c`), zone cut (`lib/zonecut.c`) | elected set with scores; servers and keys of a cut | elect, update, sort; add, delete, search | resolver |
| cache (`lib/cache/`) | ranked entries, NSEC and NSEC3 chains; cached transactions and cursor, `.cachelock` | peek, stash, remove; read, write, range read, clear | resolver, other processes |
| LMDB (`contrib/lmdb/mdb.c`) | pages, two meta pages, free lists, reader table, writers' mutex; B+tree, cursors | begin, put, delete, search, commit, abort, open, close | cache of every process |
| trust anchors (`daemon/lua/trust_anchors.lua.in`, `lib/dnssec/ta.c`) | keys with RFC 5011 states and timers, the key file | start, bootstrap, refresh, update, write the file | validator, other processes |
| zone import (`daemon/zimport.c`) | parsed RRsets with marks, a timer | parse, import | worker, cache |
| containers (`lib/generic/`), memory pools (`contrib/ucw/mempool.c`) | trie, LRU, queue; chunks and blocks | | all |
| configuration (`daemon/engine.c`, `daemon/network.c`), modules, cookies | | | |

The behaviours that make the worker hard are these, each listed with its line
in `PROJECT.json` under "hazards":

- **Sharing.**  A task is referenced from its request, its client's session,
  each of its sockets, each send on its way, an upstream session, a leader's
  waiting list and the C stack, by separate ref and unref calls.
- **Deduplication.**  Tasks that want the query another one has sent wait for
  it and are stepped from inside the leader's step; they may then lead, wait
  or be refused in their turn, in the middle of the leader's cleanup.
- **Late callbacks.**  A send, a connect or a write can complete after the
  task or the connection it was for is done.
- **Failures part way.**  Of the tasks waiting for a connection some may be
  sent before sending fails; the worker must end each of them once.
- **Client and upstream at once.**  A task can be ended by its client's
  session while it is on the lists of an upstream session.
- **Streams.**  Reads split messages anywhere; the loop over the buffer runs
  handlers that can close the very session it belongs to.
- **Back pressure.**  A session stops reading at a limit and something must
  make it read again; a process that runs out of descriptors refuses requests
  and must stop refusing them.

Inside a step, the resolver library is sequential, and hard for other reasons:

- **Queries that work for queries.**  An answer may have to wait, pickled, for
  a DS, a DNSKEY or an RRSIG; when it is validated again its zone cut, its flags
  and the records selected with it have changed.
- **Knowledge passed up.**  A sub-query hands keys to its parent and marks it
  insecure, but not every parent, and not for every reason.
- **Two sources of truth.**  The same cut, record or denial comes from a server
  now or from the cache, with what was known of it then.
- **Failure.**  Lost, truncated, mismatching and failing replies are retried
  with other flags, on a cut that the failed attempt has changed.

Between processes, which crash and start at any time:

- **Files.**  The data and lock file of the cache are removed and made anew by
  one process while others have them open; the key file is overwritten by all.
- **Snapshots.**  LMDB's readers take no lock; a writer reuses a page when it
  finds no reader that could see it, and may be killed between any two stores.

## Modules and code

| module | models |
|---|---|
| `Request` | abstract: what the worker promises of a request |
| `Subreq` | tasks, their references, UDP queries and their deduplication, the open-files watermark |
| `SubreqProofs`, `SubreqRefinement` | proofs about `Subreq`: its inductive invariant; that it implements `Request` |
| `Upstream` | outgoing TCP and TLS connections and the tasks on their lists |
| `UpstreamProofs`, `UpstreamTasks` | proofs about `Upstream`: the maps of sessions; the places of tasks |
| `Client`, `ClientProofs` | sessions of TCP and TLS clients, and a proof |
| `WireBuf` | messages in the buffer of a TCP session |
| `Rplan` | the plan of a request, zone cuts, trust anchors |
| `Iterate`, `Validate` | the iterator and the validator layer |
| `Authority` | external: what name servers and the cache hold and reply |
| `Resolve` | the driver over them, from the client's question to the answer |
| `Zone` | external: a signed zone with wildcards and delegations, and what its servers send |
| `Denial` | the checks of NSEC and NSEC3 proofs |
| `Aggressive` | what the cache layer stores and the answers it makes of it |
| `Cdb`, `CdbProofs` | the cache database of several processes, and proofs |
| `Lmdb`, `Btree` | LMDB: transactions, pages and locks; the tree and its cursors |
| `TrustAnchors`, `TrustAnchorsProofs` | RFC 5011 in several processes with one key file, and proofs |
| `Nsrep` | scores and reputation of servers, elections, forwarding targets |
| `TlsStream`, `TlsAuth`, `Ticket`, `TlsProofs` | what TLS writes; credentials, verification and resumption; rotation of the ticket key; proofs about the three |
| `Zimport` | import of the root zone |
| `Trie`, `Lru`, `Queue`, `Mempool` | the containers and the memory pool |
| `MCSubreq`, `MCUpstream`, `MCConnection`, `MCWorker`, `MCResolve`, `MCLibrary`, `MCCdb`, `MCStorage`, `MCTrustAnchors` | instances for TLC |

An action is one callback with all it calls.  Where a callback steps several
tasks, and each step has choices of its own, the C stack is made a variable
(`call` in `Subreq`, `loop` and `now` in `Upstream`, `recv` in `Client`) and no
callback starts until it is empty; so the intermediate states the code goes
through are states of the model too.  `PROJECT.json` maps each definition to
its lines.

`MCConnection`, `MCWorker`, `MCLibrary` and `MCStorage` hold several components
that do not interact in the model.  Their behaviours are those of one component
each, chosen at the start (`part`), while the variables of the others keep their
first values; a run of one of them is several runs in one.

**Request.**  `Receive`, `Finish`, `Release`: a request is finished once, its
memory is released after that, both happen.  One callback may finish many.

**Subreq.**  One variable for each field of `struct qr_task` the code branches
on, and for the worker's table and counters.  `WorkerSubmit` is
`worker_submit()`/`worker_resolve_start()` with the first `qr_task_step()`;
`UdpReply`, `OnUdpTimeout`, `OnRetransmit`, `OnSend`, `OnAnswerSent` are the
callbacks; `ClientExpire` and `ClientEnds` what a client's session does to its
tasks; `Notify` and `Return` the loop of `subreq_finalize()` and what follows
it.  What the resolver library decides in a step (done, ask over UDP or TCP,
which key) is a choice.  A task that uses TCP is `parked`.

**Upstream.**  Sessions with their flags, lists and timer, the two maps, and
for each task where it is.  Each thing the network may do is an action, with
success or failure when the constant `Faults` allows it: `OnConnect`,
`OnTcpConnectTimeout`, the handshake callback, `OnWrite`, `Reply`,
`TcpTimeoutTrigger`, the end of a connection.  A failed `assert()` sets
`aborted` to the assertion's name and nothing happens afterwards.

**Client.**  `TcpAccept`, `TcpRecv` and one action per message in the buffer
(`WorkerSubmit`, `DropMessage`), `TcpRecvReturns`, `TcpRecvEnd`, `TaskDone`
(resolution ends and the answer is sent), `OnWrite`, `OnSessionClose`,
`TcpTimeoutTrigger`.  `Expire` is one way through the last: the tasks that
`session_tasklist_finalize_expired()` ends, and those whose answer is sent.  `overrun`
is a history variable, see below.

**WireBuf.**  The buffer holds positions of the stream instead of bytes, so a
message handed on can be compared with the one that was sent.

**Rplan, Iterate, Validate.**  The library works on one `struct kr_request`, so
its functions are operators from a request record to a request record, named
as in the code.  A query is its position in `r.qry`, where all that were ever
planned stay; `r.pending` and `r.resolved` are the two arrays of the plan;
`r.answ` and `r.auth` the ranked records selected so far, each with the query
it belongs to (`uid`), its rank and whether it is set aside (`yielded`).  Names
are sequences of labels.  `r.state` is what the last layer returned.  A NULL
trust anchor that the code would dereference sets `aborted`.

**Authority.**  A *world* is a tree of zones: which are signed, with opt-out or
an algorithm nobody supports, which server serves which, records and CNAMEs,
the resolver's anchors, the client's question and the contents of the cache.
`Reply` is what a correct server sends, a referral or an answer, with signatures
if the query had the DO bit; `Damaged` are the ways a reply may differ (another
question, truncated, malformed, with one of several rcodes, without signatures
or any DNSSEC records, with other content, a denial).

**Resolve.**  One action per way through `kr_resolve_produce()` (`ProduceResume`
for a deferred answer, `ProduceCached`, `ProduceQuery` up to the label
`ns_election`, then `ElectNs` and `ElectNone` once per round of that loop),
`ConsumeReply` and `ConsumeLost` for `kr_resolve_consume()`, `GiveUp` for the
limits on time, `Finish` for `kr_resolve_finish()`.  `iter` is
`task->iter_count` as `qr_task_step()` counts it.  Other requests fill the
cache and entries expire, so each lookup may find any entry of the world's cache,
or none.

**Zone, Denial.**  A zone is a function from names to what they own; names are
tuples of labels, with 0 for the asterisk, and hashes are numbers in another
order.  `Proof` is what an honest server sends for a denial, a wildcard or a
referral; `NsecNameError`, `Nsec3NoData` and the others are the checks of
`lib/dnssec/nsec.c` and `nsec3.c`, with their flags per record, and return what
the functions return.  The records are put to them in every order.

**Aggressive.**  `rr` are the entries by name and type, `nsec` the records of
the chains by owner or hash, `nsec_p` the parameters of the chains at the apex.
`Ask` is `cache_peek()` with, after a miss, the resolution and `cache_stash()`;
`Peek` follows `peek_nosync()`: exact match, the closest cut, closest encloser,
the search for a covering record, the source of synthesis, the wildcard.
Entries have a rank and a time of expiry.  `AskOverfull` has the cache clear
itself after some of the writes of a reply, or at the list of the apex, `AskOther` brings data that failed
validation under CD, `Resign` gives the zone another chain.

**Cdb.**  Files are inodes that the names `data.mdb` and `lock.mdb` point to.
A process keeps a read and a write transaction and a cursor (`ro`, `rw`,
`ro_curs`), each marked with the inode it belongs to.  `ClearEverything`, then
`Lock`, `Stat`, `UnlinkData`, `UnlinkLock`, `OpenLock`, `OpenData`, `Unlock`,
are `cdb_clear()` with its fallback, one system call at a time; `Version` and
`Stamp` are `assert_right_version()`.  `disturbed` is a history variable: a
process was started while another cleared.

**Lmdb.**  Steps are the stores and loads that other processes can see:
`Claim`, `LoadTxnid`, `StoreTxnid`, `CheckTxnid`, `CopyDbs` of a reader (the
loop of `mdb_txn_renew0()`), `Begin`, `Write`, `Commit` with
`mdb_freelist_save()`, then `WriteDbs`, `WriteTxnid`, `Publish` of
`mdb_env_write_meta()`.  `Crash` may come between any two.

**Btree.**  `Put`, `Del` and `ReadLeq` are whole operations of one transaction
on a tree of pages of bounded size: `mdb_page_split()` with the recursion into
the parents, `mdb_rebalance()`, `mdb_node_move()`, `mdb_page_merge()`, and the
fix-up of the cursors that are on the stack of tracked ones.

**TrustAnchors.**  `TaPresent` and `TaMissing` are the state table, written as
the sequence of tests the code makes; `ActiveRefresh` is a refresh with
`update()` and the writing of the file, `StartFromFile` and `Bootstrap` the two
ways to start.  The operator of the zone publishes, revokes and withdraws keys
by the rules of RFC 5011.

**Nsrep.**  `Elect` and `ElectAddr` are the two elections, `SetNslist` and
`Sort` the forwarding targets, `ResolveAddr` what the resolver does about a
server without addresses, `Reply` and `Timeout` the two sources of scores.  The
constants of `lib/nsrep.h` have their values.

**TlsStream, TlsAuth, Ticket.**  Bytes are numbered in the order GnuTLS pushes
them, so that the order in which they leave can be seen.  Credentials and
parameters are allocated and freed objects; a chain of certificates is kept with
the session data that was made when it was accepted.  `Ticket` computes with
the microseconds of `gettimeofday()`.

**Zimport.**  A zone is a set of RRsets with those that are signed, those
whose signatures fail, and the names in the NS.  `Process` is
`zi_zone_process()` with one made-up answer per RRset.

**Trie, Lru, Queue, Mempool.**  All operations, on the structures of the code
(branches with bitmaps and twigs, counters and hashes of a group, chunks with
indices, chains of chunks), next to the plain map, sequence or set of blocks
that the caller thinks of.

## Runs

| run | module | what it shows |
|---|---|---|
| `subreq_tasks` | `MCSubreq` | `RefCount`: `refs` is the number of holders; `SubreqTable`: `subreq_out` never points to a task that does not lead; `SomeoneSteps`: a timer, a leader or a connection will step each unfinished task; `RConcurrentExact`: the statistic the watermark compares is the number of live requests |
| `worker` | `MCWorker` | `RequestLive`: `Subreq` implements `Request` with its liveness; `RequestLiveTcp`: so does `Upstream`, over TCP and TLS, when only connecting can fail; `AlreadyDecoded`; `ElectionSound`: elections and sorting choose what may be asked, the best first, and leave out what is banned; `TwoStrikes`: two timeouts in a row ban an address; `ZoneImported`: each RRset is offered once, with what proves it; `PoolSound`: blocks never overlap and the pool knows its size; `ContainersSound`: the trie is a sorted map with its searches, the LRU a cache that returns what was written |
| `upstream_maps` | `MCUpstream` | `MapsSound`: the maps point to open sessions of their peer, a late connect never leaves two sessions of one peer in use, and a connected session has nothing waiting; `OnePlace`: a task is on one list at most |
| `upstream_orphan`, `upstream_asserts` | `MCUpstream` | disagreements, below |
| `connection` | `MCConnection` | `SourceAlive`: no request points to a freed session, none is closed with tasks; `ThrottleEnds`: a throttled session reads again or is closed; `StreamDelivered`: each message is delivered whole and in order, with the read that completes it unless messages without a question came before it; `StreamIntact`: what GnuTLS pushed leaves in order, whether at once, in part or queued; `HeldIsAlive`: contexts, credentials and parameters outlive their users and no longer; `PeerIsVerified`: a finished handshake, resumed or not, is with a peer its parameters accept; `QueueIsFifo`: a queue shows its items in order until it is pushed to after it was emptied; `RotatesInTime` |
| `queue` | `Queue` | a disagreement, below |
| `cdb` | `MCCdb` | `HandlesCurrent`: cached transactions and cursor belong to the open file and keep to the assertions; `RemovesOwn`, `SoleWriter`: a clear removes its own file, and a file has one writer; `VersionChecked` |
| `storage` | `MCStorage` | `DatabaseSound`: readers see (with one exception, below) one committed transaction, and at each instant the newer meta page describes a whole database in which no page is lost or doubly used; `TreeHolds`: after any puts and deletes the pages are a search tree with what was put; `LeqIsGreatest` |
| `trust_anchors` | `MCTrustAnchors` | `NoEarlyTrust`: no key is trusted before its hold-down; `TrustEnds`: revoked and withdrawn keys go in bounded time; `NeverStranded`: a proper rollover leaves no process without an anchor |
| `resolve` | `MCLibrary` | `AnswerIsPublished`: a request about secure names that ends DONE has nothing but what was published, and all of it when at most one reply was lost or damaged; `ADIsEarned`: what is sent with AD comes from secure zones; `InsecureIsProven`: nobody marks the client's query insecure who has not shown it; `PlanOrder`: the plan stays a stack and no missing anchor is dereferenced; `HealthyIsAnswered`: without a lost or damaged reply nothing fails, whatever is cached, and with any of them the limit on steps holds and elections end; `CachedIsPublished`: the cache answers only what the zone would; `StashedIsServed`; `DenialAccepted`: every honest proof is accepted, and no choice of the zone's records makes a signed delegation look unsigned |
| `resolve_bogus` | `MCResolve` | a disagreement, below |

Every property of a passing run has a mutant in `PROJECT.json`: a definition
changed as a slip in the code might, under which TLC finds it violated.

## Bounds

- Three tasks and one key are what deduplication needs: a leader, a follower,
  and a third that takes the lead or enqueues while the first two are on the
  stack.  `KR_ITER_LIMIT` 2 allows a follower to go on to a second query;
  `MAX_PENDING` 1 or 2 allows the last wait and one retransmission.
- `Slack` 1 and `SizeT` 8 stand for the `- 10` of the watermark test and the
  width of `size_t`; with up to three requests the subtraction wraps around.
- Two peers, one of them with TLS, and two sessions give late connects a
  competing session to the same peer and a session to another one.
- A plain client that sends up to three messages at once and a TLS client that
  sends two, three queries in all, with a pipeline limit of two: throttling,
  resuming and a batch that outlives its session all occur.
- The buffer has 12 bytes, the header 2 and a question at least 5, so that
  messages of 0 to 11 bytes are empty, too short, only a header, fit once or
  just, or do not fit; every stream of three of them, three bare headers with
  any fourth, and every split into reads is tried.  A full buffer gives
  `max_iterations` 2 while it can hold three bare headers, so that this limit
  ends the loop in some behaviours.
- The resolver is run in twenty-one worlds of up to three zones (the root, one
  signed, one not): separate and shared servers, a server whose address is in
  the insecure zone, both address families, positive and negative answers,
  opt-out, an unsupported algorithm, a negative anchor, CNAMEs into another
  zone and to nothing, CD, each with an empty and most with a filled cache.
- Two replies of a request are lost or damaged, one in the worlds with both
  address families and in most of those with a filled cache (`faults` of the
  world).  That an answer is complete, with the right rcode, does not carry over
  to two: a server that was given up and is asked again, or a target of a CNAME
  that is given up, leaves a NOERROR answer of some of the records, all of them
  true, which may keep its AD bit.  So `AnswerIsPublished` and `ADIsEarned` each
  have a part for any number of faults and one for at most one.
- `KR_ITER_LIMIT` 36 is above what any undamaged request needs (which
  `HealthyIsAnswered` checks), and is reached by damaged ones.
  `KR_QUERY_NSRETRY_LIMIT` 2 and `MAX_REVALIDATION_CNT` 1 are halves of the
  code's values and leave one retry before each limit.
- `Cdb`: two processes, four inodes (two clears with new files), three starts,
  so that one process may be replaced while the other is in a clear.
- `Lmdb`: two processes, four transactions, eleven pages, one crash.  Four
  transactions are what it takes for a page freed by one to be reused while a
  reader of an older one looks.  `View1` leaves out what nobody can see any
  more: the contents of free pages, and numbers of pages in `Btree`.
- `Btree`: seven keys of two sizes in pages that hold two to four nodes: three
  levels of pages, so that splits, merges and moves reach the parents of leaves
  and a root is made and collapsed.
- `TrustAnchors`: two keys, two processes, a hold-down of two hours, seventeen
  hours, one failed refresh: a rollover and all that may follow it.
- `Denial`: all zones of up to two names with data besides the apex, among nine
  names with wildcards.  `Aggressive`: three zones, two operations, new
  signatures of the zone with another chain between them and one step of time,
  in which some entries expire; after each of these every question is put to the
  cache.
- `Nsrep`: a server with two addresses, one with one, two forwarding targets,
  six operations: enough for two timeouts, a ban, its end and a second election.
- `TlsStream`: seven bytes in records of several parts; `TlsAuth`: two sessions,
  two credentials and entries for one address, four operations besides
  handshakes and frees; `Queue`: chunks of three, seven pushes; `Mempool`: a
  chunk of 16 units, five operations; `Ticket`: starts around the halves of
  milliseconds where the rounding turns, and late timers.
- `Zimport`: every subset of three missing and three badly signed RRsets, two
  calls.

Symmetry is used for processes, and for tasks (and peers of a kind, and
sessions), in the runs that check invariants only.

## Fairness

The event loop calls every callback that is due: timers that are armed fire,
sends and writes that were handed to the kernel complete, and a callback once
started returns.  So those actions, and the steps on the C stack, are weakly
fair; in `Client`, where the arrival of messages can keep disabling the end of
a task between two callbacks, strongly fair, since the loop does not pass over
a callback that stays due.  Nothing is assumed of clients and upstreams: no
message, connect or answer need ever come.  In `Upstream` time passes (`Age`)
and a task that asks over UDP comes back, which is what `Subreq` establishes.
`Resolve` assumes no fairness and checks no liveness: every request ends because
`iter` is bounded, and that the limit is not what ends a healthy one, and
that the loop at `ns_election` is short, are parts of `HealthyIsAnswered`.  The
components on disk and the containers have safety properties only, for which no
fairness is needed.  Deadlock is not checked in `cdb`, `storage`, `resolve` and
`trust_anchors`, whose behaviours end at a bound (transactions, starts, hours)
or with the answer.

## Proofs

Eight modules hold theorems.  Twenty-five are listed in `PROJECT.json`; fifteen
of them state, for every value of the constants, a property that a run checks
on an instance, and the four of `TlsProofs` what `MCConnection` combines to its
properties.  Each proof is an inductive invariant that TLC had found true
before, with a lemma for each action.

`SubreqProofs` proves, for any sets of tasks and keys and any limits (only
`SubreqAssumption` is assumed):

| theorem | statement |
|---|---|
| `Inductive` | `Spec => []IInv` |
| `TypeCorrect` | `Spec => []TypeOK` |
| `RefCountExact` | `Spec => []RefCount` |
| `TableSound` | `Spec => []SubreqTable` |
| `FollowersAreIdle` | `Spec => []FollowersIdle` |
| `AllAreStepped` | `Spec => []SomeoneSteps` |
| `FreedAfterFinish` | `Spec => []FreedIsFinished` |

None of these is inductive by itself.  `RefCount` needs to know that a follower
is on one waiting list, once, and that the task on the C stack has given up its
sockets; that a follower is on one list needs the table; the table needs that a
task leads only the key it has out, and that one on the stack is not in it; and
that nothing is lost needs the timer.  `IInv` is `TypeOK` with

- `TaskInv(t)`: all that concerns one task, its references, its sockets and
  timer, what it may be while it leads, follows, is parked, is on the stack or
  is finished;
- `Table`: the entries of `subreq_out`;
- `Unique(waiting)`: no task is twice on the waiting lists;
- `Stack`: the shape of `call`.

An action is about one task, sometimes two (a leader and a follower).  The lemma
`SameInv` says that `TaskInv(x)` is kept when nothing it reads of `x` changed,
so each action's proof has a step for the task it is about and one for all the
others.  The operators the actions share (`Reference`, `Complete`, `Finalize`,
`SubreqFinalize`) have lemmas about their effect; `LastOut` and `OneMore` say
what taking the last task off a waiting list and adding one do to membership.

`SubreqRefinement` goes on from `IInv`.  The lemma `NextShape` reduces a step to
what it does to the life of tasks: one is created, some are finished, references
are given up, nothing.

| theorem | statement |
|---|---|
| `RConcurrentIsExact` | `Spec => []RConcurrentExact`; the set of live requests grows or shrinks by one with the counter |
| `Refines` | `Spec => RequestSpec`: the safety part of `Request`, with the phase of a task as the refinement mapping |
| `NextIsDecoded` | `Spec => []AlreadyDecoded` |

`UpstreamProofs` proves `MapsAreSound`, `Spec => []MapsSound`, under
`UpstreamAssumption` (there are finitely many sessions, as there are
descriptors).  A callback does many things to tasks and one thing to one
session: `NextShape` says that each step is one of thirteen shapes (`Opens`,
`Pushes`, `Sends`, `Retries`, `Ends`, ...), and each shape is shown to keep
`MapsInv`: `PeerInv(p)`, what the maps say of a peer; `SessionInv(s)`, that a
session in use is in a map, with its timer running and on its lists only what
its state allows; and `LoopInv`, that a loop over a list is about a session that
has been taken off the maps.

`UpstreamTasks` proves `TasksHaveOnePlace`, `"write" \notin Faults => (Spec =>
[]OnePlace)`, from `MapsInv` and `TaskInv`: a task that is not finished holds its
primary reference and is being stepped, out over UDP, in one slot of one
session's waiting list or on one task list, never in two of them.  The
hypothesis is needed: a failed write leaves a task in no place, which is what
`upstream_orphan` shows.

`ClientProofs` proves `SourcesAreAlive`, `Spec => []SourceAlive`.  Its invariant
has the references of a task (`TaskInv`), the two directions between a session's
list and the tasks on it (`ListInv`), what a batch in progress may have done to
its session (`RecvInv`), and, while no batch outlived its session, that requests
point to sessions that are open (`Clean`).

`CdbProofs` proves `HandlesAreCurrent`, `ClearsRemoveOwn`, `OneWriter` and
`VersionsAreChecked` for any number of processes, starts and inodes (at least
two, `InodeAssumption`).  The invariant is `EnvInv` of each process (its cached
transactions and cursor belong to the file it has open, and it has one open
outside of the positions of `Closed`); `Files` (what is in use was created, so a
new inode is nobody's); `Writers`, the lock of LMDB; `VersionAt`, what a process
knows of its file's version at each position; and `Alone`, which holds until a
process starts during a clear: the one that clears is alone in holding
`.cachelock`, and both names change together, so that processes with one data
file have one lock file.

`TlsProofs` has theorems about three modules.

- `HeldAreAlive` and `PeersAreVerified`, of `TlsAuth`, for any sessions,
  addresses, credentials, entries and configurations, none of which is called
  `None`.  `AuthInv` ties each count to the cardinality of the set of contexts
  that hold the object, with one reference less when the configuration has
  dropped it (`CredAt`, `EntAt`), and says that session data kept in an entry, or
  offered by a handshake under way, comes from a chain that this very entry
  accepts.
- `CallbacksHaveContext`, of `TlsStream`: the other half of the run's
  `HeldIsAlive`.  `CountInv` adds that the queue is a finite sequence.
- `TicketsRotate`, of `Ticket`, for any lifetime of a key of at least a second,
  any start and any delays: `RotatesInTime` as TLC checks it for a lifetime of
  three seconds.  `RemainSums` does the rounding, with quotients and remainders
  as numbers of their own; `EpochEnds` has the timer fall in another epoch.

`MCConnection` assumes what these theorems assume of the constants, so that the
run evaluates it.

`TrustAnchorsProofs` proves `HoldDown`, `Spec => []NoEarlyTrust`, for any keys,
processes, times and bounds (`ConstantsAssumption`).  `NoEarlyTrust` speaks of
the anchors of running processes only; it is not inductive, as an anchor comes
from an entry of the keyset, which comes from the key file, which another
process wrote.  `HoldInv` says of each entry in the file and in every keyset
what `Held` says: a state that grants trust belongs to an endorsed key or one
published long enough, and the timer of a pending one is no earlier than its
publication plus the hold-down; and that the anchors are what the keyset
publishes.  The lemmas `TaMissingHeld`, `KnownHeld` and `NewKeyHeld` are about
the state table, one test after the other; `UpdatesHeld` about a whole
`update()`; `HoldNext` has a step per action.

It also proves `NobodyIsStranded`, `Spec => []NeverStranded`, and `TrustDoesEnd`,
`Spec => []TrustEnds`, if the zone has a key at the start and the hold-down time,
thirty days in the code, is not zero.  These are about times, and a keyset lags
behind the zone by a time that depends on when its process was last refreshed,
which is nowhere in the state.  The time `R` of the next refresh is: a keyset was
refreshed no earlier than `R` less the longest delay, and each failed refresh
put `R` off by one retry delay at most.  So `Timed` bounds, for each state an
entry may be in, `R` by the time its key was published or left the zone, the
delays on the way through the state table and the retries of all processes
together (`Spent`).  A process that starts takes its keyset from the file, and so
from another process, whose next refresh is later than now; `RollInv` therefore
says that the file is the keyset of a running process, or the first file.  And it
says that some key is established, present for so long that `Timed` leaves its
entry no state but Valid, which is why an operator who waits strands nobody and
why no refresh fails for want of an anchor.  `RefreshTimed` has a case for each
state of an entry, `TimedLeaves` is about a key that leaves, `TimedLater` about
time and failures.

Only model-checked:

- liveness: `RequestLive`, `RequestLiveTcp`, `ThrottleEnds` (TLAPS 1.4.5 does
  not handle `ENABLED`); for `Upstream` this includes the refinement of `Request`
  under fairness;
- `StreamDelivered`, `StreamIntact`, `QueueIsFifo`, whose statements are about
  folds and recursive functions over sequences: the provers have no induction
  over data;
- the resolver, the checks of denials and the cache layer (`resolve`,
  `resolve_bogus`), LMDB and its tree (`storage`), and of `worker` the elections,
  import, pool, trie and LRU: their operators are recursive, which the prover
  cannot reason about, or are run against a reference definition on all small
  inputs, which is a statement about those inputs.

## Where code and comments disagree

Four are runs that must fail:

- `upstream_orphan`: when a write to an upstream fails, `qr_task_on_send()`
  takes the task off the session's task list (worker.c:531) and no callback
  knows of it any longer; the request ends only if its client goes away, where
  `lib/defines.h:63` promises an upper limit for its resolution time.
- `upstream_asserts`: `worker_end_tcp()` asserts that a task on the waiting
  list has another reference (worker.c:1744).  A task whose client's session
  timed out while it waited for a TLS handshake has none.
- `resolve_bogus`: `answer_finalize()` says "Always set SERVFAIL for bogus
  answers" (lib/resolve.c:572), but `kr_resolve_finish()` does not call it when
  `request->state` is FAIL (lib/resolve.c:1594).  `kr_resolve_consume()` resets
  that state, `kr_resolve_produce()` does not: a negative answer that was
  deferred and then found bogus ends as NXDOMAIN, with the AD bit it was given
  when the question came in.  `AnswerIsPublished` and `ADIsEarned` are about
  requests that end DONE.
- `queue`: `queue_pop()` of the only item frees the chunk and leaves `q->tail`
  (lib/generic/queue.h:214).  A later `queue_push()` writes to freed memory, an
  item no walk from the head finds; a later `queue_push_head()` fails
  `assert(!q->tail && !q->len)` (queue.c:98).  queue.h:18 calls it "usable for
  FIFO and LIFO simultaneously" and asks only that a popped queue be not empty.
  The worker's waiting lists are emptied when their session ends or connects;
  `Upstream` shows one way to a push after that, the third item of the next list
  (`LongIdle`).

Others are met in passing runs, whose properties are stated so as to hold:

- `subreq_finalize()` hands the 0x20 secret to one follower, "Next will be
  already decoded" (worker.c:1100).  A follower that is past its time limit, or
  refused for lack of descriptors, does not decode the reply, and the next gets
  it encoded.  `AlreadyDecoded` holds while neither occurs.
- `session_tls_hs_cb()` asserts an empty task list after a failed send
  (worker.c:785), though tasks before the failed one have been sent.
- After a failed handshake with nothing waiting, "it MUST be unsuccessful
  rehandshake" (worker.c:709).  With `net.tcp_in_idle()` above
  `MAX_TCP_INACTIVITY` the session's timer can fail the waiting tasks of a
  first handshake and leave the session open.  These two are outside the
  `Faults` and `LongIdle` of `worker`.
- `session_wirebuf_process()` has as many turns as the buffer has room for
  messages with a question (`max_iterations`), but a bare header parses too: when
  it runs out of turns a complete message waits for a read that may never come.
  `StreamDelivered` allows that case alone.
- `session_wirebuf_process()` goes on submitting messages after a failed answer
  closed their session, up to the assertion at worker.c:1168.  In `Client` such
  a batch sets `overrun`; `SourceAlive` holds without it.
- With `net.tcp_pipeline(1)` the watermark `tcp_pipeline_max / 2` is zero, and a
  session throttled by its first query is resumed by nothing
  (worker.c:541, `daemon/bindings/net.rst:184`).  `ThrottleEnds` is for limits
  of two and more.

Some more, met while the other parts were modelled:

- **Trust anchors.**  A key revoked while AddPend is trusted for one refresh when
  its timer expires (`AddTime` does not look at the revoked bit), where ta.c:60
  says "Accept only keys with Zone and SEP flags that aren't revoked".  A DS of
  a bootstrap whose key is revoked before its DNSKEY was seen counts as missing.
  Both are the exceptions in `TrustEnds`.  Keys in state Revoked that left the
  zone never become Removed.
- **Cache database.**  The recovery of `cdb_write()` from `MDB_TXN_FULL` tests
  its results the wrong way round (cdb_lmdb.c:508).  A process that starts
  while another clears takes `.cachelock` away, after which two processes may
  write one `data.mdb` under two lock files; `RemovesOwn` and `SoleWriter` hold
  without that.  `kr_cache_open()` ignores a failed version check.
  `cdb_read_leq()` finds nothing for a key after the last one, where its
  description is "Less-or-equal search".
- **LMDB.**  "readers will get consistent data regardless of how fresh or how
  stale their view of these values is" (mdb.c:3887): not a reader that copies a
  meta page between the writes of a transaction whose process is killed before
  it writes the number.  `DatabaseSound` excludes such a reader.
- **Cache layer.**  A name whose hash is before all hashes of its chain is not
  found covered by the last record; with opt-out, answers from wildcards are not
  used again; a chain of one NSEC3 covers nothing.  `packet_ttl()` leaves
  packets without negative data with the least TTL.  All cost a query, no more.
- **Proofs of non-existence.**  An empty non-terminal whose covering NSEC
  belongs to a wildcard is judged bogus; `DenialAccepted` excludes it.
- **LRU.**  "This tracking is done for *more* keys than those that are actually
  stored" (lru.h): the tracked hashes are only filled by swaps, so that at first
  only hash 0 is tracked.
- **Reputation.**  `kr_nsrep_sort()` compares with `KR_NS_FWD_TIMEOUT` where its
  description names `KR_NS_TIMEOUT`; the ban of an address is renewed by elections
  that did not ask it; `set_nslist()` fills three places of four.
- **TLS.**  "NULL pointer also means empty" (tls.h:83), but
  `tls_client_param_remove()` gives it to `trie_del()`; the errors of
  `net_tls_client()` free the new entry without what it holds; a comparison of
  pins is assigned to the result for CA files, which only affects a warning.
- **Zone import.**  "Reset all fields in the zone import context to their
  default values" (zimport.c:104): the origin stays, pointing into the flushed
  pool, so that a good file may be refused after one with an error.  The trust
  anchor is taken when the file is parsed and used 100 ms later; when it was
  updated meanwhile (`AnchorChanges`) the outcome is open.  DS and glue that went
  along with a referral that failed stay marked and are not imported.
- **Tickets.**  The epoch is noted before a new key is generated, so that a
  failure keeps the old key for the whole epoch.

## Not modelled

In the modelled parts: failures of allocation; the tail call after
`kr_resolve_checkout()` fails (worker.c:1496), which is a step like any other;
the choice of message ids; answers to UDP clients that fail at once; more than
one task of a client's connection in `Subreq` and `Upstream` (`Client` has it).
A TLS write calls its callback before it returns.

In the resolver: forwarding and stub mode; wildcards; queries for ANY and with
RD=0; more than one server of a zone, address of a server or CNAME of a packet;
`ALWAYS_CUT`; round-trip times and reputation (in `Resolve` any server of a cut
may be elected; `Nsrep` is about which); empty non-terminals in the cache;
modules other than iterate, validate and cache.  Signatures, keys and proofs of non-existence are facts
about a record or packet (`good`, `true`, `proof`), not computed.

In the cache: serialisation of keys and entries, stale answers, more than two
chains of a zone, limits on removal of a subtree; a failing reopen after a
clear.  In LMDB: nested transactions, duplicates and sub-databases, which kresd
does not use; spilling of dirty pages; what a crash of the operating system
leaves of an unsynced map.  In TLS: input and its decryption, which is
GnuTLS's; errors of the socket are permanent.  In the trust anchors: collisions
of key tags, long downtimes, keys added by hand.  In the pool: blocks of no
bytes, buffers that grow across other calls.  In the import: zones other than the
root, which are refused, and a file without a record.  Clocks go forward.

Whole parts, with the reason:

- **Forwarding and stub mode** of the resolver (`forward_trust_chain_check()`,
  `unsigned_forward()`): the upstream is then a resolver, whose replies
  depend on the whole tree of zones; the worlds of `Authority` describe name
  servers.
- **Cookies, hints, policy, statistics** and other modules: layers that rewrite
  or count answers and keep no state the core depends on.
- **Listening addresses, command line, Lua bindings, loading of modules**: run
  at start-up, or to completion between callbacks, in calls of the system, of
  Lua and of the dynamic linker.
- **Formatting, hashing, random numbers** (`lib/utils.c` in the main), signatures
  (`lib/dnssec/signature.c`) and the other contributed libraries: functions
  of data the models abstract from.

"components" in `PROJECT.json` lists every part with its modules and status.
