----------------------------- MODULE MCWorker -------------------------------
(* Subreq, Upstream and other parts of a worker, for TLC.  A behaviour is   *)
(* one of one part: the variables of the others stay as they are.  Those of *)
(* Subreq and Upstream never stop; the behaviours of the other parts are    *)
(* bounded and may end.                                                     *)
EXTENDS Subreq

CONSTANTS Peer, Session, NoSession, TlsPeer, TcpSources, Faults, LongIdle, TCP_PIPELINE_MAX,
          TcpIterLimit, TcpTimeoutLimit,
          Nsset, AddrsOf, V6, Targets, Elapsed, Pauses, Interval, MaxElections,
          Zones, Order, MaxImports,
          chunk_size, Header, MP_CHUNK_TAIL, CPU_STRUCT_ALIGN, StateSize, Sizes, MaxOps,
          TrieKeys, Nibble,
          LruKeys, LruHash, LruValues, LRU_ASSOC, LRU_TRACKED, MaxCount

VARIABLES part,
          tcp_waiting, tcp_connected, session, peer, waitinglist, tasklist, timeout, writes,
          tcp_created, tcp_finished, tcp_primary, on_udp, tcp_timeouts, tcp_iter_count, tcp_old,
          tcp_source, tcp_registered, tcp_answering, loop, now, aborted,
          cut, opts, ns, cache_rtt, cache_rep, await, asked, clock, elections, strikes, choice,
          z_import, import_timer, anchor, cached, import, imports,
          size, state, unused, last_big, idx, total_size, blocks, newest, ops,
          root, weight, contents,
          counts, hashes, items, written, refused

U == INSTANCE Upstream WITH
       Sources <- TcpSources, KR_ITER_LIMIT <- TcpIterLimit, KR_TIMEOUT_LIMIT <- TcpTimeoutLimit,
       state <- session, timer <- timeout, created <- tcp_created, finished <- tcp_finished,
       primary <- tcp_primary, timeouts <- tcp_timeouts, iter_count <- tcp_iter_count,
       old <- tcp_old, source <- tcp_source, registered <- tcp_registered,
       answering <- tcp_answering
N == INSTANCE Nsrep WITH now <- clock, ops <- elections, last <- choice, MaxOps <- MaxElections
Z == INSTANCE Zimport WITH last <- import, timer <- import_timer
P == INSTANCE Mempool
T == INSTANCE Trie WITH Keys <- TrieKeys
L == INSTANCE Lru WITH Keys <- LruKeys, Hash <- LruHash, Values <- LruValues

uvars == <<tcp_waiting, tcp_connected, session, peer, waitinglist, tasklist, timeout, writes,
           tcp_created, tcp_finished, tcp_primary, on_udp, tcp_timeouts, tcp_iter_count, tcp_old,
           tcp_source, tcp_registered, tcp_answering, loop, now, aborted>>
nvars == <<cut, opts, ns, cache_rtt, cache_rep, await, asked, clock, elections, strikes, choice>>
zvars == <<z_import, import_timer, anchor, cached, import, imports>>
pvars == <<size, state, unused, last_big, idx, total_size, blocks, newest, ops>>
tvars == <<root, weight, contents>>
lvars == <<counts, hashes, items, written, refused>>

\* Nsrep: a server with two addresses and one with an address, and two
\* forwarding targets.
MCNsset == <<"s1", "s2">>
MCAddrsOf == [s1 |-> <<"a4", "a6">>, s2 |-> <<"b6">>]
MCV6 == {"a6", "b6", "f6"}
MCTargets == <<"f4", "f6">>

\* Zimport: a signed delegation with glue and an unsigned one.  A zone may lack
\* an RRset, and have one whose signature does not verify.
MCOrder == << <<".", "DNSKEY">>, <<".", "NS">>, <<".", "NSEC">>, <<".", "SOA">>, <<"a", "DS">>,
              <<"a", "NS">>, <<"a", "NSEC">>, <<"b", "NS">>, <<"b", "NSEC">>, <<"n", "A">>, <<"n", "AAAA">> >>
MCZones ==
  LET all == {MCOrder[i] : i \in DOMAIN MCOrder}
      Signed(rr) == rr[1] # "n" /\ ~(rr[2] = "NS" /\ rr[1] # ".")
  IN {[rrsets |-> all \ gone, signed |-> {rr \in all \ gone : Signed(rr)},
       names |-> [o \in {".", "a", "b"} |-> IF o = "." THEN {"r"} ELSE {"n"}], bad |-> bad] :
        gone \in SUBSET {<<".", "DNSKEY">>, <<"a", "DS">>, <<"n", "A">>},
        bad \in SUBSET {<<".", "DNSKEY">>, <<"a", "DS">>, <<"b", "NSEC">>}}

\* Trie: keys that are prefixes of others, and that differ in either nibble.
MCTrieKeys ==
  {<<>>, <<0>>, <<1>>, <<2>>, <<3>>, <<0, 0>>, <<0, 2>>, <<1, 3>>, <<1, 2>>, <<2, 0>>,
   <<2, 0, 1>>, <<2, 0, 3>>}

\* Lru: two keys of one hash.
MCLruHash == <<0, 1, 1>>

MCInit ==
  /\ Init /\ U!Init /\ N!Init /\ Z!Init /\ P!Init /\ T!Init /\ L!Init
  /\ part \in {"subreq", "upstream", "nsrep", "import", "pool", "trie", "lru"}
  /\ part # "upstream" => \A s \in Session : peer[s] \in TlsPeer
  /\ part # "nsrep" => /\ \A s \in N!Servers : cut[s] = <<>>
                       /\ \A f \in DOMAIN opts : ~opts[f]

MCNext ==
  \/ part = "subreq" /\ Next /\ UNCHANGED <<part, uvars, nvars, zvars, pvars, tvars, lvars>>
  \/ part = "upstream" /\ U!Next /\ UNCHANGED <<part, vars, nvars, zvars, pvars, tvars, lvars>>
  \/ part = "nsrep" /\ N!Next /\ UNCHANGED <<part, vars, uvars, zvars, pvars, tvars, lvars>>
  \/ part = "import" /\ Z!Next /\ UNCHANGED <<part, vars, uvars, nvars, pvars, tvars, lvars>>
  \/ part = "pool" /\ P!Next /\ UNCHANGED <<part, vars, uvars, nvars, zvars, tvars, lvars>>
  \/ part = "trie" /\ T!Next /\ UNCHANGED <<part, vars, uvars, nvars, zvars, pvars, lvars>>
  \/ part = "lru" /\ L!Next /\ UNCHANGED <<part, vars, uvars, nvars, zvars, pvars, tvars>>
  \/ /\ part \notin {"subreq", "upstream"}
     /\ UNCHANGED <<part, vars, uvars, nvars, zvars, pvars, tvars, lvars>>

MCSpec ==
  /\ MCInit /\ [][MCNext]_<<part, vars, uvars, nvars, zvars, pvars, tvars, lvars>>
  /\ Fairness /\ U!Fairness

-----------------------------------------------------------------------------

\* Requests over TCP and TLS are finished once, and released in the end
\* (Upstream).
RequestLiveTcp == U!RequestLive

\* Elections and the sorting of forwarding targets choose what may be asked,
\* the best of it first (Nsrep).
ElectionSound == part = "nsrep" => N!ElectionSound /\ N!SortSound

\* A server that timed out twice in a row is avoided (Nsrep).
TwoStrikes == part = "nsrep" => N!TwoStrikes

\* An import offers every RRset of the zone once (Zimport).
ZoneImported == part = "import" => Z!ZoneImported

\* Blocks of a pool do not overlap, and it knows its size (Mempool).
PoolSound == part = "pool" => P!PoolSound

\* The trie is the sorted map, and the LRU the cache, that they claim to be (Trie,
\* Lru).
ContainersSound == (part = "trie" => T!TrieIsMap) /\ (part = "lru" => L!LruIsCache)
=============================================================================
