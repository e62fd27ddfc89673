------------------------------ MODULE Resolve -------------------------------
(***************************************************************************)
(* The resolver driver, lib/resolve.c, in iterative mode: kr_resolve_begin *)
(* to kr_resolve_finish for one request, over the layers of Iterate and    *)
(* Validate and the zone cuts and anchors of Rplan.                        *)
(*                                                                         *)
(* "phase" is what the driver's functions return to qr_task_step():        *)
(*   PRODUCE  kr_resolve_produce() is to be called;                        *)
(*   ELECT    inside it, at the label ns_election;                         *)
(*   CONSUME  a packet is out, kr_resolve_consume() comes next;            *)
(*   DONE, FAIL  kr_resolve_finish() is to be called with this state;      *)
(*   LIMIT    the same, with FAIL, as the request has hit a limit;         *)
(*   "finished"  the answer is complete.                                   *)
(*                                                                         *)
(* Other requests fill the cache and entries expire, so that every lookup  *)
(* may find any of the entries that the world allows, or none.  The rtt    *)
(* and reputation of servers are left out: every server of a cut may be    *)
(* elected.                                                                *)
(***************************************************************************)
EXTENDS Authority

CONSTANTS Worlds,         \* the worlds a request may run in
          KR_ITER_LIMIT   \* how often kr_resolve_produce() may be called

VARIABLES r, phase,
          iter,    \* task->iter_count
          rounds,  \* ns_election_iter, 0 outside kr_resolve_produce()
          faults   \* how many replies have been lost or damaged

vars == <<r, phase, iter, rounds, faults>>

-----------------------------------------------------------------------------
(* kr_resolve_begin() and resolve_query(): the first query is planned.      *)

NewRequest(w) ==
  [w |-> w, qry |-> <<>>, pending |-> <<>>, resolved |-> <<>>, answ |-> <<>>,
   auth |-> <<>>, state |-> "PRODUCE", rcode |-> "NOERROR", ad |-> FALSE,
   aborted |-> FALSE]

ResolveQuery(w) ==
  LET asked == Push(NewRequest(w), 0, w.question[1], w.question[2])
      want == TaCoversQry(asked, w.question[1], w.question[2])
  IN [Set(asked, 1, {"AWAIT_CUT"} \cup (IF want THEN {"DNSSEC_WANT"} ELSE {}))
        EXCEPT !.ad = want /\ ~w.cd]

-----------------------------------------------------------------------------
(* Layers, and answers that wait for something.                             *)

SetYield(x, i, y) ==
  LET set(arr) == [k \in DOMAIN arr |->
                     IF arr[k].uid = i THEN [arr[k] EXCEPT !.yielded = y] ELSE arr[k]]
  IN [x EXCEPT !.answ = set(@), !.auth = set(@)]

\* consume_yield()
ConsumeYield(x, i, p) ==
  IF x.state = "YIELD"
  THEN SetYield([x EXCEPT !.qry[i].deferred = <<p>> \o @], i, TRUE) ELSE x

\* The consume callbacks of the iterator and the validator, in that order.
Iterated(x, i, p) == ConsumeYield(ValidateConsume(x, i, p), i, p)

ConsumeLayers(x, i, p) ==
  LET it == IterateConsume(WithState(x, "CONSUME"), i, p)
  IN Iterated(it, i, IterateAA(it, i, p))

\* A deferred answer has been through the validator again.
Resumed(x, i, p) ==
  IF x.state = "YIELD" THEN ConsumeYield(x, i, p)
  ELSE [x EXCEPT !.qry[i].deferred = Tail(@)]

InvalidateNs(x, i) == [x EXCEPT !.qry[i].cut = CutDel(@, x.qry[i].nsname)]

-----------------------------------------------------------------------------
(* Zone cuts and their trust.                                               *)

\* zone_cut_subreq(): within the cut of the parent
ZoneCutSubreq(x, i, name, type) ==
  LET cut == x.qry[i].cut
      next == Push(x, i, name, type)
      j == Len(next.qry)
  IN Set([next EXCEPT !.qry[j].cut = CutCopyTrust(CutCopy(EmptyCut(cut.name), cut), cut)],
         j, {"NO_MINIMIZE"} \cup (x.qry[i].flags \cap {"DNSSEC_WANT"}))

\* trust_chain_check(): a missing DS or DNSKEY is planned (then it returns
\* DONE, else PRODUCE).
TrustChainCheck(x, i) ==
  LET name == x.qry[i].cut.name
      gone == \/ name \in x.w.negative
              \/ Has(x, i, "DNSSEC_NODS")
      safe == Clear(IF gone THEN GoInsecure(x, i) ELSE x, i, {"DNSSEC_NODS"})
      anchor == ~x.w.cd /\ name \in x.w.anchors
      here == IF anchor
              THEN [Set(safe, i, {"DNSSEC_WANT"}) EXCEPT !.qry[i].cut.ta = name]
              ELSE safe
      want == Has(here, i, "DNSSEC_WANT") /\ ~x.w.cd
      cut == here.qry[i].cut
      ds == Push(here, i, name, "DS")
  IN IF want /\ cut.ta # name
     THEN Set(ds, Len(ds.qry), {"AWAIT_CUT", "DNSSEC_WANT"})
     ELSE IF want /\ cut.key # cut.ta /\ ~Satisfies(here, i, cut.ta, "DNSKEY")
     THEN ZoneCutSubreq(here, i, cut.ta, "DNSKEY")
     ELSE here

Planned(x, y) == Len(y.qry) > Len(x.qry)

\* fetch_ns(): the parent waits for an address, and the NS is not usable for
\* that: the test of its bailiwick is false only for the cut's own name.
Cycled(x, i, ns) ==
  LET parent(j) == x.qry[j].parent
      waits(j) == \/ Has(x, parent(j), "AWAIT_CUT") /\ x.qry[j].stype = "NS"
                  \/ Has(x, parent(j), "AWAIT_IPV4") /\ x.qry[j].stype = "A"
                  \/ Has(x, parent(j), "AWAIT_IPV6") /\ x.qry[j].stype = "AAAA"
      up[j \in 0..Len(x.qry)] ==
        IF j = 0 \/ parent(j) = 0 THEN FALSE
        ELSE waits(j) /\ (ns # x.qry[parent(j)].cut.name \/ up[parent(j)])
  IN up[i]

\* kr_zonecut_find_cached(): the cuts a lookup may end at; an entry has the
\* zone, "insecure" for its rank, and which of DS, DNSKEY and addresses are
\* cached with it.
FoundCuts(x, i, name) ==
  {c \in x.w.cuts : InBailiwick(name, c.zone)
                    /\ (c.addr \/ ~Cycled(x, i, x.w.nsof[c.zone]))}

CutFound(x, c, secured) ==
  LET ns == {x.w.nsof[c.zone]}
      trust == (secured /\ ~c.insecure) \/ c.zone = Root
  IN [EmptyCut(c.zone) EXCEPT
        !.ta = IF trust /\ c.ds THEN c.zone ELSE NoName,
        !.key = IF trust /\ c.key THEN c.zone ELSE NoName,
        !.ns = ns, !.addr = IF c.addr THEN ns ELSE {}]

\* "It can occur that here parent query already have provably insecured
\* zonecut which not in the cache yet."
IsInsecured(x, i) ==
  LET p == x.qry[i].parent
  IN /\ p # 0 /\ ~AwaitsAddress(x, p)
     /\ Has(x, p, "DNSSEC_INSECURE") \/ Has(x, p, "DNSSEC_NODS")

\* ns_fetch_cut(), before the lookup
FetchCutBegin(x, i) ==
  IF IsInsecured(x, i) THEN GoInsecure(x, i)
  ELSE IF TaCoversQry(x, x.qry[i].cut.name, "NS") THEN Set(x, i, {"DNSSEC_WANT"})
  ELSE Clear(x, i, {"DNSSEC_WANT"})

\* ... and when it has found c
FetchCutEnd(x, i, c) ==
  LET secured == ~IsInsecured(x, i) /\ ~c.insecure
      gone == IF Has(x, i, "DNSSEC_WANT") /\ ~secured THEN GoInsecure(x, i) ELSE x
      flagged == IF ~Has(gone, i, "DNSSEC_INSECURE") /\ TaCoversQry(x, c.zone, "NS")
                 THEN Set(gone, i, {"DNSSEC_WANT"}) ELSE Clear(gone, i, {"DNSSEC_WANT"})
  IN [flagged EXCEPT !.qry[i].cut = CutFound(x, c, ~IsInsecured(x, i))]

\* Neither a key nor an address: the lookup goes on one label up.
Useless(x, i) ==
  Has(x, i, "DNSSEC_WANT") /\ x.qry[i].cut.key = NoName /\ CutIsEmpty(x.qry[i].cut)

\* zone_cut_check(): the name the lookup of the cut starts from
RequestedName(x, i) ==
  LET q == x.qry[i]
      parent == x.qry[q.parent].cut.name
  IN IF q.parent # 0
     THEN IF parent # Root /\ InBailiwick(q.sname, parent) THEN Encloser(parent)
          ELSE q.sname
     ELSE IF q.stype = "DS" /\ q.sname # Root THEN Encloser(q.sname) ELSE q.sname

\* What the lookup makes of the query: the root hints, or a cached cut.
CutLookups(x, i) ==
  LET b == FetchCutBegin(x, i)
      hints == [b EXCEPT !.qry[i].cut = SetSbelt(x, @)]
      found == {FetchCutEnd(b, i, c) : c \in FoundCuts(b, i, RequestedName(x, i))}
  IN {[hint |-> TRUE, x |-> Clear(hints, i, {"AWAIT_CUT"})]}
     \cup {[hint |-> FALSE, x |-> Clear(f, i, {"AWAIT_CUT"})] :
             f \in {g \in found : ~Useless(g, i)}}

-----------------------------------------------------------------------------
(* The end of a request.                                                    *)

Wired(x) == {x.answ[k] : k \in {m \in DOMAIN x.answ : x.answ[m].to_wire}}
WiredAuthority(x) == {x.auth[k] : k \in {m \in DOMAIN x.auth : x.auth[m].to_wire}}

\* Opt-out is only looked for along the CNAME chain.
SecureAnswerOptout(x, state) ==
  LET last == Last(x.resolved)
      sets == {e \in Wired(x) \cup WiredAuthority(x) : e.type # "RRSIG"}
      all_cnames == \A e \in Wired(x) : "CNAME" \in {e.type, e.covers}
      negative == x.rcode = "NXDOMAIN" \/ Wired(x) = {} \/ all_cnames
  IN /\ x.resolved # <<>> /\ state = "DONE"
     /\ \A e \in sets : e.rank = "SECURE"
     /\ negative => /\ Has(x, last, "DNSSEC_WANT") /\ ~Has(x, last, "DNSSEC_BOGUS")
                    /\ ~Has(x, last, "DNSSEC_INSECURE")
     /\ \A c \in CnameChain(x, x.qry[last].cname_parent) : ~Has(x, c, "DNSSEC_OPTOUT")

\* The AD bit that answer_finalize() leaves for a request that ends with state.
SecureAnswer(x, state) ==
  LET last == Last(x.resolved)
      sets == {e \in Wired(x) \cup WiredAuthority(x) : e.type # "RRSIG"}
      all_cnames == \A e \in Wired(x) : "CNAME" \in {e.type, e.covers}
      negative == x.rcode = "NXDOMAIN" \/ Wired(x) = {} \/ all_cnames
  IN /\ x.resolved # <<>> /\ state = "DONE"
     /\ ~Has(x, last, "DNSSEC_OPTOUT")
     /\ \A e \in sets : e.rank = "SECURE"
     /\ negative => /\ Has(x, last, "DNSSEC_WANT") /\ ~Has(x, last, "DNSSEC_BOGUS")
                    /\ ~Has(x, last, "DNSSEC_INSECURE")
     /\ \A c \in CnameChain(x, x.qry[last].cname_parent) : ~Has(x, c, "DNSSEC_OPTOUT")

AnswerFail(x) == [x EXCEPT !.answ = <<>>, !.auth = <<>>, !.ad = FALSE, !.rcode = "SERVFAIL"]

AnswerFinalize(x, state) ==
  IF /\ state = "FAIL" /\ x.pending # <<>>
     /\ {"DNSSEC_WANT", "DNSSEC_BOGUS"} \subseteq x.qry[Top(x)].flags
  THEN AnswerFail(x)
  ELSE [x EXCEPT !.ad = @ /\ SecureAnswer(x, state)]

\* kr_resolve_finish(): a layer that failed keeps answer_finalize() from running,
\* and then no records are written either.
ResolveFinish(x, state) ==
  LET end == IF x.state = "FAIL" THEN "FAIL" ELSE state
      answer == IF x.state = "FAIL" THEN [x EXCEPT !.answ = <<>>, !.auth = <<>>]
                ELSE AnswerFinalize(x, state)
  IN WithState(IF end # "DONE" /\ answer.rcode = "NOERROR"
               THEN [answer EXCEPT !.ad = FALSE, !.rcode = "SERVFAIL"] ELSE answer, end)

-----------------------------------------------------------------------------
(* Name servers.                                                            *)

\* ns_resolve_addr(): the type to ask for next, "none" when both were tried
NextType(x, i) ==
  IF ~Has(x, i, "AWAIT_IPV6") /\ "NO_IPV6" \notin x.w.options THEN "AAAA"
  ELSE IF ~Has(x, i, "AWAIT_IPV4") /\ "NO_IPV4" \notin x.w.options THEN "A"
  ELSE "none"

\* A query for the address; below the root it starts from its own cut.
AskAddress(x, i, type) ==
  LET awaiting == Set(x, i, {IF type = "A" THEN "AWAIT_IPV4" ELSE "AWAIT_IPV6"})
      next == Push(awaiting, i, x.qry[i].nsname, type)
      j == Len(next.qry)
      cut == x.qry[i].cut
  IN IF cut.name = Root
     THEN [next EXCEPT !.qry[j].cut = CutCopyTrust(SetSbelt(x, @), cut),
                       !.qry[i].cut = SetSbelt(x, @)]
     ELSE Set(next, j, {"AWAIT_CUT"})

\* The server has no address: back to the election without it.
Unresolvable(x, i, type) ==
  LET left == IF type = "none" /\ x.qry[i].cut.name = Root
              THEN [x EXCEPT !.qry[i].cut = SetSbelt(x, @)]
              ELSE InvalidateNs(x, i)
  IN [Clear(left, i, {"AWAIT_IPV4", "AWAIT_IPV6", "TCP"}) EXCEPT !.qry[i].nsname = NoName]

\* A new server is elected unless one is waited for or tried again over TCP, when
\* the address it has been given stays.
Electing(x, i) == ~AwaitsAddress(x, i) /\ (x.qry[i].nsname = NoName \/ ~Has(x, i, "TCP"))

Electable(x, i) ==
  IF x.qry[i].sname = Root /\ x.qry[i].stype = "DNSKEY"
  THEN [x EXCEPT !.qry[i].cut = SetSbelt(x, @)] ELSE x

\* The plans kr_nsrep_elect_addr() or kr_nsrep_elect() may leave.
WithNs(x, i, n) == [x EXCEPT !.qry[i].nsname = n, !.qry[i].nsaddr = n \in x.qry[i].cut.addr]

Elected(x, i) ==
  IF Electing(x, i)
  THEN {WithNs(Electable(x, i), i, n) : n \in Electable(x, i).qry[i].cut.ns}
  ELSE IF AwaitsAddress(x, i) THEN {WithNs(x, i, x.qry[i].nsname)} ELSE {x}

-----------------------------------------------------------------------------
Producing == phase = "PRODUCE" /\ ~RplanEmpty(r)

\* kr_resolve_produce() returns: qr_task_step() counts the call, and past the
\* limit finishes the request whatever came of it.
Return(state) ==
  /\ iter' = iter + 1 /\ rounds' = 0
  /\ phase' = IF iter + 1 > KR_ITER_LIMIT THEN "LIMIT" ELSE state

\* A round of ns_election begins, unless there were too many.
Election ==
  LET converging == rounds + 1 < KR_ITER_LIMIT
  IN /\ phase' = IF converging THEN "ELECT" ELSE "FAIL"
     /\ rounds' = IF converging THEN rounds + 1 ELSE 0
     /\ iter' = IF converging THEN iter ELSE iter + 1

Init == /\ r \in {ResolveQuery(w) : w \in Worlds}
        /\ phase = "PRODUCE" /\ iter = 0 /\ rounds = 0 /\ faults = 0

\* After the layers, in kr_resolve_produce(): FAIL is returned as it is, and
\* anything but CONSUME ends this round.
Produced(x, i) ==
  LET left == IF Has(x, i, "RESOLVED") /\ x.state # "YIELD" THEN Pop(x, i) ELSE x
  IN IF x.state = "FAIL" THEN r' = x /\ Return("FAIL")
     ELSE /\ r' = WithState(left, "PRODUCE")
          /\ Return(IF RplanEmpty(left) THEN "DONE" ELSE "PRODUCE")

\* kr_resolve_produce() with an answer that waits: the trust chain first.
ProduceResume ==
  /\ Producing /\ r.qry[Top(r)].deferred # <<>>
  /\ LET i == Top(r)
         t == TrustChainCheck(r, i)
         p == Head(r.qry[i].deferred)
         v == ValidateConsume(SetYield(WithState(t, "YIELD"), i, FALSE), i, p)
     IN IF Planned(r, t) THEN r' = t /\ Return("PRODUCE") ELSE Produced(Resumed(v, i, p), i)
  /\ UNCHANGED faults

\* The produce callbacks of the iterator and the cache, which looks once.
Prepared(x, i) ==
  LET q == PrepareQuery(x, i)
  IN IF x.qry[i].stype = "RRSIG" THEN q ELSE Set(q, i, {"CACHE_TRIED"})

\* kr_resolve_produce() with an answer from the cache
ProduceCached ==
  /\ Producing /\ r.qry[Top(r)].deferred = <<>>
  /\ LET i == Top(r)
         q == r.qry[i]
         p == CachedPacket(r.w, q.sname, q.stype)
         hit == Clear(Set(Prepared(r, i), i, {"CACHED", "NO_MINIMIZE"}),
                      i, {"DNSSEC_INSECURE", "DNSSEC_OPTOUT"})
         flagged == IF p.rank = "INSECURE" THEN GoInsecure(hit, i)
                    ELSE IF p.proof = "optout" THEN Set(hit, i, {"DNSSEC_OPTOUT"}) ELSE hit
     IN /\ <<q.sname, q.stype>> \in r.w.cached
        /\ ~Has(r, i, "CACHE_TRIED")
        /\ Produced(ConsumeLayers(flagged, i, p), i)
  /\ UNCHANGED faults

\* kr_resolve_produce() up to the label ns_election
ProduceQuery ==
  /\ Producing /\ r.qry[Top(r)].deferred = <<>>
  /\ LET i == Top(r)
         q == Prepared(r, i)
         chained(x) == /\ r' = TrustChainCheck(x, i)
                       /\ IF Planned(x, TrustChainCheck(x, i)) THEN Return("PRODUCE")
                                                              ELSE Election
     IN IF Has(r, i, "AWAIT_CUT")
        THEN \E c \in CutLookups(q, i) :
               IF c.hint THEN r' = c.x /\ Return("PRODUCE") ELSE chained(c.x)
        ELSE chained(q)
  /\ UNCHANGED faults

\* ... with nothing left to resolve
ProduceNothing ==
  /\ phase = "PRODUCE" /\ RplanEmpty(r)
  /\ Return("FAIL") /\ UNCHANGED <<r, faults>>

\* One round of ns_election: the query goes out, or waits for an address, or the
\* next server is tried.
ElectNs ==
  /\ phase = "ELECT"
  /\ \E x \in Elected(r, Top(r)) :
       LET i == Top(r)
           type == NextType(x, i)
       IN IF x.qry[i].nsaddr
          THEN r' = x /\ Return("CONSUME")
          ELSE IF type = "none" \/ Satisfies(x, x.qry[i].parent, x.qry[i].nsname, type)
          THEN r' = Unresolvable(x, i, type) /\ Election
          ELSE r' = WithState(AskAddress(x, i, type), "PRODUCE") /\ Return("PRODUCE")
  /\ UNCHANGED faults

\* No server is left: the second time, the query is given up.
ElectNone ==
  /\ phase = "ELECT" /\ Elected(r, Top(r)) = {}
  /\ LET x == Electable(r, Top(r))
     IN r' = IF Has(x, Top(x), "NO_NS_FOUND") THEN WithState(Pop(x, Top(x)), "PRODUCE")
             ELSE Set(x, Top(x), {"NO_NS_FOUND"})
  /\ Return("PRODUCE") /\ UNCHANGED faults

\* kr_resolve_consume(), after the layers.  "answered" when a server replied
\* with anything but a soft failure, which ends the wait for its address.
Consumed(x, i, tried_tcp, answered) ==
  LET scored == IF answered /\ x.state # "FAIL"
                THEN Clear(x, i, {"AWAIT_IPV4", "AWAIT_IPV6"}) ELSE x
      failed == IF x.state = "FAIL" THEN Clear(InvalidateNs(scored, i), i, {"RESOLVED"})
                ELSE scored
      next == IF Has(failed, i, "RESOLVED") THEN Pop(failed, i)
              ELSE Clear(failed, i, {"CACHED"} \cup ({"TCP"} \ x.w.options))
  IN IF x.state = "YIELD" \/ (~Has(failed, i, "RESOLVED") /\ ~tried_tcp /\ Has(x, i, "TCP"))
     THEN r' = failed /\ phase' = "PRODUCE"
     ELSE /\ r' = WithState(next, "PRODUCE")
          /\ phase' = IF Has(next, i, "DNSSEC_BOGUS") THEN "FAIL"
                      ELSE IF RplanEmpty(next) THEN "DONE" ELSE "PRODUCE"

\* query_finalize(): the DO bit of the query
AsksForDnssec(x, i) == Has(x, i, "DNSSEC_WANT") /\ ~Has(x, i, "SAFEMODE")

ConsumeReply ==
  /\ phase = "CONSUME"
  /\ LET i == Top(r)
         sent == MinimizedQname(r.qry[i])
         right == Reply(r.w, r.qry[i].nsname, sent[1], sent[2], AsksForDnssec(r, i))
     IN \E p \in {right} \cup (IF faults < r.w.faults THEN Damaged(right) ELSE {}) :
          /\ faults' = IF p = right THEN faults ELSE faults + 1
          /\ Consumed(ConsumeLayers(r, i, p), i, Has(r, i, "TCP"),
                      p.rcode \notin {"SERVFAIL", "REFUSED"})
  /\ UNCHANGED <<iter, rounds>>

\* No reply came, over UDP or over TCP.
ConsumeLost ==
  /\ phase = "CONSUME" /\ faults < r.w.faults
  /\ LET i == Top(r)
     IN Consumed(IF Has(r, i, "TCP") THEN WithState(r, "FAIL") ELSE Set(r, i, {"TCP"}),
                 i, Has(r, i, "TCP"), FALSE)
  /\ faults' = faults + 1 /\ UNCHANGED <<iter, rounds>>

\* The limits on time and timeouts of a request
GiveUp ==
  /\ phase \in {"PRODUCE", "CONSUME"}
  /\ phase' = "LIMIT" /\ UNCHANGED <<r, iter, rounds, faults>>

Finish ==
  /\ phase \in {"DONE", "FAIL", "LIMIT"}
  /\ r' = ResolveFinish(r, IF phase = "DONE" THEN "DONE" ELSE "FAIL")
  /\ phase' = "finished" /\ UNCHANGED <<iter, rounds, faults>>

Next == \/ ProduceResume \/ ProduceCached \/ ProduceQuery \/ ProduceNothing
        \/ ElectNs \/ ElectNone \/ ConsumeReply \/ ConsumeLost \/ GiveUp \/ Finish

Spec == Init /\ [][Next]_vars

-----------------------------------------------------------------------------
\* The plan is a stack: a query that a pending one works for is pending too,
\* below it.  The driver takes the last query and pops any, so this rests on
\* what the layers plan and on the order in which they mark queries RESOLVED.
\* A query that a DS or DNSKEY was planned for finds it when it is resumed: the
\* validator never reads a trust anchor that is not there.
PlanOrder ==
  /\ \A k \in DOMAIN r.pending :
       LET p == r.qry[r.pending[k]].parent
       IN p # 0 => \E m \in 1..(k - 1) : r.pending[m] = p
  /\ ~r.aborted

\* A query of the client's own chain of names is marked DNSSEC_INSECURE only if
\* the chain of trust to its name really ends above it.  Sub-queries for DS,
\* RRSIG and addresses mark their parents, and answers from the cache do too.
InsecureIsProven ==
  \A i \in DOMAIN r.qry :
     r.qry[i].parent = 0 /\ Has(r, i, "DNSSEC_INSECURE")
       => ~SecureZone(r.w, SideOf(r.w, r.qry[i].sname, r.qry[i].stype))

\* The names on the CNAME chain of the question, as published (of up to two links).
Published(w) ==
  LET next(S) == S \cup {w.cname[n] : n \in S \cap DOMAIN w.cname}
  IN next(next({w.question[1]}))

\* Every name on the chain is in a zone that can be validated.
AllSecure(w) == \A n \in Published(w) : SecureZone(w, SideOf(w, n, w.question[2]))

\* What the client should get.
RightAnswer(w) ==
  {<<n, "CNAME">> : n \in Published(w) \cap DOMAIN w.cname}
  \cup {<<n, w.question[2]>> :
          n \in {m \in Published(w) \ DOMAIN w.cname : RRsetExists(w, m, w.question[2])}}

RightRcode(w) ==
  IF \E n \in Published(w) \ DOMAIN w.cname : ~NameExists(w, n) THEN "NXDOMAIN"
  ELSE "NOERROR"

Ended(state) == phase = "finished" /\ r.state = state

\* A request that ends DONE about names in secure zones gives the client nothing
\* but what was published, whatever came from the cache, was lost, damaged,
\* retried, deferred and resumed.  When at most one reply was lost or damaged it
\* gives all of it, with the right rcode.  After two, a server that was given up
\* and asked again may leave the answer incomplete.
AnswerIsPublished ==
  LET answer == {<<e.owner, e.type>> : e \in {f \in Wired(r) : f.type # "RRSIG"}}
  IN Ended("DONE") /\ AllSecure(r.w) /\ ~r.w.cd
       => /\ answer \subseteq RightAnswer(r.w)
          /\ \A e \in Wired(r) : e.true
          /\ faults <= 1 => answer = RightAnswer(r.w) /\ r.rcode = RightRcode(r.w)

\* answer_finalize() leaves the AD bit only on answers all of which come from
\* secure zones, and not on a denial that rests on opt-out.  When at most one
\* reply was lost or damaged, so do the names that the answer should go on to.
ADIsEarned ==
  Ended("DONE") /\ r.ad
    => /\ \A e \in Wired(r) : SecureZone(r.w, SideOf(r.w, e.owner, e.type))
       /\ faults <= 1 \/ Wired(r) = {} => AllSecure(r.w)
       /\ RightAnswer(r.w) = {} =>
            Answer(r.w, r.w.question[1], r.w.question[2],
                   SideOf(r.w, r.w.question[1], r.w.question[2])).proof # "optout"

\* As long as no reply is lost or damaged, no step fails and the request needs
\* fewer calls of kr_resolve_produce() than the limit: it ends DONE, whatever
\* part of the zones' data the cache holds, unless its time is up.  Whatever is
\* lost or damaged, nothing is sent, awaited or read past that limit, and the
\* loop at the label ns_election ends by itself, long before its own: each
\* server is tried once, and the one that was waited for once more.
HealthyIsAnswered ==
  /\ faults = 0 => phase # "FAIL" /\ iter <= KR_ITER_LIMIT
  /\ iter > KR_ITER_LIMIT => phase \in {"LIMIT", "FAIL", "finished"}
  /\ rounds <= 2 + Cardinality({r.w.nsof[z] : z \in r.w.zones})

\* "Always set SERVFAIL for bogus answers" (answer_finalize()): when the query the
\* request ended with is bogus, the client gets SERVFAIL, and no AD bit.
BogusIsServfail ==
  phase = "finished" /\ r.pending # <<>>
  /\ {"DNSSEC_WANT", "DNSSEC_BOGUS"} \subseteq r.qry[Top(r)].flags
    => r.rcode = "SERVFAIL" /\ ~r.ad
=============================================================================
