------------------------------ MODULE Iterate -------------------------------
(***************************************************************************)
(* The iterator layer, lib/layer/iterate.c, in iterative mode: which       *)
(* question a query sends, and what its answer does to the plan, to the    *)
(* zone cut and to the records selected for the client.                    *)
(*                                                                         *)
(* A packet p is a record of what the layers tell apart:                   *)
(*   qname, qtype, rcode, aa, tc  as in the message;                       *)
(*   an      "none", "rr" (the data asked for) or "cname" (to p.target);   *)
(*   zone    the zone the data is from;                                    *)
(*   ref     the delegation in the authority section, or NoName;           *)
(*   nsname, glue  its name server, and whether the address is included;   *)
(*   ds, proof  a DS set; a denial of existence: "none", "ok", "optout";   *)
(*   sig     the RRSIGs: "none", "good" or "bad"; their signer is p.zone;  *)
(*   true    whether the content is what the owner of the zone published;  *)
(*   parsed  whether there is more than a header;                          *)
(*   paired  whether the question is the one that was asked;               *)
(*   do      the DO bit of the reply;                                      *)
(*   rank    the rank of a packet made from the cache.                     *)
(*                                                                         *)
(* An entry of answ_selected or auth_selected is an RRset or its RRSIGs.   *)
(* There are no wildcards, and no authority section in positive answers.   *)
(***************************************************************************)
EXTENDS Rplan

CONSTANT KR_QUERY_NSRETRY_LIMIT

MinimizedQname(q) ==
  LET n == Len(q.cut.name) + 1
  IN IF q.sname = Root \/ "NO_MINIMIZE" \in q.flags \/ Len(q.sname) <= n
     THEN <<q.sname, q.stype>>
     ELSE <<SubSeq(q.sname, 1, n), "NS">>

\* kr_response_classify() of a packet that passed the check of its rcode
IsNegative(p) == p.rcode = "NXDOMAIN" \/ p.an = "none"

-----------------------------------------------------------------------------
(* Selecting records.                                                       *)

Entry(i, owner, type, covers, p, rank, wire) ==
  [uid |-> i, owner |-> owner, type |-> type, covers |-> covers,
   signer |-> p.zone, good |-> p.sig = "good", true |-> p.true, rank |-> rank,
   to_wire |-> wire, yielded |-> FALSE, revalidation_cnt |-> 0]

Matching(e, f) == e.owner = f.owner /\ e.type = f.type /\ e.covers = f.covers

\* kr_ranked_rrarray_add() with to_wire_ensure_unique(): a record for the
\* client replaces the same RRset selected by another query (or attempt).
RrarrayAdd(arr, e) ==
  Append([k \in DOMAIN arr |->
            IF e.to_wire /\ arr[k].uid # e.uid /\ Matching(arr[k], e)
            THEN [arr[k] EXCEPT !.to_wire = FALSE]
            ELSE arr[k]], e)

InitialRank(r, i, p) == IF Has(r, i, "CACHED") THEN p.rank ELSE "INITIAL"

\* An RRset with its signatures, as two entries.
AddSigned(arr, r, i, owner, type, p, wire) ==
  LET rank == InitialRank(r, i, p)
      rr == RrarrayAdd(arr, Entry(i, owner, type, "", p, rank, wire))
  IN IF p.sig = "none" THEN rr
     ELSE RrarrayAdd(rr, Entry(i, owner, "RRSIG", type, p, rank, wire))

\* The owner and the type of what the authority section is picked for: a
\* delegation's DS or denial, or the SOA and the denial of a negative answer.
AuthorityOwner(p) ==
  IF p.ref # NoName THEN p.ref
  ELSE IF p.rcode = "NXDOMAIN" \/ p.proof = "none" THEN p.zone ELSE p.qname

AuthorityType(p) ==
  IF p.ds THEN "DS"
  ELSE IF p.proof # "none" THEN "NSEC"
  ELSE IF p.ref = NoName /\ IsNegative(p) THEN "SOA" ELSE "none"

PickAuthority(r, i, p, wire) ==
  LET cut == r.qry[i].cut
      zonecut_name == IF ~p.aa /\ cut.up # <<>> THEN CutParent(cut).name
                                                ELSE cut.name
  IN IF AuthorityType(p) = "none" \/ ~InBailiwick(AuthorityOwner(p), zonecut_name)
     THEN r
     ELSE [r EXCEPT !.auth = AddSigned(@, r, i, AuthorityOwner(p),
                                       AuthorityType(p), p, wire /\ p.aa)]

-----------------------------------------------------------------------------
(* Authority section: the state is DONE after a referral, CONSUME when the  *)
(* packet is to be read as an answer.                                       *)

UpdateCut(cut, p) ==
  LET down == IF p.ref = cut.name THEN cut
              ELSE [EmptyCut(p.ref) EXCEPT
                      !.ta = cut.ta, !.key = cut.key,
                      !.up = Append(cut.up, [cut EXCEPT !.up = <<>>])]
  IN IF InBailiwick(p.nsname, p.ref) /\ ~p.glue THEN down
     ELSE IF p.glue /\ InBailiwick(p.nsname, cut.name)
     THEN CutAddAddr(down, p.nsname)
     ELSE CutAdd(down, p.nsname)

ProcessAuthority(r, i, p) ==
  LET q == r.qry[i]
      rename(n) == [r EXCEPT !.qry[i].cut.name = n, !.state = "CONSUME"]
  IN IF p.ref # NoName
     THEN IF ~(InBailiwick(p.ref, q.cut.name) /\ InBailiwick(q.sname, p.ref))
          THEN WithState(r, IF p.an = "none" THEN "FAIL" ELSE "CONSUME")
          ELSE [r EXCEPT
                  !.qry[i].cut = UpdateCut(@, p),
                  !.state = IF \/ p.ref # q.cut.name
                               \/ Has(r, i, "DNSSEC_WANT") /\ ~p.aa /\ p.an = "none"
                            THEN "DONE" ELSE "CONSUME"]
     ELSE IF IsNegative(p) /\ Below(p.zone, q.cut.name) THEN rename(p.zone)
     ELSE IF p.aa /\ p.an = "rr" /\ p.qtype = "NS" /\ Below(p.qname, q.cut.name)
     THEN rename(p.qname)
     ELSE WithState(r, "CONSUME")

ProcessReferralAnswer(r, i, p) == WithState(PickAuthority(r, i, p, FALSE), "DONE")

-----------------------------------------------------------------------------
(* Answer section.                                                          *)

\* Whether unroll_cname() takes the records of the answer section.
Picks(r, i, p) == p.an # "none" /\ InBailiwick(r.qry[i].sname, r.qry[i].cut.name)

CnameTarget(r, i, p) ==
  IF p.an = "cname" /\ Picks(r, i, p) THEN p.target ELSE r.qry[i].sname

\* Addresses answering a sub-query go to the zone cut of its parent.
UnrollCname(r, i, p) ==
  LET q == r.qry[i]
      final == q.parent = 0
      type == IF p.an = "cname" THEN "CNAME" ELSE q.stype
      taken == IF type = "RRSIG"
               THEN RrarrayAdd(r.answ, Entry(i, q.sname, "RRSIG", "any", p,
                                             InitialRank(r, i, p), final))
               ELSE AddSigned(r.answ, r, i, q.sname, type, p, final)
      addressed == IF final \/ type \notin {"A", "AAAA"} THEN r
                   ELSE [r EXCEPT !.qry[q.parent].cut = CutAddAddr(@, q.sname)]
  IN IF Picks(r, i, p) THEN [addressed EXCEPT !.answ = taken] ELSE r

FinalizeAnswer(r, p) == [r EXCEPT !.rcode = p.rcode]

\* process_final(): position of the target's records among those selected
Copied(r, i, cname) ==
  {k \in DOMAIN r.answ : r.answ[k].owner = cname /\ r.answ[k].type = r.qry[i].stype}

ProcessFinal(r, i, p, cname) ==
  LET k == CHOOSE m \in Copied(r, i, cname) :
             \A o \in Copied(r, i, cname) : m <= o
      e == r.answ[k]
      picked == FinalizeAnswer(PickAuthority(r, i, p, IsNegative(p)), p)
  IN WithState(
       IF e.to_wire THEN picked
       ELSE [picked EXCEPT !.answ = Append(RemoveAt(@, k), [e EXCEPT !.to_wire = TRUE])],
       "DONE")

\* The query for the target becomes a child of the one it replaces.
FollowCnameChild(r, i, p, cname) ==
  LET pushed == Push(r, i, cname, r.qry[i].stype)
  IN WithState(PickAuthority(Set(pushed, Len(pushed.qry), {"AWAIT_CUT", "DNSSEC_WANT"}),
                             i, p, FALSE), "DONE")

FollowCname(r, i, p, cname) ==
  LET q == r.qry[i]
      pushed == Push(r, q.parent, cname, q.stype)
      j == Len(pushed.qry)
      flags == ((r.w.options \ {"NO_MINIMIZE"}) \cup (q.flags \cap {"NO_MINIMIZE"}))
               \cup {"AWAIT_CUT"}
               \cup (IF TaCoversQry(r, cname, q.stype) THEN {"DNSSEC_WANT"} ELSE {})
      next == [pushed EXCEPT !.qry[j].flags = flags, !.qry[j].cname_parent = i]
  IN IF \E c \in CnameChain(r, q.cname_parent) :
          r.qry[c].sname = cname /\ r.qry[c].stype = q.stype
     THEN WithState(r, "FAIL")
     ELSE WithState(PickAuthority(next, i, p, FALSE), "DONE")

\* is_authoritative(); in a model of one SOA per negative answer
IsAuthoritative(q, p) ==
  \/ p.aa
  \/ p.ref = NoName /\ IsNegative(p) /\ InBailiwick(p.zone, q.cut.name)
  \/ q.cut.name = p.qname

ProcessAnswer(r, i, p) ==
  LET q == r.qry[i]
      cname == CnameTarget(r, i, p)
      resolved == Set(UnrollCname(r, i, p), i, {"RESOLVED"})
      chained == Set(resolved, i, {"CNAME"})
      auth == [p EXCEPT !.aa = TRUE]      \* "even with AA=0"
  IN IF p.qname # q.sname
     THEN WithState(IF p.an # "none" /\ p.rcode = "NOERROR" /\ p.qname = q.cut.name THEN r
                    ELSE Set(r, i, {"NO_MINIMIZE"}), "CONSUME")
     ELSE IF ~IsAuthoritative(q, p) /\ IsNegative(p) THEN WithState(r, "FAIL")
     ELSE IF p.an = "cname" /\ p.target = q.sname
     THEN WithState(UnrollCname(r, i, p), "FAIL")
     ELSE IF cname # q.sname
     THEN IF q.parent = 0 /\ Copied(chained, i, cname) # {}
          THEN ProcessFinal(chained, i, auth, cname)
          ELSE FollowCname(chained, i, auth, cname)
     ELSE WithState(
            IF q.parent = 0
            THEN FinalizeAnswer(PickAuthority(resolved, i, auth, IsNegative(p)), p)
            ELSE IF p.proof # "none" THEN PickAuthority(resolved, i, auth, FALSE)
            ELSE resolved, "DONE")

-----------------------------------------------------------------------------
(* resolve(), the consume callback of the layer.                            *)

ResolveBadmsg(r, i) ==
  IF Has(r, i, "SAFEMODE") THEN WithState(r, "FAIL")
  ELSE WithState(Set(r, i, {IF Has(r, i, "NO_MINIMIZE") THEN "SAFEMODE"
                                                        ELSE "NO_MINIMIZE"}), "DONE")

ResolveNotimpl(r, i) ==
  LET q == r.qry[i]
      parent == r.qry[q.parent]
      pushed == Push(r, q.parent, q.sname, "DS")
      j == Len(pushed.qry)
      next == [pushed EXCEPT
                 !.qry[j].cut = CutCopyTrust(CutCopy(EmptyCut(parent.cut.name),
                                                     parent.cut), parent.cut),
                 !.qry[j].flags = @ \cup {"DNSSEC_WANT"}]
  IN IF q.stype = "RRSIG" /\ q.parent # 0
     THEN WithState(Set(next, i, {"RESOLVED"}), "DONE")
     ELSE ResolveBadmsg(r, i)

ResolveRetry(r, i) ==
  IF r.qry[i].fails + 1 >= KR_QUERY_NSRETRY_LIMIT
  THEN [r EXCEPT !.qry[i].fails = 0, !.state = "FAIL"]
  ELSE WithState([Set(r, i, {"NO_MINIMIZE"}) EXCEPT !.qry[i].fails = @ + 1], "CONSUME")

\* ... of a packet whose authority section has been processed
ResolvePacket(r, i, p) ==
  CASE r.state = "CONSUME" -> ProcessAnswer(r, i, p)
    [] r.state = "DONE" -> ProcessReferralAnswer(r, i, p)
    [] r.state = "FAIL" -> r

IterateConsume(r, i, p) ==
  IF Has(r, i, "RESOLVED") THEN r
  ELSE IF ~p.parsed THEN ResolveBadmsg(r, i)
  ELSE IF ~p.paired THEN ResolveBadmsg(Set(r, i, {"TCP"}), i)
  ELSE IF p.tc /\ Has(r, i, "TCP") THEN WithState(r, "FAIL")
  ELSE IF p.tc THEN WithState(Set(r, i, {"TCP"}), "CONSUME")
  ELSE CASE p.rcode \in {"REFUSED", "SERVFAIL"} -> ResolveRetry(r, i)
         [] p.rcode = "FORMERR" -> ResolveBadmsg(r, i)
         [] p.rcode = "NOTIMPL" -> ResolveNotimpl(r, i)
         [] p.rcode \in {"NOERROR", "NXDOMAIN"} ->
              ResolvePacket(ProcessAuthority(r, i, p), i, p)
         [] OTHER -> WithState(r, "FAIL")

\* The packet as the next layers see it: process_answer() sets AA.
IterateAA(r, i, p) ==
  [p EXCEPT !.aa = @ \/ (Has(r, i, "RESOLVED") /\ p.rcode \in {"NOERROR", "NXDOMAIN"})]

\* prepare_query(), the produce callback: a new uid for the query, so that
\* what was selected under the old one belongs to no query any more.
PrepareQuery(r, i) ==
  LET stale(arr) == [k \in DOMAIN arr |->
                       IF arr[k].uid = i THEN [arr[k] EXCEPT !.uid = 0] ELSE arr[k]]
  IN [r EXCEPT !.answ = stale(@), !.auth = stale(@), !.state = "CONSUME"]
=============================================================================
