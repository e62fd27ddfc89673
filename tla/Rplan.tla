------------------------------- MODULE Rplan --------------------------------
(***************************************************************************)
(* The resolution plan of lib/rplan.c and the zone cuts of lib/zonecut.c.  *)
(*                                                                         *)
(* A request "r" is a record, and the functions of the resolver library    *)
(* are operators from requests to requests.  A query is named by its       *)
(* position in r.qry, where every query ever planned stays; 0 is a NULL    *)
(* pointer to one.  The uid of a query, which prepare_query() renews with  *)
(* every packet, is that position too: the records selected under an       *)
(* earlier uid then have uid 0 (see Iterate!PrepareQuery).                 *)
(*                                                                         *)
(* A name is the sequence of its labels, root first, so that being at or   *)
(* below a name is having it as a prefix.  A name server has one address.  *)
(***************************************************************************)
EXTENDS Integers, FiniteSets, Sequences, SequencesExt

Root == <<>>
NoName == <<"">>            \* a NULL pointer to a name or to an RRset

InBailiwick(n, z) == IsPrefix(z, n)
Below(n, z) == IsStrictPrefix(z, n)
Encloser(n) == Front(n)

-----------------------------------------------------------------------------
(* Zone cuts.  "ta" and "key" are the owners of the DS and DNSKEY sets,     *)
(* "ns" the names in the nsset, "addr" those with an address, and "up" the  *)
(* chain of parent cuts, the nearest one last.                              *)

EmptyCut(n) == [name |-> n, ta |-> NoName, key |-> NoName,
                ns |-> {}, addr |-> {}, up |-> <<>>]

CutAdd(c, n) == [c EXCEPT !.ns = @ \cup {n}]
CutAddAddr(c, n) == [c EXCEPT !.ns = @ \cup {n}, !.addr = @ \cup {n}]
CutDel(c, n) == [c EXCEPT !.ns = @ \ {n}, !.addr = @ \ {n}]
CutIsEmpty(c) == c.addr = {}

CutCopy(dst, src) ==
  [dst EXCEPT !.ns = @ \cup src.ns, !.addr = (@ \ src.ns) \cup src.addr]

CutCopyTrust(dst, src) == [dst EXCEPT !.ta = src.ta, !.key = src.key]

\* The cut remembered when the iterator descended to c.
CutParent(c) == [Last(c.up) EXCEPT !.up = Front(c.up)]

\* Root hints: the keys, the trust anchor and the parent chain are kept.
SetSbelt(r, c) ==
  [c EXCEPT !.name = Root, !.ns = {r.w.nsof[Root]}, !.addr = {r.w.nsof[Root]}]

-----------------------------------------------------------------------------
NewQuery(r, parent, name, type) ==
  [sname |-> name, stype |-> type, parent |-> parent, cname_parent |-> 0,
   flags |-> r.w.options, cut |-> EmptyCut(Root), nsname |-> NoName,
   nsaddr |-> FALSE, fails |-> 0, deferred |-> <<>>]

\* kr_rplan_push(): the new query is Len(Push(...).qry), on top of the plan.
Push(r, parent, name, type) ==
  [r EXCEPT !.qry = Append(@, NewQuery(r, parent, name, type)),
            !.pending = Append(@, Len(r.qry) + 1)]

\* kr_rplan_pop(): the queries above i slide down.
Pop(r, i) ==
  IF Contains(r.pending, i)
  THEN [r EXCEPT !.pending = RemoveFirst(@, i), !.resolved = Append(@, i)]
  ELSE r

RplanEmpty(r) == r.pending = <<>>
Top(r) == Last(r.pending)

\* A query and the chain of its parents, and the same for CNAME parents.
Closure(r, i) ==
  LET up[j \in 0..Len(r.qry)] ==
        IF j = 0 THEN {} ELSE {j} \cup up[r.qry[j].parent]
  IN up[i]

CnameChain(r, i) ==
  LET up[j \in 0..Len(r.qry)] ==
        IF j = 0 THEN {} ELSE {j} \cup up[r.qry[j].cname_parent]
  IN up[i]

\* kr_rplan_satisfies()
Satisfies(r, closure, name, type) ==
  \E j \in Closure(r, closure) : r.qry[j].sname = name /\ r.qry[j].stype = type

-----------------------------------------------------------------------------
Has(r, i, f) == f \in r.qry[i].flags
Set(r, i, F) == [r EXCEPT !.qry[i].flags = @ \cup F]
Clear(r, i, F) == [r EXCEPT !.qry[i].flags = @ \ F]
WithState(r, s) == [r EXCEPT !.state = s]
GoInsecure(r, i) == Set(Clear(r, i, {"DNSSEC_WANT"}), i, {"DNSSEC_INSECURE"})
Bogus(r, i) == WithState(Set(r, i, {"DNSSEC_BOGUS"}), "FAIL")
AwaitsAddress(r, i) == r.qry[i].flags \cap {"AWAIT_IPV4", "AWAIT_IPV6"} # {}

\* kr_ta_covers(): some anchor is at or above the name.
TaCovers(anchors, name) == \E a \in anchors : InBailiwick(name, a)

\* kr_ta_covers_qry(): a DS lives on the parent's side.
TaCoversQry(r, name, type) ==
  LET n == IF type = "DS" /\ name # Root THEN Encloser(name) ELSE name
  IN TaCovers(r.w.anchors, n) /\ ~TaCovers(r.w.negative, n)
=============================================================================
