----------------------------- MODULE Authority ------------------------------
(***************************************************************************)
(* The authoritative servers the resolver asks, and what the network may   *)
(* do to their replies.  This is the environment of the resolver library:  *)
(* it is modelled from what lib/layer/iterate.c and lib/layer/validate.c   *)
(* read in a packet.                                                       *)
(*                                                                         *)
(* A world w says which zones there are and what they hold:                *)
(*   zones     the zones, Root among them;                                 *)
(*   nsof      the name of the (one) server of each zone;                  *)
(*   signed    the zones with DNSKEYs, and a DS if the parent is signed;   *)
(*   optout    the signed zones whose NSEC3 chain has opt-out;             *)
(*   unsupported  the zones whose DS has only unsupported algorithms;      *)
(*   rr        the name and type of each RRset that is not of the apex;    *)
(*   cname     a function from names to the targets of their CNAMEs.       *)
(* It also fixes the client's question, what the cache may hold, and how   *)
(* many replies may be lost or damaged ("faults").                         *)
(***************************************************************************)
EXTENDS Validate

ZoneOf(w, n) ==
  CHOOSE z \in w.zones : /\ InBailiwick(n, z)
                         /\ \A y \in w.zones : InBailiwick(n, y) => InBailiwick(z, y)

\* The zone whose side answers for a name and type.
SideOf(w, n, type) ==
  IF type = "DS" /\ n # Root THEN ZoneOf(w, Encloser(n)) ELSE ZoneOf(w, n)

\* Every zone on the way down from a trust anchor is signed, with an algorithm
\* that the resolver knows, and none is under a negative anchor.
SecureZone(w, z) ==
  /\ \E a \in w.anchors : InBailiwick(z, a)
  /\ \A y \in w.zones : InBailiwick(z, y) => y \in w.signed \ w.unsupported
  /\ ~\E a \in w.negative : InBailiwick(z, a)

NameExists(w, n) ==
  \E m \in w.zones \cup {x[1] : x \in w.rr} \cup DOMAIN w.cname : InBailiwick(m, n)

RRsetExists(w, n, type) ==
  CASE type = "NS" -> n \in w.zones
    [] type \in {"DS", "DNSKEY"} -> n \in w.signed
    [] type = "RRSIG" -> ZoneOf(w, n) \in w.signed /\ NameExists(w, n)
    [] OTHER -> <<n, type>> \in w.rr

-----------------------------------------------------------------------------
EmptyPacket(n, type, z) ==
  [qname |-> n, qtype |-> type, rcode |-> "NOERROR", aa |-> FALSE, tc |-> FALSE,
   an |-> "none", target |-> NoName, zone |-> z, ref |-> NoName, nsname |-> NoName,
   glue |-> FALSE, ds |-> FALSE, proof |-> "none", sig |-> "none", true |-> TRUE,
   parsed |-> TRUE, paired |-> TRUE, do |-> TRUE, rank |-> "INITIAL"]

\* The same without DNSSEC: signatures come only when they are asked for.
Plain(p) ==
  [p EXCEPT !.do = FALSE, !.ds = FALSE, !.proof = "none",
            !.sig = IF p.qtype = "RRSIG" THEN @ ELSE "none"]

\* An answer out of zone z.  A DS denied by the child's own zone proves nothing.
Answer(w, n, type, z) ==
  LET empty == [EmptyPacket(n, type, z) EXCEPT
                  !.aa = TRUE, !.sig = IF z \in w.signed THEN "good" ELSE "none"]
      denial == IF z \notin w.signed \/ (type = "DS" /\ n = z /\ n # Root) THEN "none"
                ELSE IF z \in w.optout /\ (~NameExists(w, n) \/ type = "DS")
                THEN "optout" ELSE "ok"
  IN IF n \in DOMAIN w.cname /\ type \notin {"DS", "RRSIG"}
     THEN [empty EXCEPT !.an = "cname", !.target = w.cname[n]]
     ELSE IF RRsetExists(w, n, type) /\ ~(type = "DS" /\ n = z)
     THEN [empty EXCEPT !.an = "rr"]
     ELSE [empty EXCEPT !.proof = denial,
                        !.rcode = IF NameExists(w, n) THEN "NOERROR" ELSE "NXDOMAIN"]

\* A referral from zone z to the delegation d.
Referral(w, n, type, z, d) ==
  [EmptyPacket(n, type, z) EXCEPT
     !.ref = d, !.nsname = w.nsof[d], !.glue = InBailiwick(w.nsof[d], d),
     !.ds = z \in w.signed /\ d \in w.signed,
     !.proof = IF z \notin w.signed \/ d \in w.signed THEN "none"
               ELSE IF z \in w.optout THEN "optout" ELSE "ok",
     !.sig = IF z \in w.signed THEN "good" ELSE "none"]

\* What server s answers: from the deepest zone it serves that holds the name,
\* and the parent's side for a DS when it serves both.  "do" is the DO bit of the
\* query.
Reply(w, s, n, type, do) ==
  LET served == {z \in w.zones : w.nsof[z] = s /\ InBailiwick(n, z)}
      above == {z \in served : z # n}
      side == IF type = "DS" /\ above # {} THEN above ELSE served
      z == CHOOSE x \in side : \A y \in side : Len(y) <= Len(x)
      cuts == {d \in w.zones : /\ Below(d, z) /\ InBailiwick(n, d)
                               /\ ~(type = "DS" /\ d = n)}
      d == CHOOSE x \in cuts : \A y \in cuts : Len(x) <= Len(y)
      full == IF served = {} THEN [EmptyPacket(n, type, Root) EXCEPT !.rcode = "REFUSED"]
              ELSE IF cuts # {} THEN Referral(w, n, type, z, d)
              ELSE Answer(w, n, type, z)
  IN IF do THEN full ELSE Plain(full)

-----------------------------------------------------------------------------
\* Replies other than the right one, from servers that fail, know no DNSSEC or
\* hold other data, and from a network that mixes up messages.
Damaged(p) ==
  LET bare == EmptyPacket(p.qname, p.qtype, p.zone)
  IN {[bare EXCEPT !.rcode = c, !.aa = a] :
        c \in {"SERVFAIL", "FORMERR", "NOTIMPL", "NOTAUTH"}, a \in BOOLEAN}
     \cup {[bare EXCEPT !.parsed = FALSE, !.qtype = "none", !.aa = a] : a \in BOOLEAN}
     \cup {[bare EXCEPT !.tc = TRUE], [p EXCEPT !.paired = FALSE], Plain(p),
           [p EXCEPT !.sig = "bad", !.true = FALSE],
           [bare EXCEPT !.rcode = "NXDOMAIN", !.aa = TRUE, !.true = FALSE],
           [bare EXCEPT !.rcode = "NXDOMAIN", !.aa = TRUE, !.true = FALSE,
                        !.proof = "ok", !.sig = "bad"]}

\* What the cache may hold of the same data: what was validated, or proven to
\* be in an insecure zone.
CachedPacket(w, n, type) ==
  LET z == SideOf(w, n, type)
  IN [Answer(w, n, type, z) EXCEPT
        !.rank = IF SecureZone(w, z) THEN "SECURE" ELSE "INSECURE"]
=============================================================================
