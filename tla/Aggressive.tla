------------------------------ MODULE Aggressive -----------------------------
(***************************************************************************)
(* The cache's layer, lib/cache/: what it stores of the replies of a zone, *)
(* and the answers it makes of that, the denials from NSEC and NSEC3       *)
(* records of other replies included.  The zone keeps its contents, but    *)
(* changes its chain; requests with the CD bit may bring anything.         *)
(***************************************************************************)
EXTENDS Denial, TLC

CONSTANTS
  Zones,        \* the zones that are tried
  AllChains,    \* Chains, and "none" for a zone without signatures
  Ttl,          \* of records, in seconds; those of a chain have NsecTtl
  NsecTtl,
  TtlMax,       \* cache->ttl_max, and so the validity of a chain's parameters
  TtlMargin,    \* ttl_margin of stash_nsec_p()
  Step,         \* how far the clock moves at once
  MaxTime,
  MaxOps        \* bounds the replies and removals

VARIABLES
  rr,           \* entries by name and type
  nsec,         \* NSEC and NSEC3 entries by chain and owner
  nsec_p,       \* the chains in the list of the apex, newest first
  now, ops,
  last          \* the question that was just answered by the zone, if any

cvars == <<zone, chain, rr, nsec, nsec_p, now, ops, last>>

\* enum kr_rank
OMIT == 1
TRY == 2
INSECURE == 8
AUTH == 16
SECURE == 32

ENTRY_APEX_NSECS_CNT == 2

Empty == [rr |-> <<>>, nsec |-> <<>>, nsec_p |-> <<>>]
Cache == [rr |-> rr, nsec |-> nsec, nsec_p |-> nsec_p]

\* get_new_ttl(), without a callback for stale records; is_expiring()
NewTtl(e) == e.ttl - (now - e.time)
Fresh(e) == NewTtl(e) >= 0
Expiring(e) == 100 * (NewTtl(e) - 5) < e.ttl

-----------------------------------------------------------------------------
(* What the zone says, and what is stored of it.                            *)

TypeAt(o, t) == IF t \in TypesOf[zone[o]] THEN t ELSE "CNAME"

\* The answer to a question; <<"miss">> where it is up to another zone.
Truth(n, t) ==
  LET reply == Reply(zone, n, t)
      w == Wildcard(Encloser(zone, n))
  IN CASE reply = "answer" -> <<"answer", n, TypeAt(n, t)>>
       [] reply = "wildcard" -> <<"answer", w, TypeAt(w, t)>>
       [] reply \in {"nodata", "wildcard nodata"} -> <<"nodata">>
       [] reply = "nxdomain" -> <<"nxdomain">>
       [] OTHER -> <<"miss">>

Entry(ttl, rank, packet, says) ==
  [time |-> now, ttl |-> ttl, rank |-> rank, packet |-> packet, says |-> says]

\* An RRset of the zone, under the name that the labels of its signature lead to:
\* the wildcard that it was expanded from.
Rrset(o, t, rank) ==
  [into |-> "rr", key |-> <<o, t>>, entry |-> Entry(Ttl, rank, FALSE, <<"answer", o, t>>)]

Packet(n, t, rank, says) ==
  [into |-> "rr", key |-> <<n, t>>, entry |-> Entry(NsecTtl, rank, TRUE, says)]

NsecOf(rec) ==
  [into |-> "nsec", key |-> <<chain, rec.owner>>,
   entry |-> [time |-> now, ttl |-> NsecTtl, next |-> rec.next, types |-> rec.types]]

\* The ranks that the validator leaves: with CD it does not look, a zone without
\* signatures is proved insecure.
RankOf(cd) == IF cd THEN OMIT ELSE IF chain = "none" THEN INSECURE ELSE SECURE

\* stash_rrset(): no NSEC or NSEC3 unless secure, none with opt-out.
ChainStored(cd) == ~cd /\ chain \in {"NSEC", "NSEC3"}

\* cache_stash(): the records of the sections.
Stashed(n, t, cd) ==
  LET truth == Truth(n, t)
      reply == Reply(zone, n, t)
      rank == RankOf(cd) + AUTH
      d == CutOf(zone, n)
      above == CHOOSE m \in Owners(zone) : Below(n, m) /\ zone[m] = "DNAME"
      nsecs == IF ChainStored(cd)
               THEN SetToSeq({NsecOf(rec) : rec \in Proof(zone, chain, n, t)}) ELSE <<>>
      \* without signature, under the name itself
      expanded == [Rrset(n, truth[3], rank) EXCEPT !.entry.says = truth]
      records == CASE truth[1] = "answer" ->
                        IF chain = "none" THEN <<expanded>>
                        ELSE <<Rrset(truth[2], truth[3], rank)>>
                   [] truth[1] \in {"nodata", "nxdomain"} -> <<Rrset(Apex, "SOA", rank)>>
                   [] reply = "referral" ->
                        <<Rrset(d, "NS", IF cd THEN OMIT ELSE TRY), Rrset(d, "DS", rank)>>
                   [] reply = "unsigned referral" ->
                        <<Rrset(d, "NS", IF cd THEN OMIT ELSE TRY)>>
                   [] OTHER -> <<Rrset(above, "DNAME", rank)>>
  IN records \o nsecs

\* stash_pkt(): denials that the cache could not make itself.
StashedPkt(n, t, cd) ==
  IF Truth(n, t)[1] \in {"nodata", "nxdomain"} /\ (cd \/ chain \in {"none", "optout"})
  THEN <<Packet(n, t, RankOf(cd) + AUTH, Truth(n, t))>> ELSE <<>>

\* Mutant: whatever still has some time to live is kept.
SpliceKeeps(c, item) ==
  IF item.into = "nsec" THEN [c EXCEPT !.nsec = (item.key :> item.entry) @@ @]
  ELSE IF item.key \in DOMAIN c.rr /\ NewTtl(c.rr[item.key]) > 0 THEN c
  ELSE [c EXCEPT !.rr = (item.key :> item.entry) @@ @]

\* entry_h_splice(): only a secure record replaces one of no lesser rank that still
\* has some time to live.
Splice(c, item) ==
  IF item.into = "nsec" THEN [c EXCEPT !.nsec = (item.key :> item.entry) @@ @]
  ELSE IF /\ item.entry.rank < SECURE
          /\ item.key \in DOMAIN c.rr
          /\ NewTtl(c.rr[item.key]) > 0
          /\ ~Expiring(c.rr[item.key])
          /\ item.entry.rank <= c.rr[item.key].rank
  THEN c
  ELSE [c EXCEPT !.rr = (item.key :> item.entry) @@ @]

StashAll(c, items) == FoldLeft(Splice, c, items)

\* stash_nsec_p(): the chain to the front of the list, unless it is there already
\* and would gain little.
StashNsecP(c, p) ==
  LET same == {i \in DOMAIN c.nsec_p : c.nsec_p[i].p = p}
      others == SelectSeq(c.nsec_p, LAMBDA x : x.p # p)
      until == now + TtlMax
  IN IF \E i \in same : until - c.nsec_p[i].until < TtlMargin THEN c
     ELSE [c EXCEPT !.nsec_p =
             <<[p |-> p, until |-> until]>>
               \o SubSeq(others, 1, Min({Len(others), ENTRY_APEX_NSECS_CNT - 1}))]

HasNsec(items) == \E i \in DOMAIN items : items[i].into = "nsec"

\* cache_stash() of all of a reply; without the first "lost" records, if writing
\* the last of these found the cache full, and cache_write_or_clear() cleared it.
\* The list of the apex stays as it is if the write of stash_nsec_p() fails.
StashReply(c, items, pkt, lost, listed) ==
  LET stashed == IF lost = 0 THEN StashAll(c, items)
                 ELSE StashAll(Empty, SubSeq(items, lost + 1, Len(items)))
  IN StashAll(IF listed /\ HasNsec(items) THEN StashNsecP(stashed, chain) ELSE stashed, pkt)

-----------------------------------------------------------------------------
(* Looking for an answer, peek_nosync().                                    *)

\* get_lowest_rank(), under a trust anchor
LowestRank(cd) == IF cd THEN AUTH ELSE INSECURE + AUTH

\* find_leq_NSEC1(), find_leq_NSEC3(): the stored record at a name or before it, if
\* that matches or covers the name.
NotFound == [ok |-> FALSE]
Covers(p, n, o, next) ==
  IF p = "NSEC" THEN next = Apex \/ Less(n, next)
  ELSE Hash[n] < Hash[next] \/ Hash[next] < Hash[o]
Found(p, n, o, e) ==
  IF Fresh(e) /\ (o = n \/ Covers(p, n, o, e.next))
  THEN [ok |-> TRUE, exact |-> o = n, owner |-> o, next |-> e.next, types |-> e.types]
  ELSE NotFound
FoundAt(p, n, o) == Found(p, n, o, nsec[<<p, o>>])
FoundIn(p, n, upto) == IF upto = {} THEN NotFound ELSE FoundAt(p, n, LastOf(p, upto))
FindLeq(p, n) ==
  FoundIn(p, n, {k[2] : k \in {key \in DOMAIN nsec : key[1] = p /\ ~Before(p, n, key[2])}})

\* found_exact_hit() and try_wild() take an entry that is fresh and of good rank.
Fit(n, t, low) ==
  <<n, t>> \in DOMAIN rr /\ Fresh(rr[<<n, t>>]) /\ rr[<<n, t>>].rank >= low
FitRrset(n, t, low) == Fit(n, t, low) /\ ~rr[<<n, t>>].packet

\* The end of peek_encloser(): an answer from the wildcard itself.
TryWild(m, t, low) ==
  LET w == Wildcard(m)
  IN IF FitRrset(w, t, low) THEN rr[<<w, t>>].says
     ELSE IF FitRrset(w, "CNAME", low) THEN rr[<<w, "CNAME">>].says
     ELSE <<"exit">>

\* kwz_between(): a wildcard against both ends of a record.
Between(low, w, high) ==
  CASE low = w -> 1
    [] Less(w, low) -> 0
    [] high # Apex /\ w = high -> 4
    [] high # Apex /\ Less(high, w) -> 5
    [] OTHER -> IF Below(w, low) THEN 2 ELSE 3

\* nonexistence_ok()
NonexistenceOk(cmp, types) == cmp = 3 \/ (cmp = 2 /\ ~ChildrenInZone(types))

\* nsec1_src_synth(): whether there is a wildcard for the name.
WildcardBy(wrec, m, t, low) ==
  IF ~wrec.ok THEN TryWild(m, t, low)
  ELSE IF wrec.exact
  THEN IF BitmapNodata(wrec.types, t) THEN <<"nodata">> ELSE TryWild(m, t, low)
  ELSE IF InBailiwick(m, wrec.owner) /\ ~ChildrenInZone(wrec.types) THEN TryWild(m, t, low)
  ELSE <<"nxdomain">>
Nsec1SrcSynth(cmp, rec, m, t, low) ==
  IF NonexistenceOk(cmp, rec.types) THEN <<"nxdomain">>
  ELSE WildcardBy(IF cmp = 1 THEN [rec EXCEPT !.exact = TRUE]
                  ELSE FindLeq("NSEC", Wildcard(m)), m, t, low)

\* nsec1_encloser(): both ends of a record exist, and all names above them.
EncloserBy(rec, n) ==
  Longest({LongestCommonPrefix({rec.owner, n}), LongestCommonPrefix({n, rec.next})})
CoveredUnder(m, rec, n, t, low) ==
  IF m = n THEN <<"nodata">>
  ELSE Nsec1SrcSynth(Between(rec.owner, Wildcard(m), rec.next), rec, m, t, low)

\* Mutant: a record at a delegation also denies the names below it.
Nsec1EncloserDelegated(rec, n, t, low) ==
  IF ~rec.ok THEN <<"skip">>
  ELSE IF rec.exact THEN IF BitmapNodata(rec.types, t) THEN <<"nodata">> ELSE <<"skip">>
  ELSE CoveredUnder(EncloserBy(rec, n), rec, n, t, low)

\* nsec1_encloser(), and the rest of peek_encloser() after it.
Nsec1Encloser(rec, n, t, low) ==
  IF ~rec.ok THEN <<"skip">>
  ELSE IF rec.exact THEN IF BitmapNodata(rec.types, t) THEN <<"nodata">> ELSE <<"skip">>
  ELSE IF InBailiwick(n, rec.owner) /\ ~ChildrenInZone(rec.types) THEN <<"skip">>
  ELSE CoveredUnder(EncloserBy(rec, n), rec, n, t, low)

\* nsec3_src_synth()
Nsec3SrcSynth(rec, m, t, low) ==
  IF ~rec.ok THEN TryWild(m, t, low)
  ELSE IF ~rec.exact THEN <<"nxdomain">>
  ELSE IF BitmapNodata(rec.types, t) THEN <<"nodata">> ELSE TryWild(m, t, low)

\* nsec3_encloser(): up from the name, the first that exists ends the search; with
\* none, a positive answer may still come from a wildcard.
NoneExists(missing, n, t, low) ==
  IF missing = {} THEN <<"skip">> ELSE TryWild(SubSeq(n, 1, Min(missing) - 1), t, low)
FirstExists(p, rec, e, missing, n, t, low) ==
  IF e = Len(n) THEN IF BitmapNodata(rec.types, t) THEN <<"nodata">> ELSE <<"skip">>
  ELSE IF e + 1 \notin missing \/ ~ChildrenInZone(rec.types) THEN <<"skip">>
  ELSE Nsec3SrcSynth(FindLeq(p, Wildcard(SubSeq(n, 1, e))), SubSeq(n, 1, e), t, low)
Nsec3Among(p, at, existing, missing, n, t, low) ==
  IF existing = {} THEN NoneExists(missing, n, t, low)
  ELSE FirstExists(p, at[Max(existing)], Max(existing), missing, n, t, low)
Nsec3Encloser(p, at, n, t, low) ==
  Nsec3Among(p, at, {i \in DOMAIN at : at[i].ok /\ at[i].exact},
             {i \in DOMAIN at : at[i].ok /\ ~at[i].exact}, n, t, low)

\* peek_encloser()
PeekEncloser(p, n, t, low) ==
  IF p = "NSEC" THEN Nsec1Encloser(FindLeq(p, n), n, t, low)
  ELSE Nsec3Encloser(p, [i \in 0..Len(n) |-> FindLeq(p, SubSeq(n, 1, i))], n, t, low)

\* closest_NS(), check_NS_entry(): what of a list the search may end at.
ChainsAt(m) == m = Apex /\ \E i \in DOMAIN nsec_p : nsec_p[i].until >= now
ListHit(m, n, t) ==
  CASE ~(m = n /\ t = "DS") /\ (ChainsAt(m) \/ FitRrset(m, "NS", 0)) -> "NS"
    [] m = n /\ FitRrset(m, "CNAME", INSECURE + AUTH) -> "CNAME"
    [] m # n /\ FitRrset(m, "DNAME", INSECURE + AUTH) -> "DNAME"
    [] OTHER -> "none"

\* peek_nosync(): a denial is nothing without the SOA.
WithSoa(result, low) ==
  IF result = <<"exit">> THEN <<"miss">>
  ELSE IF result[1] # "answer" /\ ~FitRrset(Apex, "SOA", low) THEN <<"miss">>
  ELSE result

\* The loop over the chains: the first that does not skip decides.
FirstOfChains(tried, low) ==
  IF \A i \in DOMAIN tried : tried[i] = <<"skip">> THEN <<"miss">>
  ELSE WithSoa(SelectSeq(tried, LAMBDA x : x # <<"skip">>)[1], low)
Denied(n, t, low) ==
  FirstOfChains([i \in DOMAIN nsec_p |->
                   IF nsec_p[i].until < now THEN <<"skip">>
                   ELSE PeekEncloser(nsec_p[i].p, n, t, low)], low)

\* From the closest name with something in its list.
PeekFrom(m, hit, n, t, low) ==
  CASE hit = "CNAME" -> rr[<<m, "CNAME">>].says
    [] hit = "DNAME" -> <<"miss">>
    [] OTHER -> IF m = Apex THEN Denied(n, t, low) ELSE <<"miss">>
PeekAbove(hits, n, t, low) ==
  IF hits = {} THEN <<"miss">>
  ELSE PeekFrom(Longest(hits), ListHit(Longest(hits), n, t), n, t, low)

\* peek_nosync()
Peek(n, t, low) ==
  IF Fit(n, t, low) THEN rr[<<n, t>>].says
  ELSE PeekAbove({m \in Ancestors(n) \cup {n} : ListHit(m, n, t) # "none"}, n, t, low)

-----------------------------------------------------------------------------
CInit ==
  /\ zone \in Zones
  /\ chain \in AllChains
  /\ rr = <<>> /\ nsec = <<>> /\ nsec_p = <<>>
  /\ now = 0 /\ ops = 0 /\ last = <<>>

Becomes(c) == rr' = c.rr /\ nsec' = c.nsec /\ nsec_p' = c.nsec_p
Op == ops < MaxOps /\ ops' = ops + 1 /\ UNCHANGED <<zone, chain, now>>

\* A reply of the zone.
Ask(n, t, cd) ==
  /\ Op
  /\ Becomes(StashReply(Cache, Stashed(n, t, cd), StashedPkt(n, t, cd), 0, TRUE))
  /\ last' = IF cd THEN <<>> ELSE <<n, t>>

\* A reply of the zone that finds the cache full, at a record or (0) at the list.
AskOverfull(n, t, lost) ==
  /\ Op
  /\ lost <= Len(Stashed(n, t, FALSE))
  /\ lost = 0 => HasNsec(Stashed(n, t, FALSE))
  /\ Becomes(StashReply(Cache, Stashed(n, t, FALSE), StashedPkt(n, t, FALSE), lost, lost # 0))
  /\ last' = <<>>

\* A reply to a request with CD that is not the zone's: data, perhaps as if from a
\* wildcard, or a denial.
AskOther(n, t, item) ==
  /\ Op
  /\ Becomes(StashAll(Cache, item))
  /\ last' = <<>>

Others(n, t) ==
  {<<[Rrset(o, t, OMIT + AUTH) EXCEPT !.entry.says = <<"other">>]>>
     : o \in {n} \cup (IF n = Apex THEN {} ELSE {Wildcard(Parent(n))})}
  \cup {<<[Rrset(Apex, "SOA", OMIT + AUTH) EXCEPT !.entry.says = <<"other">>],
          Packet(n, t, OMIT + AUTH, <<"other">>)>>}

\* kr_cache_remove(): NS, CNAME and DNAME of a name are one entry with the chains.
Listed == {"NS", "CNAME", "DNAME"}
CacheRemove(n, t) ==
  /\ Op
  /\ rr # <<>>
  /\ LET gone == {n} \X (IF t \in Listed THEN Listed ELSE {t})
     IN rr' = Restrict(rr, DOMAIN rr \ gone)
  /\ nsec_p' = IF n = Apex /\ t \in Listed THEN <<>> ELSE nsec_p
  /\ last' = <<>>
  /\ UNCHANGED nsec

\* kr_cache_remove_subtree(): the keys of a chain begin with the zone's name.
RemoveSubtree(n) ==
  /\ Op
  /\ rr # <<>>
  /\ rr' = Restrict(rr, {k \in DOMAIN rr : ~InBailiwick(k[1], n)})
  /\ nsec' = IF n = Apex THEN <<>> ELSE nsec
  /\ nsec_p' = IF n = Apex THEN <<>> ELSE nsec_p
  /\ last' = <<>>

\* The zone is signed anew.  The contents stay, so that it makes a difference only
\* between replies.
Resign(c) ==
  /\ chain # "none" /\ c \notin {"none", chain}
  /\ 0 < ops /\ ops < MaxOps
  /\ chain' = c
  /\ last' = <<>>
  /\ UNCHANGED <<zone, rr, nsec, nsec_p, now, ops>>

Tick ==
  /\ now < MaxTime
  /\ now' = now + Step
  /\ last' = <<>>
  /\ UNCHANGED <<zone, chain, rr, nsec, nsec_p, ops>>

CNext ==
  \/ \E n \in AllNames, t \in QTypes :
       /\ <<n, t>> # <<Apex, "DS">>
       /\ \/ \E cd \in BOOLEAN : Ask(n, t, cd)
          \/ \E lost \in 0..3 : AskOverfull(n, t, lost)
          \/ \E item \in Others(n, t) : AskOther(n, t, item)
  \/ \E n \in AllNames, t \in QTypes : CacheRemove(n, t)
  \/ \E n \in AllNames : RemoveSubtree(n)
  \/ \E c \in AllChains : Resign(c)
  \/ Tick

CSpec == CInit /\ [][CNext]_cvars

-----------------------------------------------------------------------------
(* Properties.                                                              *)

\* What the cache answers to a request that wants validated data is what the zone
\* would answer, from records that came with any other replies, in any order, some
\* of them expired, replaced or removed, of any of the zone's chains: no name is
\* denied that exists or is delegated, and no unvalidated data is used.
CachedIsPublished ==
  \A n \in AllNames, t \in QTypes : <<n, t>> # <<Apex, "DS">> =>
    Peek(n, t, LowestRank(FALSE)) \in {<<"miss">>, Truth(n, t)}

\* Where the cache does not keep what a denial or a wildcard's answer needs: with
\* opt-out, and for a hash before all of the chain's, which the search for a
\* predecessor does not see as covered by the last record.
Unsearchable(n, t) ==
  \/ chain = "optout" /\ Reply(zone, n, t) = "wildcard"
  \/ /\ chain = "NSEC3"
     /\ \E m \in Ancestors(n) \cup {n} \cup {Wildcard(a) : a \in Ancestors(n)} :
          Hash[m] < Hash[FirstOf(chain, Chained(zone, chain))]

\* The cache has the answer that it has just stored, whatever it held before, unless
\* it cannot be searched for.
StashedIsServed ==
  last # <<>> => \/ Truth(last[1], last[2]) = <<"miss">>
                 \/ Unsearchable(last[1], last[2])
                 \/ Peek(last[1], last[2], LowestRank(FALSE)) = Truth(last[1], last[2])
=============================================================================
