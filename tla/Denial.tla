------------------------------- MODULE Denial -------------------------------
(***************************************************************************)
(* The proofs that something is not there, of lib/dnssec/nsec.c and        *)
(* lib/dnssec/nsec3.c, put to the replies of a zone that grows.  A section *)
(* is the sequence of its NSEC or NSEC3 records; those of an honest zone   *)
(* are well formed, so that the errors of malformed ones do not occur.     *)
(***************************************************************************)
EXTENDS Zone, SequencesExt

CONSTANTS
  Chains,       \* of "NSEC", "NSEC3", "optout"
  QTypes,       \* the types asked for
  MaxOwners     \* bounds the zone

VARIABLES zone, chain

vars == <<zone, chain>>

-----------------------------------------------------------------------------
(* lib/dnssec/nsec.c                                                        *)

\* kr_nsec_children_in_zone_check()
ChildrenInZone(types) == ~("DNAME" \in types \/ ("NS" \in types /\ "SOA" \notin types))

\* Mutant: the last record of the chain covers nothing.
NsecCoversNotLast(nsec, sname) ==
  /\ Less(nsec.owner, sname) /\ Less(sname, nsec.next)
  /\ InBailiwick(sname, nsec.owner) => ChildrenInZone(nsec.types)

\* nsec_covers()
NsecCovers(nsec, sname) ==
  /\ Less(nsec.owner, sname)
  /\ ~Less(nsec.owner, nsec.next) \/ Less(sname, nsec.next)
  /\ InBailiwick(sname, nsec.owner) => ChildrenInZone(nsec.types)

\* kr_nsec_bitmap_nodata_check(); no name is the root.
BitmapNodata(types, type) ==
  /\ type \notin types
  /\ type # "CNAME" => "CNAME" \notin types
  /\ CASE type = "DS" -> "SOA" \notin types
       [] type = "CNAME" -> TRUE
       [] OTHER -> ~("NS" \in types /\ "SOA" \notin types)

\* The labels of the signatures of a record; equal to coverign_rrsig_labels().
RrsigLabels(n) == IF IsWildcard(n) THEN Len(n) - 1 ELSE Len(n)

\* name_error_response_check_rr(): the flags of one record.  The wildcards above
\* the apex sort before all of the zone.
NameErrorFlags(nsec, name) ==
  (IF NsecCovers(nsec, name) THEN {"NOEXIST_RRSET"} ELSE {})
  \cup (IF \E m \in Ancestors(name) : NsecCovers(nsec, Wildcard(m))
        THEN {"NOEXIST_WILDCARD"} ELSE {})

\* no_data_response_check_rrtype()
RrtypeFlags(nsec, type) == IF BitmapNodata(nsec.types, type) THEN {"NOEXIST_RRTYPE"} ELSE {}

\* no_data_wildcard_existence_check()
NotExpandedFlags(nsec) ==
  IF RrsigLabels(nsec.owner) = Len(nsec.owner) THEN {"NOEXIST_WILDCARD"} ELSE {}

RrsetNoexist(flags) == flags \cap {"NOEXIST_RRTYPE", "NOEXIST_RRSET"} # {}
ExistenceDenied(flags) == RrsetNoexist(flags) /\ "NOEXIST_WILDCARD" \in flags

\* kr_nsec_name_error_response_check()
NsecNameError(sec, sname) ==
  IF ExistenceDenied(UNION {NameErrorFlags(sec[i], sname) : i \in DOMAIN sec})
  THEN "ok" ELSE "ENOENT"

\* wildcard_match_check()
WildcardMatch(sec, sname, stype) ==
  IF \E i \in DOMAIN sec :
       /\ IsWildcard(sec[i].owner)
       /\ \/ sec[i].owner = sname
          \/ LET common == Len(LongestCommonPrefix({sec[i].owner, sname}))
             IN common = Len(sec[i].owner) - 1 /\ common = RrsigLabels(sec[i].owner)
       /\ BitmapNodata(sec[i].types, stype)
  THEN "ok" ELSE "ENOENT"

\* kr_nsec_existence_denial()
NsecExistenceDenial(sec, sname, stype) ==
  LET flags == UNION {(IF sec[i].owner = sname THEN RrtypeFlags(sec[i], stype)
                       ELSE NameErrorFlags(sec[i], sname)) \cup NotExpandedFlags(sec[i])
                      : i \in DOMAIN sec}
  IN IF ExistenceDenied(flags) THEN "ok"
     ELSE IF RrsetNoexist(flags) THEN WildcardMatch(sec, sname, stype)
     ELSE "ENOENT"

\* kr_nsec_wildcard_answer_response_check()
NsecWildcardAnswer(sec, sname) ==
  IF \E i \in DOMAIN sec : NsecCovers(sec[i], sname) THEN "ok" ELSE "ENOENT"

UnsignedTypes(types) == "NS" \in types /\ "DS" \notin types /\ "SOA" \notin types

\* kr_nsec_ref_to_unsigned(), which is called when update_ds() has found no DS.
NsecRefToUnsigned(sec, cut) ==
  LET found == {i \in DOMAIN sec : sec[i].owner = cut}
  IN IF found = {} THEN "NOT_FOUND"
     ELSE IF \E i \in found : UnsignedTypes(sec[i].types) THEN "ok" ELSE "EINVAL"

-----------------------------------------------------------------------------
(* lib/dnssec/nsec3.c.  hash_name() and read_owner_hash() are Hash.         *)

\* covers_name()
CoversName(nsec3, name) ==
  LET o == Hash[nsec3.owner]  h == Hash[name]  x == Hash[nsec3.next]
  IN IF o < x THEN o < h /\ h < x ELSE o < h \/ h < x

\* matches_name()
MatchesName(nsec3, name) == Hash[nsec3.owner] = Hash[name]

\* closest_encloser_match(): the encloser of the name that a record matches.
EncloserMatch(nsec3, name) == {m \in Ancestors(name) : MatchesName(nsec3, m)}

FirstCovering(sec, name) == {i \in DOMAIN sec : CoversName(sec[i], name)}

\* Mutant: the encloser itself has to be covered.
EncloserProofsHigh(sec, sname) ==
  {[at |-> i, encloser |-> m, covering |-> Min(FirstCovering(sec, m))] :
     <<i, m>> \in {<<j, n>> \in (DOMAIN sec) \X Ancestors(sname) :
                    /\ ChildrenInZone(sec[j].types)
                    /\ n \in EncloserMatch(sec[j], sname)
                    /\ FirstCovering(sec, n) # {}}}

\* closest_encloser_proof(): what the turns of its loop can find.
EncloserProofs(sec, sname) ==
  {[at |-> i, encloser |-> m, covering |-> Min(FirstCovering(sec, NextCloser(sname, m)))] :
     <<i, m>> \in {<<j, n>> \in (DOMAIN sec) \X Ancestors(sname) :
                    /\ ChildrenInZone(sec[j].types)
                    /\ n \in EncloserMatch(sec[j], sname)
                    /\ FirstCovering(sec, NextCloser(sname, n)) # {}}}

\* The first of them ends it.
ClosestEncloserProof(proofs) ==
  CHOOSE p \in proofs : \A q \in proofs : p.at <= q.at

OptoutOr(nsec3, else) == IF nsec3.optout THEN "ERANGE" ELSE else

\* covers_closest_encloser_wildcard()
CoveredBy(sec, name) ==
  IF FirstCovering(sec, name) = {} THEN "ENOENT"
  ELSE OptoutOr(sec[Min(FirstCovering(sec, name))], "ok")

\* kr_nsec3_wildcard_answer_response_check()
Nsec3WildcardAnswer(sec, sname, encloser) == CoveredBy(sec, NextCloser(sname, encloser))

\* kr_nsec3_name_error_response_check()
Nsec3NameError(sec, sname) ==
  LET proofs == EncloserProofs(sec, sname)
      p == ClosestEncloserProof(proofs)
      wildcard == CoveredBy(sec, Wildcard(p.encloser))
  IN IF proofs = {} THEN "ENOENT"
     ELSE IF wildcard # "ok" THEN wildcard
     ELSE OptoutOr(sec[p.covering], "ok")

\* nodata_find(), of which matches_closest_encloser_wildcard() is an instance.
NodataFind(sec, name, type) ==
  \E i \in DOMAIN sec : MatchesName(sec[i], name) /\ BitmapNodata(sec[i].types, type)

\* kr_nsec3_no_data()
Nsec3NoData(sec, sname, stype) ==
  LET proofs == EncloserProofs(sec, sname)
      p == ClosestEncloserProof(proofs)
  IN IF NodataFind(sec, sname, stype) THEN "ok"
     ELSE IF proofs = {} THEN "ENOENT"
     ELSE OptoutOr(sec[p.covering],
                   IF NodataFind(sec, Wildcard(p.encloser), stype) THEN "ok" ELSE "ENOENT")

\* kr_nsec3_ref_to_unsigned(), the same.
Nsec3RefToUnsigned(sec, cut) ==
  LET proofs == EncloserProofs(sec, cut)
  IN IF sec = <<>> THEN "NOT_FOUND"
     ELSE IF \E i \in DOMAIN sec : MatchesName(sec[i], cut) /\ UnsignedTypes(sec[i].types)
     THEN "ok"
     ELSE IF proofs = {} THEN "EINVAL"
     ELSE OptoutOr(sec[ClosestEncloserProof(proofs).covering], "EINVAL")

-----------------------------------------------------------------------------
\* What the validator makes of a reply, which it judges by its form: validate(),
\* update_delegation(), kr_rrset_validate().  A referral comes with DS or without;
\* where there is one it becomes the trust anchor.
Verdict(ds, sec, n, t) ==
  LET reply == Reply(zone, n, t)
  IN CASE reply = "nxdomain" ->
            IF chain = "NSEC" THEN NsecNameError(sec, n) ELSE Nsec3NameError(sec, n)
       [] reply \in {"nodata", "wildcard nodata"} ->
            IF chain = "NSEC" THEN NsecExistenceDenial(sec, n, t) ELSE Nsec3NoData(sec, n, t)
       [] reply = "wildcard" ->
            IF chain = "NSEC" THEN NsecWildcardAnswer(sec, n)
            ELSE Nsec3WildcardAnswer(sec, n, Encloser(zone, n))
       [] reply \in {"referral", "unsigned referral"} ->
            IF ds THEN "DS"
            ELSE IF chain = "NSEC" THEN NsecRefToUnsigned(sec, CutOf(zone, n))
            ELSE Nsec3RefToUnsigned(sec, CutOf(zone, n))

Init ==
  /\ zone = EmptyZone
  /\ chain \in Chains

Add(n, kind) ==
  /\ Cardinality(Owners(zone)) <= MaxOwners
  /\ MayAdd(zone, n, kind)
  /\ zone' = Added(zone, n, kind)
  /\ UNCHANGED chain

Next == \E n \in Names, kind \in Kinds : Add(n, kind)

Spec == Init /\ [][Next]_vars

-----------------------------------------------------------------------------
(* Properties.                                                              *)

\* The DS of the apex is in the parent's zone.
Questions ==
  {q \in AllNames \X QTypes : /\ q # <<Apex, "DS">>
                             /\ Reply(zone, q[1], q[2]) \notin {"answer", "redirected"}}

\* An empty non-terminal right after a wildcard: the record that shows it is taken
\* for one of an expanded wildcard.
AfterWildcard(n) ==
  /\ chain = "NSEC" /\ n \notin Owners(zone) /\ Exists(zone, n)
  /\ IsWildcard(Cover(zone, chain, n).owner)

\* Opt-out hides the encloser, and a wildcard above it exists: RFC 5155 has no
\* proof for this.
Unprovable(n) ==
  /\ chain = "optout" /\ n \notin Chained(zone, chain)
  /\ Wildcard(Provable(zone, chain, n)) \in Owners(zone)
  /\ Provable(zone, chain, n) # Encloser(zone, n)

\* Whatever a zone holds, with wildcards, empty non-terminals, delegations and
\* opt-out, and in whatever order the records of a reply come: what a server
\* denies is accepted, and as secure unless opt-out leaves it open.  A referral to
\* a signed zone that has lost its DS never counts as one to an unsigned zone,
\* whichever records of the zone's chain come with it.  Not accepted is an empty
\* non-terminal right after a wildcard.
DenialAccepted ==
  \A q \in Questions : ~AfterWildcard(q[1]) /\ ~Unprovable(q[1]) =>
    LET verdicts(S) == {Verdict(FALSE, sec, q[1], q[2]) : sec \in SetToSeqs(S)}
        records == {Record(zone, chain, m) : m \in Chained(zone, chain)}
    IN IF Reply(zone, q[1], q[2]) = "referral"
       THEN /\ Verdict(TRUE, <<>>, q[1], q[2]) = "DS"
            /\ \A S \in SUBSET records : verdicts(S) \cap {"ok", "ERANGE"} = {}
       ELSE verdicts(Proof(zone, chain, q[1], q[2]))
              \subseteq (IF chain = "optout" THEN {"ok", "ERANGE"} ELSE {"ok"})
=============================================================================
