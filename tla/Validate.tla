------------------------------ MODULE Validate ------------------------------
(***************************************************************************)
(* The validator layer, lib/layer/validate.c, in iterative mode, with the  *)
(* parts of lib/dnssec.c it calls: which of the selected records are       *)
(* proven secure, what a query and its parents learn about the security of *)
(* their zone cuts, and when an answer has to wait for a DS, a DNSKEY or   *)
(* an RRSIG (YIELD).                                                       *)
(*                                                                         *)
(* The cryptography is the fields "good" and "true" of an entry: signatures *)
(* that match what the zone published, and content that is what it         *)
(* published.  The checks of NSEC and NSEC3 records are the field "proof". *)
(***************************************************************************)
EXTENDS Iterate

CONSTANT MAX_REVALIDATION_CNT

Mine(r, i, e) == e.uid = i /\ ~e.yielded

RankRecords(r, i, rank, bailiwick) ==
  LET set(arr) == [k \in DOMAIN arr |->
                     IF /\ arr[k].uid = i
                        /\ InBailiwick(arr[k].owner, bailiwick)
                        /\ arr[k].rank \in {"INITIAL", "MISSING"}
                     THEN [arr[k] EXCEPT !.rank = rank] ELSE arr[k]]
  IN [r EXCEPT !.answ = set(@), !.auth = set(@)]

\* A parent that waits for the address of a name server is marked too.
InsecureAllParents(r, i) ==
  LET up[j \in 0..Len(r.qry)] ==
        IF j = 0 THEN {}
        ELSE IF r.qry[j].stype \in {"DS", "RRSIG"} THEN {j} \cup up[r.qry[j].parent]
        ELSE {j}
  IN up[r.qry[i].parent]

\* The parents up to the first that is not itself after a DS or an RRSIG, or
\* up to one that waits for the address of a name server.
InsecureParents(r, i) ==
  LET up[j \in 0..Len(r.qry)] ==
        IF j = 0 \/ AwaitsAddress(r, j) THEN {}
        ELSE IF r.qry[j].stype \in {"DS", "RRSIG"} THEN {j} \cup up[r.qry[j].parent]
        ELSE {j}
  IN up[r.qry[i].parent]

MarkInsecureParents(r, i) ==
  [r EXCEPT !.qry = [j \in DOMAIN @ |->
     IF j \in InsecureParents(r, i)
     THEN [@[j] EXCEPT !.flags = (@ \ {"DNSSEC_WANT"}) \cup {"DNSSEC_INSECURE"}]
     ELSE @[j]]]

-----------------------------------------------------------------------------
(* Signatures.                                                              *)

\* kr_rrset_validate_with_key(): the first applicable RRSIG by another signer
\* ends the search, whichever query selected it.
RrsetValid(arr, e, zone) ==
  LET sigs == {k \in DOMAIN arr : /\ arr[k].type = "RRSIG"
                                  /\ arr[k].owner = e.owner
                                  /\ arr[k].covers \in {e.type, "any"}}
  IN /\ InBailiwick(e.owner, zone)
     /\ \E k \in sigs : /\ arr[k].good /\ e.true
                        /\ \A m \in sigs : m <= k => arr[m].signer = zone

\* validate_section(): the rank each entry gets; a foreign RRSIG ends the loop.
SectionRank(arr, e, key) ==
  IF e.type = "RRSIG" THEN IF e.signer = key THEN "OMIT" ELSE "MISMATCH"
  ELSE IF RrsetValid(arr, e, key) THEN "SECURE" ELSE "MISSING"

ValidateSection(r, i, arr) ==
  LET key == r.qry[i].cut.key
      todo == {k \in DOMAIN arr : Mine(r, i, arr[k])
                                  /\ arr[k].rank \notin {"OMIT", "SECURE"}}
      foreign == {k \in todo : SectionRank(arr, arr[k], key) = "MISMATCH"}
  IN [k \in DOMAIN arr |->
        IF k \in todo /\ (\A f \in foreign : k <= f)
        THEN [arr[k] EXCEPT !.rank = SectionRank(arr, arr[k], key)]
        ELSE arr[k]]

\* err_cnt of the section: an entry it has just ranked is not right.
SectionErrs(r, i, arr) ==
  \E k \in DOMAIN arr : Mine(r, i, arr[k]) /\ arr[k].rank \in {"MISSING", "MISMATCH"}

FirstOf(arr, Test(_)) == SelectInSeq(arr, Test)

\* signature_authority(): the signer of the first RRSIG nobody has judged yet
SignatureAuthority(r) ==
  LET fresh(e) == /\ ~e.yielded /\ e.type = "RRSIG"
                  /\ e.rank \in {"INITIAL", "MISMATCH"}
      an == FirstOf(r.answ, fresh)
      ns == FirstOf(r.auth, fresh)
  IN IF an # 0 THEN r.answ[an].signer
     ELSE IF ns # 0 THEN r.auth[ns].signer ELSE NoName

\* The signer is above the cut: back to the parent cut if it is remembered.
Ascend(r, i, signer) ==
  LET cut == r.qry[i].cut
      back == IF cut.up # <<>> THEN [r EXCEPT !.qry[i].cut = CutParent(cut)]
              ELSE Set(r, i, {"AWAIT_CUT"})
  IN [back EXCEPT !.qry[i].cut.name = signer]

\* check_signer(): the state is DONE when the records can be validated now.
CheckSigner(r, i, p) ==
  LET cut == r.qry[i].cut
      signer == SignatureAuthority(r)
      moved == IF signer = NoName
               THEN IF p.qtype = "NS" /\ Below(p.qname, cut.name)
                    THEN [r EXCEPT !.qry[i].cut.name = p.qname] ELSE r
               ELSE IF Below(signer, cut.name)
               THEN [r EXCEPT !.qry[i].cut.name = signer]
               ELSE IF signer # cut.name THEN Ascend(r, i, signer)
               ELSE r
  IN IF \/ cut.ta = NoName \/ cut.ta = signer
        \/ signer = NoName /\ r.state = "YIELD"
     THEN WithState(r, "DONE")
     ELSE WithState(moved, "YIELD")

\* rrsig_not_found(): ask for the signatures of the owner by themselves.
RrsigNotFound(r, i, owner) ==
  LET q == r.qry[i]
      start == LongestCommonPrefix({owner, q.cut.name})
      \* the cut, or the nearest remembered one of that name
      chain == Append(q.cut.up, [q.cut EXCEPT !.up = <<>>])
      named == {k \in DOMAIN chain : chain[k].name = start}
      src == chain[CHOOSE k \in named : \A m \in named : m <= k]
      pushed == Push(r, i, owner, "RRSIG")
      j == Len(pushed.qry)
      next == IF named # {}
              THEN [pushed EXCEPT !.qry[j].cut =
                      CutCopyTrust(CutCopy(EmptyCut(start), src), src)]
              ELSE Set([pushed EXCEPT !.qry[j].cut = EmptyCut(start)], j, {"AWAIT_CUT"})
  IN IF q.stype = "DS" THEN WithState(r, "FAIL")
     ELSE WithState(Set(next, j, {"DNSSEC_WANT"}), "YIELD")

\* Entries without a valid signature are let through.
CheckMismatchOnly(r, i, field) ==
  IF \E k \in DOMAIN r[field] : Mine(r, i, r[field][k]) /\ r[field][k].rank = "MISMATCH"
  THEN Bogus(r, i) ELSE WithState(r, "DONE")

\* check_validation_result() on one of the two arrays, named by its field
CheckValidationResult(r, i, field) ==
  LET arr == r[field]
      mismatch(e) == Mine(r, i, e) /\ e.rank = "MISMATCH"
      invalid(e) == Mine(r, i, e) /\ e.rank \notin {"OMIT", "SECURE"}
      m == FirstOf(arr, mismatch)
      k == IF m # 0 THEN m ELSE FirstOf(arr, invalid)
      e == arr[k]
      counted == [r EXCEPT ![field][k].revalidation_cnt = @ + 1]
  IN IF k = 0 THEN WithState(r, "DONE")
     ELSE IF e.revalidation_cnt + 1 > MAX_REVALIDATION_CNT THEN Bogus(counted, i)
     ELSE CASE e.rank = "MISMATCH" ->
                 WithState(IF Below(e.signer, r.qry[i].cut.name)
                           THEN Set([counted EXCEPT !.qry[i].cut.name = e.signer],
                                    i, {"AWAIT_CUT"})
                           ELSE IF e.signer # r.qry[i].cut.name
                           THEN Ascend(counted, i, e.signer) ELSE counted, "YIELD")
            [] e.rank = "MISSING" -> RrsigNotFound(counted, i, e.owner)
            [] OTHER -> Bogus(counted, i)

-----------------------------------------------------------------------------
(* Keys and delegations.                                                    *)

\* kr_dnskeys_trusted() for the DNSKEY set of an answer from upstream
DnskeysTrusted(r, i, p) ==
  LET cut == r.qry[i].cut
      e == [owner |-> p.qname, type |-> "DNSKEY", true |-> p.true]
  IN cut.ta = p.qname /\ cut.name = p.qname /\ RrsetValid(r.answ, e, cut.name)

\* validate_keyset(), with the caller's reaction: the state is DONE when the
\* validation goes on, "PASS" when the zone has just been found insecure.
ValidateKeyset(r, i, p) ==
  LET cut == r.qry[i].cut
      updated == p.an = "rr" /\ InBailiwick(p.qname, cut.name)
      keyed == IF updated THEN [r EXCEPT !.qry[i].cut.key = p.qname] ELSE r
      unkeyed == [r EXCEPT !.qry[i].cut.key = NoName]
      insecure == GoInsecure(unkeyed, i)
  IN IF ~updated \/ Has(r, i, "CACHED") THEN WithState(keyed, "DONE")
     ELSE IF cut.ta = NoName THEN WithState([r EXCEPT !.aborted = TRUE], "FAIL")
     ELSE IF cut.ta \in r.w.unsupported
     THEN WithState(MarkInsecureParents(RankRecords(insecure, i, "INSECURE", cut.name), i),
                    "PASS")
     ELSE IF DnskeysTrusted(keyed, i, p) THEN WithState(keyed, "DONE")
     ELSE Bogus(unkeyed, i)

\* The proofs of non-existence of name or type.
CheckDenial(r, i, p) ==
  LET denies == /\ ~Has(r, i, "CACHED") /\ ~Has(r, i, "CNAME")
                /\ \/ p.rcode = "NXDOMAIN"
                   \/ p.rcode = "NOERROR" /\ p.an = "none" /\ p.aa
  IN CASE ~denies \/ p.proof = "ok" -> WithState(r, "DONE")
       [] denies /\ p.proof = "optout" -> WithState(Set(r, i, {"DNSSEC_OPTOUT"}), "DONE")
       [] denies /\ p.proof = "none" -> Bogus(r, i)

\* The next check, unless the last one has returned.
Then(r, Check(_)) == IF r.state = "DONE" THEN Check(r) ELSE r

\* validate_records() and the two calls of check_validation_result()
ValidateRecords(r, i) ==
  LET an == ValidateSection(r, i, r.answ)
      ns == ValidateSection(r, i, r.auth)
      ranked == [r EXCEPT !.answ = an, !.auth = ns, !.state = "DONE"]
      answer(x) == IF SectionErrs(x, i, x.answ) THEN CheckValidationResult(x, i, "answ") ELSE x
      authority(x) == IF SectionErrs(x, i, x.auth) THEN CheckValidationResult(x, i, "auth")
                      ELSE x
  IN IF Has(r, i, "CACHED") THEN WithState(r, "DONE")
     ELSE IF r.qry[i].cut.key = NoName THEN Bogus(r, i)
     ELSE Then(Then(ranked, answer), authority)

\* A proof that there is no DS counts in a referral only.
UpdateReferral(r, i, p) ==
  LET owner == IF p.aa THEN p.qname ELSE p.ref
  IN IF p.aa /\ p.qtype # "DS" THEN WithState(r, "DONE")
     ELSE IF p.ds \/ p.an = "rr" THEN [r EXCEPT !.qry[i].cut.ta = owner, !.state = "DONE"]
     ELSE IF ~p.aa /\ p.proof # "none"
     THEN WithState(Set(r, i, {"DNSSEC_NODS"}), "DONE")
     ELSE Bogus(r, i)

\* update_delegation(): "NOT_FOUND" when there is neither a DS nor a denial.
UpdateDelegation(r, i, p) ==
  LET q == r.qry[i]
      referral == ~p.aa
      owner == IF referral THEN p.ref ELSE p.qname
      found == IF referral THEN p.ds ELSE p.an = "rr"
  IN IF ~referral /\ (p.qtype # "DS" \/ "CNAME" \in q.flags \/ p.rcode = "NXDOMAIN")
     THEN WithState(r, "DONE")
     ELSE IF found THEN [r EXCEPT !.qry[i].cut.ta = owner, !.state = "DONE"]
     ELSE IF p.proof # "none"
     THEN WithState(IF p.qname = Root THEN r ELSE Set(r, i, {"DNSSEC_NODS"}), "DONE")
     ELSE IF referral /\ p.ref # NoName
     THEN IF q.stype = "DS" THEN Bogus(r, i)
          ELSE IF q.cut.ta = NoName THEN WithState([r EXCEPT !.aborted = TRUE], "FAIL")
          ELSE WithState(r, IF q.cut.ta = q.cut.name THEN "DONE" ELSE "NOT_FOUND")
     ELSE Bogus(r, i)

\* A secure denial at the name itself, which shows that it is delegated.
MatchesDelegation(r, i) ==
  \E k \in DOMAIN r.auth :
     /\ Mine(r, i, r.auth[k]) /\ r.auth[k].type = "NSEC" /\ r.auth[k].rank = "SECURE"
     /\ r.auth[k].owner = r.qry[i].sname /\ r.qry[i].sname \in r.w.zones

UpdateParentKeys(r, i, type) ==
  LET q == r.qry[i]
      give(f, v) == IF v = NoName THEN WithState(r, "FAIL")
                    ELSE [r EXCEPT !.qry[q.parent].cut[f] = v]
  IN CASE type = "DNSKEY" -> give("key", q.cut.key)
       [] type = "DS" /\ "DNSSEC_INSECURE" \in q.flags -> MarkInsecureParents(r, i)
       [] type = "DS" /\ "DNSSEC_INSECURE" \notin q.flags /\ "DNSSEC_NODS" \in q.flags ->
            IF "DNSSEC_OPTOUT" \in q.flags \/ MatchesDelegation(r, i)
            THEN MarkInsecureParents(r, i) ELSE r
       [] type = "DS" /\ q.flags \cap {"DNSSEC_INSECURE", "DNSSEC_NODS"} = {} ->
            give("ta", q.cut.ta)
       [] OTHER -> r

\* What follows the validation of the records.
AcceptDelegation(r, i, p, yielded) ==
  LET d == UpdateDelegation(r, i, p)
      referral == p.an = "none" /\ ~p.aa
      type == IF p.rcode = "NOERROR" /\ referral /\ Has(d, i, "DNSSEC_NODS")
              THEN "DS" ELSE p.qtype
  IN CASE d.state = "NOT_FOUND" ->
            IF yielded THEN Bogus(d, i) ELSE WithState(d, "YIELD")
       [] d.state = "FAIL" -> d
       [] d.state = "DONE" ->
            IF d.qry[i].parent = 0 THEN d ELSE UpdateParentKeys(d, i, type)

-----------------------------------------------------------------------------
(* validate(), the consume callback of the layer.                           *)

ValidateInsecure(r, i) ==
  LET ranked == IF Has(r, i, "DNSSEC_INSECURE")
                THEN RankRecords(r, i, "INSECURE", r.qry[i].cut.name) ELSE r
  IN IF Has(r, i, "DNSSEC_INSECURE") /\ Has(r, i, "CACHED") /\ r.qry[i].parent # 0
     THEN WithState(MarkInsecureParents(ranked, i), "DONE")
     ELSE IF r.state = "YIELD" THEN WithState(ranked, "DONE") ELSE ranked

\* check_empty_answer(): records came, but the iterator took none of them.
EmptyAnswer(r, i, p) ==
  /\ p.an # "none"
  /\ ~\E k \in DOMAIN r.answ :
        /\ r.answ[k].uid = i
        /\ r.answ[k].type # "RRSIG" \/ r.qry[i].stype = "RRSIG"

ValidateSecure(r, i, p) ==
  LET fresh == ~Has(r, i, "CACHED") /\ p.aa
      signer == IF fresh THEN CheckSigner(r, i, p) ELSE WithState(r, "DONE")
      keyset(x) == IF p.aa /\ p.qtype = "DNSKEY" THEN ValidateKeyset(x, i, p) ELSE x
      denial(x) == CheckDenial(x, i, p)
      records(x) == ValidateRecords(x, i)
      delegation(x) == AcceptDelegation(x, i, p, r.state = "YIELD")
      end == Then(Then(Then(Then(signer, keyset), denial), records), delegation)
      undone == ~Has(r, i, "CACHED") /\ p.qtype = "RRSIG" /\ ~p.do
  IN IF undone \/ (fresh /\ EmptyAnswer(r, i, p)) THEN Bogus(r, i)
     ELSE [end EXCEPT !.state = IF @ = "PASS" THEN "DONE" ELSE @]

ValidateConsume(r, i, p) ==
  IF r.state \in {"FAIL", "CONSUME"} THEN r
  ELSE IF ~Has(r, i, "DNSSEC_WANT") THEN ValidateInsecure(r, i)
  ELSE IF r.w.cd THEN RankRecords(r, i, "OMIT", Root)
  ELSE ValidateSecure(r, i, p)
=============================================================================
