-------------------------------- MODULE Zone --------------------------------
(***************************************************************************)
(* A signed zone and what its servers say, as far as the resolver's proofs *)
(* of non-existence and its cache depend on it.  It is outside of the      *)
(* program: it is here as lib/dnssec/ and lib/cache/ expect it.            *)
(*                                                                         *)
(* A name is the tuple of its labels from the apex down; the label 0 is    *)
(* the asterisk, which sorts first.  A chain is of NSEC, or of NSEC3 with  *)
(* or without opt-out.                                                     *)
(***************************************************************************)
EXTENDS Integers, FiniteSets, FiniteSetsExt, Sequences

CONSTANTS
  Names,        \* the names below the apex that exist or are asked for
  Hash          \* the hash of each name, the apex included

Star == 0
Apex == <<>>
AllNames == Names \cup {Apex}
IsWildcard(n) == n # Apex /\ n[Len(n)] = Star
Parent(n) == SubSeq(n, 1, Len(n) - 1)
Wildcard(n) == Append(n, Star)

\* knot_dname_in_bailiwick(): n is m or below it.
InBailiwick(n, m) == Len(m) <= Len(n) /\ SubSeq(n, 1, Len(m)) = m
Below(n, m) == n # m /\ InBailiwick(n, m)

\* knot_dname_cmp(): the canonical order.
Less(n, m) ==
  \/ Below(m, n)
  \/ \E i \in 1..Len(n) : /\ i <= Len(m) /\ n[i] < m[i]
                          /\ \A j \in 1..(i - 1) : n[j] = m[j]

\* What a name may own.
Kinds == {"A", "CNAME", "NS", "DS", "DNAME"}
TypesOf == [A |-> {"A"}, CNAME |-> {"CNAME"}, NS |-> {"NS"}, DS |-> {"NS", "DS"},
            DNAME |-> {"DNAME"}, SOA |-> {"SOA", "NS"}]

\* A zone is a function from its owners to kinds.
EmptyZone == [n \in {Apex} |-> "SOA"]
Owners(z) == DOMAIN z
MayAdd(z, n, kind) ==
  /\ n \notin Owners(z)
  /\ \A m \in Owners(z) : Below(n, m) => z[m] \notin {"NS", "DS", "DNAME"}
  /\ kind \in {"NS", "DS", "DNAME"} => ~IsWildcard(n) /\ ~\E m \in Owners(z) : Below(m, n)
Added(z, n, kind) == [m \in Owners(z) \cup {n} |-> IF m = n THEN kind ELSE z[m]]

Exists(z, n) == \E m \in Owners(z) : InBailiwick(m, n)
Ancestors(n) == {SubSeq(n, 1, i) : i \in 0..(Len(n) - 1)}
Longest(S) == CHOOSE n \in S : \A m \in S : Len(m) <= Len(n)
Encloser(z, n) == Longest({m \in Ancestors(n) : Exists(z, m)})
NextCloser(n, m) == SubSeq(n, 1, Len(m) + 1)
Delegations(z) == {n \in Owners(z) : z[n] \in {"NS", "DS"}}

-----------------------------------------------------------------------------
(* The answer to a question of a name and a type.                           *)

Has(z, n, t) == n \in Owners(z) /\ TypesOf[z[n]] \cap {t, "CNAME"} # {}

Reply(z, n, t) ==
  LET cuts == {d \in Delegations(z) : InBailiwick(n, d) /\ ~(d = n /\ t = "DS")}
      w == Wildcard(Encloser(z, n))
  IN CASE cuts # {} -> IF \E d \in cuts : z[d] = "NS" THEN "unsigned referral" ELSE "referral"
       [] \E m \in Owners(z) : Below(n, m) /\ z[m] = "DNAME" -> "redirected"
       [] cuts = {} /\ Exists(z, n) -> IF Has(z, n, t) THEN "answer" ELSE "nodata"
       [] OTHER -> IF w \notin Owners(z) THEN "nxdomain"
                   ELSE IF Has(z, w, t) THEN "wildcard" ELSE "wildcard nodata"

CutOf(z, n) == CHOOSE d \in Delegations(z) : InBailiwick(n, d)

-----------------------------------------------------------------------------
(* The chains.  A record is its owner, the next one and the types.          *)

\* The names with NSEC3: the empty ones too, but with opt-out none that is there
\* only for delegations without DS.
Hashed(z, optout) ==
  {n \in AllNames : \E m \in Owners(z) : InBailiwick(m, n) /\ ~(optout /\ z[m] = "NS")}
Chained(z, chain) ==
  IF chain = "NSEC" THEN Owners(z) ELSE Hashed(z, chain = "optout")

Before(chain, n, m) == IF chain = "NSEC" THEN Less(n, m) ELSE Hash[n] < Hash[m]

FirstOf(chain, S) == CHOOSE n \in S : \A m \in S \ {n} : Before(chain, n, m)
LastOf(chain, S) == CHOOSE n \in S : \A m \in S \ {n} : Before(chain, m, n)

Record(z, chain, n) ==
  LET S == Chained(z, chain)
      after == {m \in S : Before(chain, n, m)}
  IN [owner |-> n, next |-> FirstOf(chain, IF after = {} THEN S ELSE after),
      types |-> IF n \in Owners(z) THEN TypesOf[z[n]] ELSE {},
      optout |-> chain = "optout"]

\* The record that covers a name which has none.
Cover(z, chain, n) ==
  LET S == Chained(z, chain)
      before == {m \in S : Before(chain, m, n)}
  IN Record(z, chain, LastOf(chain, IF before = {} THEN S ELSE before))

MatchOrCover(z, chain, n) ==
  IF n \in Chained(z, chain) THEN Record(z, chain, n) ELSE Cover(z, chain, n)

\* The closest encloser that can be proved, and what proves it.
Provable(z, chain, n) == Longest(Ancestors(n) \cap Chained(z, chain))
EncloserProof(z, chain, n) ==
  LET m == Provable(z, chain, n)
  IN {Record(z, chain, m), Cover(z, chain, NextCloser(n, m))}

\* The records of a reply, RFC 4035 section 3.1.3 and RFC 5155 section 7.2.
Proof(z, chain, n, t) ==
  LET reply == Reply(z, n, t)
      w == Wildcard(Encloser(z, n))
      d == CutOf(z, n)
  IN CASE reply = "nodata" ->
            IF chain = "NSEC" \/ n \in Chained(z, chain) THEN {MatchOrCover(z, chain, n)}
            ELSE EncloserProof(z, chain, n)
       [] reply = "wildcard nodata" ->
            IF chain = "NSEC" THEN {Cover(z, chain, n), Record(z, chain, w)}
            ELSE EncloserProof(z, chain, n) \cup {Record(z, chain, w)}
       [] reply = "nxdomain" ->
            IF chain = "NSEC" THEN {Cover(z, chain, n), Cover(z, chain, w)}
            ELSE EncloserProof(z, chain, n)
                   \cup {Cover(z, chain, Wildcard(Provable(z, chain, n)))}
       [] reply = "wildcard" ->
            IF chain = "NSEC" THEN {Cover(z, chain, n)}
            ELSE {Cover(z, chain, NextCloser(n, Encloser(z, n)))}
       [] reply = "unsigned referral" ->
            IF d \in Chained(z, chain) THEN {Record(z, chain, d)} ELSE EncloserProof(z, chain, d)
       [] OTHER -> {}
=============================================================================
