----------------------------- MODULE MCLibrary ------------------------------
(* Resolve, the cache's layer and the proofs of non-existence for TLC.  A   *)
(* behaviour is one of either: the variables of the others stay as they     *)
(* are.                                                                     *)
EXTENDS MCResolve

CONSTANTS
  CacheNames, CacheHash, CacheTypes, Zones, AllChains, Ttl, NsecTtl, TtlMax, TtlMargin, Step,
  MaxTime, MaxOps,
  DenialNames, DenialHash, DenialTypes, Chains, MaxOwners

VARIABLES
  part,
  zone, chain, rr, nsec, nsec_p, now, ops, last

D == INSTANCE Denial WITH Names <- DenialNames, Hash <- DenialHash, QTypes <- DenialTypes
C == INSTANCE Aggressive WITH Names <- CacheNames, Hash <- CacheHash, QTypes <- CacheTypes

zvars == <<zone, chain>>
ovars == <<rr, nsec, nsec_p, now, ops, last>>

-----------------------------------------------------------------------------
\* Names of one and two labels, wildcards included, and hashes in another order
\* than the names.
MCCacheNames == {<<x>> : x \in 0..2} \cup {<<x, y>> : x \in 1..2, y \in 0..1}
MCDenialNames == {<<x>> : x \in 0..2} \cup {<<x, y>> : x \in 1..2, y \in 0..2}
Place(n) == IF n = <<>> THEN 12 ELSE 4 * n[1] + (IF Len(n) = 2 THEN n[2] + 1 ELSE 0)
MCHash == [n \in MCDenialNames \cup {<<>>} |-> (5 * Place(n) + 5) % 17]

\* Wildcards at the apex and below a name that has nothing, delegations with and
\* without DS, a DNAME, an alias.
MCZones ==
  {(<<>> :> "SOA") @@ (<<1>> :> "NS") @@ (<<0>> :> "A"),
   (<<>> :> "SOA") @@ (<<1>> :> "DS") @@ (<<2, 0>> :> "A"),
   (<<>> :> "SOA") @@ (<<1>> :> "DNAME") @@ (<<2, 1>> :> "CNAME")}

-----------------------------------------------------------------------------
MCInit ==
  /\ part \in {"resolve", "cache", "denial"}
  /\ Init /\ (part # "resolve" => r = ResolveQuery(Base))
  /\ rr = <<>> /\ nsec = <<>> /\ nsec_p = <<>> /\ now = 0 /\ ops = 0 /\ last = <<>>
  /\ \/ part = "cache" /\ C!CInit
     \/ part # "cache" /\ D!Init
  /\ part \notin {"cache", "denial"} => chain = "NSEC"

MCNext ==
  \/ part = "resolve" /\ Next /\ UNCHANGED <<part, zvars, ovars>>
  \/ part = "cache" /\ C!CNext /\ UNCHANGED <<part, vars>>
  \/ part = "denial" /\ D!Next /\ UNCHANGED <<part, vars, ovars>>

MCSpec == MCInit /\ [][MCNext]_<<part, vars, zvars, ovars>>

-----------------------------------------------------------------------------
\* What the cache answers from its entries the zone answers too (Aggressive).
CachedIsPublished == part = "cache" => C!CachedIsPublished

\* A reply that was just stored is what the next such question gets (Aggressive).
StashedIsServed == part = "cache" => C!StashedIsServed

\* The proofs of an honest zone are accepted (Denial).
DenialAccepted == part = "denial" => D!DenialAccepted
=============================================================================
