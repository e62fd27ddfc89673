------------------------------ MODULE Zimport ------------------------------
(***************************************************************************)
(* Import of the root zone into the cache (daemon/zimport.c, called from   *)
(* cache.zone_import() in daemon/bindings/cache.c).  A file is parsed into *)
(* RRsets at once; a timer starts the import 100 ms later.  Each RRset is  *)
(* put into a made-up answer together with what a server would send along, *)
(* which is validated and cached by the resolver as if it had been         *)
(* received: first the DNSKEY, then the NS, with DS or NSEC and glue, then *)
(* what did not go along with an NS.                                       *)
(***************************************************************************)
EXTENDS Integers, Sequences, FiniteSets, SequencesExt

CONSTANTS
  Zones,            \* contents of zone files, see below
  Order,            \* the order of names and types in map_t, a sequence of RRsets
  MaxImports        \* bound on the calls of cache.zone_import()

\* A zone: the RRsets it has, <<owner, type>>; those that have a RRSIG; the names in the
\* NS of an owner; and those RRsets whose signatures do not verify.
Root == "."
Sig(rr) == <<rr[1], "RRSIG", rr[2]>>
DNSKEY == <<Root, "DNSKEY">>

VARIABLES
  z_import,         \* worker->z_import
  timer,            \* the timer of the context runs
  anchor,           \* the trust anchor for the root: "set", "changed" since the parsing
  cached,           \* RRsets in answers the resolver accepted
  last,             \* the last import: its zone, the answers made up, its end
  imports
vars == <<z_import, timer, anchor, cached, last, imports>>

NoZone == [rrsets |-> {}, signed |-> {}, names |-> <<>>, bad |-> {}]
NoImport == [zone |-> NoZone, answers |-> <<>>, result |-> "none"]
NoContext == [allocated |-> FALSE, started |-> FALSE, origin |-> "null", zone |-> NoZone]

Init ==
  /\ z_import = NoContext /\ timer = FALSE /\ anchor = "set"
  /\ cached = {} /\ last = NoImport /\ imports = 0

-----------------------------------------------------------------------------
(* Parsing                                                                 *)

\* What zi_state_parsing() finds of an origin that an earlier import left: the pool it was
\* in has been flushed.
OriginMatches(origin) == IF origin = "null" THEN {TRUE} ELSE BOOLEAN

\* cache.zone_import(): a file that cannot be opened is noticed before the reset; one with
\* an error, or without a trust anchor for its origin, keeps the context for the next call.
zone_import(file, zone) ==
  /\ imports < MaxImports /\ imports' = imports + 1
  /\ ~z_import.started
  /\ \E matches \in OriginMatches(z_import.origin) :
       LET parsed == file = "good" /\ matches
       IN IF file = "unreadable"
          THEN /\ z_import' = [z_import EXCEPT !.allocated = TRUE]
               /\ UNCHANGED <<timer, anchor>>
          ELSE /\ z_import' = [allocated |-> TRUE, started |-> parsed,
                               origin |-> IF z_import.origin = "null" THEN "root" ELSE "stale",
                               zone |-> IF parsed THEN zone ELSE NoZone]
               /\ timer' = (timer \/ parsed)
               /\ anchor' = "set"
  /\ UNCHANGED <<cached, last>>

\* The trust anchors are updated in the pause between the stages.
AnchorChanges ==
  /\ timer /\ anchor = "set"
  /\ anchor' = "changed"
  /\ UNCHANGED <<z_import, timer, cached, last, imports>>

-----------------------------------------------------------------------------
(* Import                                                                  *)

\* zi_rrset_find_put(): the RRset if it is there, with its RRSIG.
Find(zone, rr) ==
  IF rr \notin zone.rrsets THEN {}
  ELSE {rr} \cup (IF rr \in zone.signed THEN {Sig(rr)} ELSE {})

is_referral(rr) == rr[2] = "NS" /\ rr[1] # Root

zi_put_delegation(zone, rr) ==
  IF <<rr[1], "DS">> \in zone.rrsets THEN Find(zone, <<rr[1], "DS">>)
  ELSE Find(zone, <<rr[1], "NSEC">>) \cup Find(zone, <<rr[1], "NSEC3">>)

zi_put_glue(zone, rr) ==
  UNION {Find(zone, <<name, "A">>) \cup Find(zone, <<name, "AAAA">>) : name \in zone.names[rr[1]]}

\* The made-up answer for an RRset: what is validated, and the additional section.
Answer(zone, rr) ==
  [rr |-> rr,
   put |-> Find(zone, rr) \cup (IF is_referral(rr) THEN zi_put_delegation(zone, rr) ELSE {}),
   glue |-> IF rr[2] = "NS" THEN zi_put_glue(zone, rr) ELSE {},
   accepted |-> FALSE]

\* kr_resolve_consume() accepts it; with an anchor that is gone, as it happens.
Accepts(zone, answer, luck) == answer.put \cap zone.bad = {} /\ luck

\* zi_rrset_import(): the RRsets are marked as soon as they are put.
zi_rrset_import(st, zone, rr, luck) ==
  LET answer == Answer(zone, rr)
      ok == Accepts(zone, answer, luck)
      all == answer.put \cup answer.glue
  IN [marked |-> st.marked \cup all,
      cached |-> IF ok THEN st.cached \cup all ELSE st.cached,
      answers |-> Append(st.answers, [answer EXCEPT !.accepted = ok]),
      failed |-> IF ok THEN st.failed ELSE st.failed + 1,
      imported |-> IF ok THEN st.imported + 1 ELSE st.imported]

ImportNS(st, zone, luck) ==
  FoldLeft(LAMBDA s, rr : IF rr \in zone.rrsets /\ rr[2] = "NS" THEN zi_rrset_import(s, zone, rr, luck) ELSE s,
           st, Order)

\* Mutant: what went along with an NS is imported again.
ImportRestAgain(st, zone, luck) ==
  FoldLeft(LAMBDA s, rr : IF rr \in zone.rrsets /\ rr[2] \notin {"DNSKEY", "NS"}
                          THEN zi_rrset_import(s, zone, rr, luck) ELSE s,
           st, Order)

ImportRest(st, zone, luck) ==
  FoldLeft(LAMBDA s, rr : IF rr \in zone.rrsets /\ rr[2] \notin {"DNSKEY", "NS"} /\ rr \notin s.marked
                          THEN zi_rrset_import(s, zone, rr, luck) ELSE s,
           st, Order)

\* zi_zone_process(): a zone whose DNSKEY is missing or does not verify is left alone.
Process(zone, luck) ==
  LET start == [marked |-> {}, cached |-> cached, answers |-> <<>>, failed |-> 0, imported |-> 0]
      key == zi_rrset_import(start, zone, DNSKEY, luck)
  IN IF DNSKEY \notin zone.rrsets THEN [start EXCEPT !.failed = 1]
     ELSE IF key.failed > 0 THEN key
     ELSE ImportRest(ImportNS([key EXCEPT !.imported = 0], zone, luck), zone, luck)

\* The timer, and the callback that frees the context.
zi_zone_process ==
  /\ timer
  /\ \E luck \in IF anchor = "set" THEN {TRUE} ELSE BOOLEAN :
       LET st == Process(z_import.zone, luck)
       IN /\ cached' = st.cached
          /\ last' = [zone |-> z_import.zone, answers |-> st.answers,
                      result |-> IF st.failed = 0 THEN "done" ELSE IF st.imported = 0 THEN "failed" ELSE "partly"]
  /\ z_import' = NoContext
  /\ timer' = FALSE
  /\ UNCHANGED <<anchor, imports>>

Next ==
  \/ \E file \in {"good", "broken", "unreadable"}, zone \in Zones : zone_import(file, zone)
  \/ AnchorChanges \/ zi_zone_process

Spec == Init /\ [][Next]_vars
-----------------------------------------------------------------------------
(* An import offers the whole zone to the resolver, and nothing twice: after  *)
(* the DNSKEY, which must verify, every RRset goes out once with what proves  *)
(* it, be it on its own or along with an NS, NS before the rest; glue may     *)
(* come along with several.  What is cached is what was aboard an answer that *)
(* was accepted, and the end that is reported says how many were.             *)
ZoneImported ==
  LET zone == last.zone
      answers == last.answers
      Aboard(rr) == {i \in DOMAIN answers : rr \in answers[i].put}
      AsGlue(rr) == {i \in DOMAIN answers : rr \in answers[i].glue}
      accepted == {i \in DOMAIN answers : answers[i].accepted}
  IN last.result # "none" =>
       /\ (DNSKEY \in zone.rrsets) <=> (1 \in Aboard(DNSKEY))
       /\ 1 \in accepted => \A rr \in zone.rrsets :
            Cardinality(Aboard(rr)) = IF AsGlue(rr) = {} THEN 1 ELSE 0
       /\ 1 \notin accepted => Len(answers) <= 1
       /\ \A i, j \in 2..Len(answers) :
            i < j /\ answers[j].rr[2] = "NS" => answers[i].rr[2] = "NS"
       /\ \A i \in accepted : answers[i].put \cup answers[i].glue \subseteq cached
       /\ \A i \in DOMAIN answers : \A rr \in answers[i].put :
            rr \in zone.signed => Sig(rr) \in answers[i].put
       /\ last.result = "done" <=> (answers # <<>> /\ accepted = DOMAIN answers)
=============================================================================
