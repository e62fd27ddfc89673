---------------------------- MODULE TrustAnchors ----------------------------
(***************************************************************************)
(* Managed trust anchors of one zone: the RFC 5011 state machine of        *)
(* daemon/lua/trust_anchors.lua.in, in several processes that share one    *)
(* key file.                                                               *)
(*                                                                         *)
(* A key of the zone is a member of Keys.  Every process has a keyset, a   *)
(* map from keys to entries; "ds" says that the entry is still the DS      *)
(* record of a bootstrap, which a DNSKEY with the same key tag supersedes. *)
(* A timer of 0 is nil.  The revoked bit changes the key tag of a DNSKEY   *)
(* but not the key that kr_dnssec_key_match() compares; two keys with one  *)
(* key tag are left out.                                                   *)
(*                                                                         *)
(* The operator of the zone is the environment.  It revokes or withdraws a *)
(* key only when another one has been published for the time "Safe", which *)
(* is what RFC 5011 asks of it.  A process that stops is started again     *)
(* within the same unit of time; Start is both.                            *)
(***************************************************************************)
EXTENDS Integers, FiniteSets

CONSTANTS
  Keys,             \* the key signing keys the zone ever has
  Initial,          \* those it has at the start, which the first file lists
  Procs,            \* kresd processes with the same key file
  hold_down_time,
  keep_removed,
  Ttl,              \* of the DNSKEY records
  hour, day,
  MaxFails,         \* bound: refreshes that fail although the keys are right
  MaxTime           \* bound on the clock

VARIABLES
  now,
  zone,             \* zone[k]: "new", "present", "revoked" or "absent"
  since,            \* since[k]: when k was published
  left,             \* left[k]: when k was revoked and, later, when it was withdrawn
  fails,
  exists, file,     \* the key file
  keyset,
  anchors,          \* anchors[p]: the keys in the trust anchor store
  refresh,          \* refresh[p]: when refresh_ev is due; Never before a start
  is_initial,       \* is_initial[p]: the flag refresh_ev was planned with
  endorsed          \* keys trusted by the first file or by a bootstrap

process == <<keyset, anchors, refresh, is_initial>>
operator == <<zone, since, left>>
vars == <<now, operator, fails, exists, file, process, endorsed>>

ASSUME ConstantsAssumption ==
  /\ Initial \subseteq Keys
  /\ hold_down_time \in Nat /\ keep_removed \in Nat /\ Ttl \in Nat
  /\ hour \in Nat \ {0} /\ day \in Nat /\ MaxFails \in Nat /\ MaxTime \in Nat

States == {"None", "AddPend", "Valid", "Missing", "Revoked", "Removed"}
Entry == [state : States, timer : Int, ds : BOOLEAN]
NoEntry == [state |-> "None", timer |-> 0, ds |-> FALSE]
Becomes(e, state, timer) == [state |-> state, timer |-> timer, ds |-> e.ds]
AsDnskey(e) == [state |-> e.state, timer |-> e.timer, ds |-> FALSE]
Trusting(e) == e.state \in {"Valid", "Missing"}
Listed(ks) == {k \in Keys : ks[k].state # "None"}
NoKeys == [k \in Keys |-> NoEntry]
Valid(ds) == [state |-> "Valid", timer |-> 0, ds |-> ds]
Never == -1

-----------------------------------------------------------------------------
(* The state table.                                                         *)

\* Mutant: DNSKEYs are compared by key tag too, which the revoked bit changes.
FoundByTag(e, z) == z = "present"

\* ta_find(): does the zone's DNSKEY set have the key of this entry?
Found(e, z) == IF e.ds THEN z = "present" ELSE z \in {"present", "revoked"}

TaMissing(e, t) ==
  CASE e.state = "Valid" -> Becomes(e, "Missing", t + 4 * hold_down_time)
    [] e.state = "Missing" /\ e.timer <= t -> Becomes(e, "Removed", e.timer)
    [] e.state = "AddPend" -> NoEntry
    [] OTHER -> e

\* The four conditions of ta_present(), in its order, for a key it found.
KeyPres(e) == IF e.state = "Missing" THEN Becomes(e, "Valid", 0) ELSE e
RevBit(e, z, t) ==
  IF z = "revoked" /\ e.state \in {"Valid", "Missing"}
  THEN Becomes(e, "Revoked", t + hold_down_time) ELSE e
RemTime(e, t) ==
  IF e.state = "Revoked" /\ e.timer <= t
  THEN Becomes(e, "Removed", 0) ELSE e
\* Mutant: a pending key becomes valid a refresh too late.
AddTimeLate(e, t) ==
  IF e.state = "AddPend" /\ e.timer < t
  THEN Becomes(e, "Valid", 0) ELSE e

AddTime(e, t) ==
  IF e.state = "AddPend" /\ e.timer <= t
  THEN Becomes(e, "Valid", 0) ELSE e

\* Mutant: the hold-down time is not added.
NewKeyAtOnce(force_valid, t) ==
  IF force_valid THEN Valid(FALSE)
  ELSE [state |-> "AddPend", timer |-> t, ds |-> FALSE]

NewKey(force_valid, t) ==
  IF force_valid THEN Valid(FALSE)
  ELSE [state |-> "AddPend", timer |-> t + hold_down_time, ds |-> FALSE]

TaPresent(e, z, force_valid, t) ==
  IF e.state # "None" /\ Found(e, z)
  THEN AddTime(RemTime(RevBit(KeyPres(AsDnskey(e)), z, t), t), t)
  ELSE IF e.state = "None" /\ z = "present" THEN NewKey(force_valid, t) ELSE e

\* Step 1 of update() up to the purge: the keys not found are missing.
AfterMissing(ks, z, t) ==
  [k \in Keys |-> IF Found(ks[k], z[k]) THEN ks[k] ELSE TaMissing(ks[k], t)]

\* Which of the removed keys a purge keeps depends on the order of the list.
\* A key that has just become removed takes up a place, but is not kept.
Purges(before, ks) ==
  LET removed == {k \in Keys : ks[k].state = "Removed"}
  IN {[k \in Keys |-> IF k \in removed \ (kept \ {j \in Keys : before[j].state # "Removed"})
                      THEN NoEntry ELSE ks[k]] :
        kept \in {s \in SUBSET removed :
                    \/ Cardinality(s) = keep_removed
                    \/ Cardinality(s) < keep_removed /\ s = removed}}

\* update() up to the file.
Updates(ks, z, force_valid, t) ==
  {[k \in Keys |-> TaPresent(kept[k], z[k], force_valid, t)] :
     kept \in Purges(ks, AfterMissing(ks, z, t))}

\* keyset_publish()
Published(ks) == {k \in Keys : Trusting(ks[k])}

\* The time to the next check that active_refresh() returns: 10 or 50% of the
\* shortest TTL, which is 0 for a DS of a bootstrap.
Delay(ks, retry) ==
  LET cap == IF retry THEN day ELSE 15 * day
      ttl == IF \E k \in Listed(ks) : ks[k].ds THEN 0
             ELSE IF retry THEN Ttl \div 10 ELSE Ttl \div 2
      min == IF Listed(ks) # {} /\ ttl < cap THEN ttl ELSE cap
  IN IF min > hour THEN min ELSE hour

\* The resolver accepts the zone's keys when it has no anchor at all (nothing is
\* validated then), and when one of its anchors is a key that is not revoked.
Authentic(A, z) == A = {} \/ \E k \in A : z[k] = "present"

-----------------------------------------------------------------------------
Init ==
  /\ now = 0 /\ fails = 0
  /\ zone = [k \in Keys |-> IF k \in Initial THEN "present" ELSE "new"]
  /\ since = [k \in Keys |-> 0]
  /\ left = [k \in Keys |-> 0]
  /\ exists \in BOOLEAN
  /\ file = [k \in Keys |-> IF exists /\ k \in Initial THEN Valid(FALSE) ELSE NoEntry]
  /\ keyset = [p \in Procs |-> NoKeys]
  /\ anchors = [p \in Procs |-> {}]
  /\ refresh = [p \in Procs |-> Never]
  /\ is_initial = [p \in Procs |-> FALSE]
  /\ endorsed = IF exists THEN Initial ELSE {}

Install(p, ks, initial) ==
  /\ keyset' = [keyset EXCEPT ![p] = ks]
  /\ anchors' = [anchors EXCEPT ![p] = Published(ks)]
  /\ refresh' = [refresh EXCEPT ![p] = now]
  /\ is_initial' = [is_initial EXCEPT ![p] = initial]

\* add_file() with the file there; an empty one is a panic().  What is read is
\* what was written: keys that are not trusted are kept in comments.  The 10
\* seconds to the first refresh are less than a unit of time.
StartFromFile(p) ==
  /\ exists /\ Listed(file) # {}
  /\ Install(p, file, FALSE)
  /\ UNCHANGED <<now, operator, fails, exists, file, endorsed>>

\* add_file() without a file: the DS records of the keys now in use, published
\* over HTTPS, and a first refresh at once that trusts every key it sees.
Bootstrap(p) ==
  LET digests == {k \in Keys : zone[k] = "present"}
  IN /\ ~exists /\ digests # {}
     /\ Install(p, [k \in Keys |-> IF k \in digests THEN Valid(TRUE) ELSE NoEntry], TRUE)
     /\ endorsed' = endorsed \cup digests
     /\ UNCHANGED <<now, operator, fails, exists, file>>

\* refresh_plan() after active_refresh(): never initial again.
Plan(p, ks, retry) ==
  /\ refresh' = [refresh EXCEPT ![p] = now + Delay(ks, retry)]
  /\ is_initial' = [is_initial EXCEPT ![p] = FALSE]

Due(p) == refresh[p] # Never /\ refresh[p] <= now

\* refresh_ev with a validated answer: update(), which renames the new file
\* over the old one and replaces the anchors, and the next event.
ActiveRefresh(p) ==
  /\ Due(p) /\ Authentic(anchors[p], zone)
  /\ \E ks \in Updates(keyset[p], zone, is_initial[p], now) :
       /\ keyset' = [keyset EXCEPT ![p] = ks]
       /\ file' = ks
       /\ anchors' = [anchors EXCEPT ![p] = Published(ks)]
       /\ Plan(p, ks, FALSE)
  /\ exists' = TRUE
  /\ endorsed' = IF is_initial[p] THEN endorsed \cup {k \in Keys : zone[k] = "present"}
                 ELSE endorsed
  /\ UNCHANGED <<now, operator, fails>>

\* refresh_ev without one: the keys are bogus, or the network fails.
RefreshFailed(p) ==
  /\ Due(p)
  /\ \/ ~Authentic(anchors[p], zone) /\ fails' = fails
     \/ Authentic(anchors[p], zone) /\ fails < MaxFails /\ fails' = fails + 1
  /\ Plan(p, keyset[p], TRUE)
  /\ UNCHANGED <<now, operator, exists, file, keyset, anchors, endorsed>>

-----------------------------------------------------------------------------
(* The operator of the zone, and time.                                      *)

LongestDelay == LET longer(a, b) == IF a > b THEN a ELSE b
                    capped(a, b) == IF a < b THEN a ELSE b
                IN longer(hour, capped(15 * day, Ttl \div 2))
RetryDelay == LET longer(a, b) == IF a > b THEN a ELSE b
                  capped(a, b) == IF a < b THEN a ELSE b
              IN longer(hour, capped(day, Ttl \div 10))

\* The time in which every process sees a change of the zone.
Seen == LongestDelay + MaxFails * RetryDelay
Safe == hold_down_time + Seen + LongestDelay

Publish(k) ==
  /\ zone[k] = "new"
  /\ zone' = [zone EXCEPT ![k] = "present"]
  /\ since' = [since EXCEPT ![k] = now]
  /\ UNCHANGED <<now, left, fails, exists, file, process, endorsed>>

Replaced(k) == \E j \in Keys \ {k} : zone[j] = "present" /\ (j \in Initial \/ now >= since[j] + Safe)

Revoke(k) ==
  /\ zone[k] = "present" /\ Replaced(k)
  /\ zone' = [zone EXCEPT ![k] = "revoked"]
  /\ left' = [left EXCEPT ![k] = now]
  /\ UNCHANGED <<now, since, fails, exists, file, process, endorsed>>

Withdraw(k) ==
  /\ zone[k] = "revoked" \/ (zone[k] = "present" /\ Replaced(k))
  /\ left' = [left EXCEPT ![k] = now]
  /\ zone' = [zone EXCEPT ![k] = "absent"]
  /\ UNCHANGED <<now, since, fails, exists, file, process, endorsed>>

\* Timers fire when they are due.
Tick ==
  /\ now < MaxTime
  /\ \A p \in Procs : refresh[p] > now
  /\ now' = now + 1
  /\ UNCHANGED <<operator, fails, exists, file, process, endorsed>>

Next ==
  \/ \E p \in Procs : StartFromFile(p) \/ Bootstrap(p) \/ ActiveRefresh(p) \/ RefreshFailed(p)
  \/ \E k \in Keys : Publish(k) \/ Revoke(k) \/ Withdraw(k)
  \/ Tick

Spec == Init /\ [][Next]_vars

-----------------------------------------------------------------------------
(* No process validates with a key that neither the first key file nor a     *)
(* bootstrap vouched for before the key has been published for the hold-down *)
(* time, whichever process wrote the file it was last started from (the      *)
(* AddPend state of ta_present()).                                           *)
NoEarlyTrust ==
  \A p \in Procs : \A k \in anchors[p] : k \in endorsed \/ now >= since[k] + hold_down_time

(* A rollover that keeps to the times of RFC 5011 never leaves a running      *)
(* process without an anchor the zone still signs with, although refreshes    *)
(* are lost, processes restart and each overwrites the key file of the others. *)
NeverStranded ==
  \A p \in Procs : refresh[p] # Never => \E k \in anchors[p] : zone[k] = "present"

(* A revoked key is out of the trust anchor store of every process by its     *)
(* next refresh (RevBit in ta_present()).  Two cases are later than that.  A  *)
(* process that has the key from a bootstrap and never saw the DNSKEY finds   *)
(* no key with the tag of the DS, and the key counts as missing.  A key       *)
(* revoked while AddPend is first trusted when its timer expires (AddTime     *)
(* does not look at the revoked bit), and given up one refresh later.  A key   *)
(* withdrawn without revocation does not stay trusted for ever either:        *)
(* ta_missing() gives it up four hold-down times after it was missed, even    *)
(* when its Missing timer travels through the files of other processes.       *)
TrustEnds ==
  \A p \in Procs : \A k \in anchors[p] :
    /\ zone[k] = "revoked" =>
         \/ now <= left[k] + Seen
         \/ keyset[p][k].ds
         \/ k \notin Initial /\ now <= since[k] + Safe + LongestDelay
    /\ zone[k] = "absent" => now <= left[k] + Seen + 4 * hold_down_time + LongestDelay
=============================================================================
