------------------------- MODULE TrustAnchorsProofs -------------------------
(***************************************************************************)
(* What module TrustAnchors promises, for any number of keys and           *)
(* processes, any timers, any losses and any restarts.                     *)
(*                                                                         *)
(* NoEarlyTrust is about the anchors of one process.  The induction needs  *)
(* the same of every entry of every keyset and of the file, as an entry    *)
(* travels from one process to another through the file, and of entries    *)
(* that are not trusted yet: the timer of a pending key is never earlier   *)
(* than its publication plus the hold-down time (HoldInv).                 *)
(*                                                                         *)
(* NeverStranded and TrustEnds are about times.  How far a keyset is       *)
(* behind the zone is bounded by the time of the next refresh of its       *)
(* process, and the file is always the keyset of a running process         *)
(* (RollInv).                                                              *)
(***************************************************************************)
EXTENDS TrustAnchors, TLAPS

\* An entry for key k, published at time s, when the clock shows t and the keys
\* in E are endorsed.
Held(e, k, s, t, E) ==
  /\ e.state = "AddPend" => e.timer >= s + hold_down_time
  /\ Trusting(e) => k \in E \/ t >= s + hold_down_time

KeysHeld(ks) ==
  \A k \in Keys : /\ Held(ks[k], k, since[k], now, endorsed)
                  /\ zone[k] = "new" => ks[k].state = "None"

HoldTypes ==
  /\ now \in Nat /\ since \in [Keys -> Nat]
  /\ zone \in [Keys -> {"new", "present", "revoked", "absent"}]
  /\ file \in [Keys -> Entry] /\ keyset \in [Procs -> [Keys -> Entry]]
  /\ anchors \in [Procs -> SUBSET Keys]
  /\ is_initial \in [Procs -> BOOLEAN]
  /\ endorsed \subseteq Keys

HoldInv ==
  /\ HoldTypes
  /\ \A k \in Keys : since[k] <= now
  /\ KeysHeld(file)
  /\ \A p \in Procs : KeysHeld(keyset[p]) /\ anchors[p] = Published(keyset[p])

-----------------------------------------------------------------------------
(* What the state table does to one entry.                                  *)

(* ta_missing() makes an entry of an entry, and no entry of no entry; it      *)
(* grants trust to no key that did not have it.                               *)
LEMMA TaMissingHeld ==
  ASSUME NEW e \in Entry, NEW s \in Nat, NEW t \in Nat, NEW k, NEW E, Held(e, k, s, t, E)
  PROVE  /\ TaMissing(e, t) \in Entry
         /\ Held(TaMissing(e, t), k, s, t, E)
         /\ e.state = "None" => TaMissing(e, t).state = "None"
  BY ConstantsAssumption DEF Held, TaMissing, Becomes, Trusting, Entry, States, NoEntry

Known(e, z, t) == AddTime(RemTime(RevBit(KeyPres(AsDnskey(e)), z, t), t), t)

(* ta_present() trusts a key it knew as pending only when the timer, and with *)
(* it the hold-down time, is over.                                            *)
LEMMA KnownHeld ==
  ASSUME NEW e \in Entry, NEW z, NEW s \in Nat, NEW t \in Nat, NEW k, NEW E, Held(e, k, s, t, E)
  PROVE  Known(e, z, t) \in Entry /\ Held(Known(e, z, t), k, s, t, E)
<1> DEFINE e1 == KeyPres(AsDnskey(e))
           e2 == RevBit(e1, z, t)
           e3 == RemTime(e2, t)
           e4 == AddTime(e3, t)
<1>1. e1 \in Entry /\ Held(e1, k, s, t, E)
  BY DEF Held, KeyPres, AsDnskey, Becomes, Trusting, Entry, States
<1>2. e2 \in Entry /\ Held(e2, k, s, t, E)
  <2> HIDE DEF e1
  <2> QED BY <1>1, ConstantsAssumption DEF Held, RevBit, Becomes, Trusting, Entry, States
<1>3. e3 \in Entry /\ Held(e3, k, s, t, E)
  <2> HIDE DEF e2
  <2> QED BY <1>2 DEF Held, RemTime, Becomes, Trusting, Entry, States
<1>4. e4 \in Entry /\ Held(e4, k, s, t, E)
  <2> HIDE DEF e3
  <2> QED BY <1>3, ConstantsAssumption DEF Held, AddTime, Becomes, Trusting, Entry, States
<1> HIDE DEF e4
<1>5. Known(e, z, t) = e4
  BY DEF Known, e4
<1> QED BY <1>4, <1>5

(* A key that ta_present() did not know is trusted only when it is forced to. *)
LEMMA NewKeyHeld ==
  ASSUME NEW force \in BOOLEAN, NEW s \in Nat, NEW t \in Nat, s <= t, NEW k, NEW E,
         force => k \in E
  PROVE  NewKey(force, t) \in Entry /\ Held(NewKey(force, t), k, s, t, E)
  BY ConstantsAssumption DEF Held, NewKey, Valid, Trusting, Entry, States

-----------------------------------------------------------------------------
(* The whole of update(): it keeps what KeysHeld says of a keyset, given that *)
(* the keys a forced update trusts are endorsed.                              *)
LEMMA UpdatesHeld ==
  ASSUME HoldInv, NEW p \in Procs, NEW E \in SUBSET Keys, endorsed \subseteq E,
         is_initial[p] => \A k \in Keys : zone[k] = "present" => k \in E,
         NEW ks \in Updates(keyset[p], zone, is_initial[p], now)
  PROVE  /\ ks \in [Keys -> Entry]
         /\ \A k \in Keys : /\ Held(ks[k], k, since[k], now, E)
                            /\ zone[k] = "new" => ks[k].state = "None"
<1> DEFINE missed == AfterMissing(keyset[p], zone, now)
<1>1. PICK kept \in Purges(keyset[p], missed) :
        ks = [k \in Keys |-> TaPresent(kept[k], zone[k], is_initial[p], now)]
  BY DEF Updates
<1>2. ASSUME NEW k \in Keys
      PROVE  /\ missed[k] \in Entry
             /\ Held(missed[k], k, since[k], now, E)
             /\ zone[k] = "new" => missed[k].state = "None"
  <2>1. /\ keyset[p][k] \in Entry /\ since[k] \in Nat /\ now \in Nat
        /\ zone[k] = "new" => keyset[p][k].state = "None"
    BY DEF HoldInv, HoldTypes, KeysHeld
  <2>2. Held(keyset[p][k], k, since[k], now, E)
    BY DEF HoldInv, KeysHeld, Held
  <2>3. /\ TaMissing(keyset[p][k], now) \in Entry
        /\ Held(TaMissing(keyset[p][k], now), k, since[k], now, E)
        /\ keyset[p][k].state = "None" => TaMissing(keyset[p][k], now).state = "None"
    BY <2>1, <2>2, TaMissingHeld
  <2>4. missed[k] \in {keyset[p][k], TaMissing(keyset[p][k], now)}
    BY DEF AfterMissing
  <2> QED BY <2>1, <2>2, <2>3, <2>4
<1>3. ASSUME NEW k \in Keys PROVE kept[k] \in {missed[k], NoEntry}
  <2> HIDE DEF missed
  <2> QED BY <1>1 DEF Purges
<1>4. NoEntry \in Entry /\ NoEntry.state = "None"
  BY DEF NoEntry, Entry, States
<1>5. ASSUME NEW k \in Keys
      PROVE  /\ ks[k] \in Entry
             /\ Held(ks[k], k, since[k], now, E)
             /\ zone[k] = "new" => ks[k].state = "None"
  <2>1. /\ kept[k] \in Entry
        /\ Held(kept[k], k, since[k], now, E)
        /\ zone[k] = "new" => kept[k].state = "None"
    <3> HIDE DEF missed
    <3> QED BY <1>2, <1>3, <1>4 DEF Held, Trusting
  <2>2. /\ since[k] \in Nat /\ now \in Nat /\ since[k] <= now /\ is_initial[p] \in BOOLEAN
        /\ zone[k] \in {"new", "present", "revoked", "absent"}
    BY DEF HoldInv, HoldTypes
  <2>3. /\ Known(kept[k], zone[k], now) \in Entry
        /\ Held(Known(kept[k], zone[k], now), k, since[k], now, E)
    BY Zenon, <2>1, <2>2, KnownHeld
  <2>4. zone[k] = "present" =>
          /\ NewKey(is_initial[p], now) \in Entry
          /\ Held(NewKey(is_initial[p], now), k, since[k], now, E)
    BY <2>2, NewKeyHeld
  <2>5. ks[k] = IF kept[k].state # "None" /\ Found(kept[k], zone[k])
                THEN Known(kept[k], zone[k], now)
                ELSE IF kept[k].state = "None" /\ zone[k] = "present"
                     THEN NewKey(is_initial[p], now) ELSE kept[k]
    BY <1>1 DEF TaPresent, Known
  <2> QED BY <2>1, <2>3, <2>4, <2>5
<1> QED BY <1>1, <1>5

-----------------------------------------------------------------------------
(* The first file lists only keys it endorses, and no process runs yet.       *)
LEMMA HoldInit == Init => HoldInv
<1> SUFFICES ASSUME Init PROVE HoldInv
  OBVIOUS
<1>1. NoEntry \in Entry /\ Valid(FALSE) \in Entry /\ Valid(FALSE).state = "Valid"
      /\ NoEntry.state = "None"
  BY DEF NoEntry, Valid, Entry, States
<1>2. HoldTypes
  BY <1>1, ConstantsAssumption DEF Init, HoldTypes, NoKeys, Never
<1>3. \A k \in Keys : since[k] <= now
  BY DEF Init
<1>4. KeysHeld(file)
  BY <1>1 DEF Init, KeysHeld, Held, Trusting
<1>5. ASSUME NEW p \in Procs PROVE KeysHeld(keyset[p]) /\ anchors[p] = Published(keyset[p])
  BY <1>1 DEF Init, KeysHeld, Held, Trusting, Published, NoKeys
<1> QED BY <1>2, <1>3, <1>4, <1>5 DEF HoldInv

(* The hold-down invariant is inductive: update() may start to trust a key,   *)
(* a start only trusts what the file or the bootstrap already does.           *)
LEMMA HoldNext == HoldInv /\ [Next]_vars => HoldInv'
<1> SUFFICES ASSUME HoldInv, [Next]_vars PROVE HoldInv'
  OBVIOUS
<1> USE DEF HoldInv
<1>1. ASSUME NEW p \in Procs, StartFromFile(p) PROVE HoldInv'
  <2>1. Published(file) \subseteq Keys
    BY DEF Published
  <2>2. HoldTypes'
    BY <1>1, <2>1 DEF StartFromFile, Install, HoldTypes, operator
  <2>3. UNCHANGED <<since, now, zone, endorsed, file>>
    BY <1>1 DEF StartFromFile, operator
  <2>4. KeysHeld(file)' /\ \A k \in Keys : since'[k] <= now'
    BY <2>3 DEF KeysHeld, Held, Trusting
  <2>5. ASSUME NEW q \in Procs PROVE KeysHeld(keyset[q])' /\ anchors'[q] = Published(keyset'[q])
    BY <1>1, <2>3 DEF StartFromFile, Install, KeysHeld, Held, Trusting, HoldTypes
  <2> QED BY <2>2, <2>4, <2>5
<1>2. ASSUME NEW p \in Procs, Bootstrap(p) PROVE HoldInv'
  <2> DEFINE digests == {k \in Keys : zone[k] = "present"}
             ks == [k \in Keys |-> IF k \in digests THEN Valid(TRUE) ELSE NoEntry]
  <2>1. ks \in [Keys -> Entry] /\ Published(ks) \subseteq Keys
    BY DEF Valid, NoEntry, Entry, States, Published
  <2>2. /\ Install(p, ks, TRUE) /\ endorsed' = endorsed \cup digests
        /\ UNCHANGED <<since, now, zone, file>>
    BY <1>2 DEF Bootstrap, operator
  <2>3. \A k \in Keys : /\ Held(ks[k], k, since[k], now, endorsed')
                        /\ zone[k] = "new" => ks[k].state = "None"
    BY <2>2 DEF Held, Trusting, Valid, NoEntry
  <2> HIDE DEF ks
  <2>4. HoldTypes'
    BY <2>1, <2>2 DEF Install, HoldTypes
  <2>5. KeysHeld(file)' /\ \A k \in Keys : since'[k] <= now'
    BY <2>2 DEF KeysHeld, Held
  <2>6. ASSUME NEW q \in Procs PROVE KeysHeld(keyset[q])' /\ anchors'[q] = Published(keyset'[q])
    BY <2>2, <2>3 DEF Install, KeysHeld, Held, HoldTypes
  <2> QED BY <2>4, <2>5, <2>6
<1>3. ASSUME NEW p \in Procs, ActiveRefresh(p) PROVE HoldInv'
  <2>1. PICK ks \in Updates(keyset[p], zone, is_initial[p], now) :
          /\ keyset' = [keyset EXCEPT ![p] = ks]
          /\ file' = ks
          /\ anchors' = [anchors EXCEPT ![p] = Published(ks)]
          /\ Plan(p, ks, FALSE)
    BY <1>3 DEF ActiveRefresh
  <2>2. UNCHANGED <<since, now, zone>>
    BY <1>3 DEF ActiveRefresh, operator
  <2>3. /\ endorsed' \in SUBSET Keys /\ endorsed \subseteq endorsed'
        /\ is_initial[p] => \A k \in Keys : zone[k] = "present" => k \in endorsed'
    BY <1>3 DEF ActiveRefresh, HoldTypes
  <2>4. /\ ks \in [Keys -> Entry]
        /\ \A k \in Keys : /\ Held(ks[k], k, since[k], now, endorsed')
                           /\ zone[k] = "new" => ks[k].state = "None"
    BY <2>3, UpdatesHeld
  <2>5. HoldTypes'
    <3>1. Published(ks) \subseteq Keys
      BY DEF Published
    <3> QED BY <2>1, <2>2, <2>3, <2>4, <3>1 DEF Plan, HoldTypes
  <2>6. KeysHeld(ks)' /\ \A k \in Keys : since'[k] <= now'
    BY <2>2, <2>4 DEF KeysHeld, Held, Trusting
  <2>7. ASSUME NEW q \in Procs PROVE KeysHeld(keyset[q])' /\ anchors'[q] = Published(keyset'[q])
    <3>1. CASE q = p
      <4>1. keyset'[q] = ks /\ anchors'[q] = Published(ks)
        BY <2>1, <3>1 DEF HoldTypes
      <4> QED BY <2>6, <4>1 DEF KeysHeld, Held, Trusting
    <3>2. CASE q # p
      BY <2>1, <2>2, <2>3, <3>2 DEF KeysHeld, Held, Trusting, HoldTypes
    <3> QED BY <3>1, <3>2
  <2>8. KeysHeld(file)'
    BY <2>1, <2>6 DEF KeysHeld, Held, Trusting
  <2> QED BY <2>5, <2>6, <2>7, <2>8
<1>4. ASSUME NEW p \in Procs, RefreshFailed(p) PROVE HoldInv'
  <2>1. UNCHANGED <<since, now, zone, file, keyset, anchors, endorsed>>
        /\ Plan(p, keyset[p], TRUE)
    BY <1>4 DEF RefreshFailed, operator, HoldTypes
  <2>2. HoldTypes'
    BY <2>1 DEF Plan, HoldTypes
  <2> QED BY <2>1, <2>2 DEF KeysHeld, Held, Trusting
<1>5. ASSUME NEW k \in Keys, Publish(k) PROVE HoldInv'
  <2>1. /\ zone[k] = "new" /\ zone' = [zone EXCEPT ![k] = "present"]
        /\ since' = [since EXCEPT ![k] = now]
        /\ UNCHANGED <<now, file, keyset, anchors, is_initial, endorsed>>
    BY <1>5 DEF Publish, process
  <2>2. HoldTypes' /\ \A j \in Keys : since'[j] <= now'
    BY <2>1 DEF HoldTypes
  <2>3. ASSUME NEW ks \in [Keys -> Entry], KeysHeld(ks)
        PROVE  \A j \in Keys : /\ Held(ks[j], j, since'[j], now, endorsed)
                               /\ zone'[j] = "new" => ks[j].state = "None"
    BY <2>1, <2>3 DEF KeysHeld, Held, Trusting, HoldTypes
  <2>4. KeysHeld(file)'
    BY <2>1, <2>3 DEF KeysHeld, Held, Trusting, HoldTypes
  <2>5. ASSUME NEW q \in Procs PROVE KeysHeld(keyset[q])' /\ anchors'[q] = Published(keyset'[q])
    BY <2>1, <2>3 DEF KeysHeld, Held, Trusting, HoldTypes
  <2> QED BY <2>2, <2>4, <2>5
<1>6. ASSUME NEW k \in Keys, Revoke(k) \/ Withdraw(k) PROVE HoldInv'
  <2>1. /\ zone[k] # "new" /\ (zone' = [zone EXCEPT ![k] = "revoked"] \/ zone' = [zone EXCEPT ![k] = "absent"])
        /\ UNCHANGED <<now, since, file, keyset, anchors, is_initial, endorsed>>
    BY <1>6 DEF Revoke, Withdraw, process
  <2>2. HoldTypes'
    BY <2>1 DEF HoldTypes
  <2>3. \A j \in Keys : zone'[j] = "new" => zone[j] = "new"
    BY <2>1 DEF HoldTypes
  <2> QED BY Zenon, <2>1, <2>2, <2>3 DEF KeysHeld, Held, Trusting
<1>7. ASSUME Tick PROVE HoldInv'
  <2>1. /\ now' = now + 1
        /\ UNCHANGED <<zone, since, file, keyset, anchors, is_initial, endorsed>>
    BY <1>7 DEF Tick, operator, process
  <2>2. HoldTypes' /\ \A j \in Keys : since'[j] <= now'
    BY <2>1 DEF HoldTypes
  <2>3. ASSUME NEW j \in Keys, NEW e, Held(e, j, since[j], now, endorsed)
        PROVE  Held(e, j, since'[j], now', endorsed')
    BY <2>1, <2>3, ConstantsAssumption DEF Held, Trusting, HoldTypes
  <2>4. ASSUME NEW j \in Keys
        PROVE  /\ Held(file'[j], j, since'[j], now', endorsed')
               /\ zone'[j] = "new" => file'[j].state = "None"
    BY <2>1, <2>3 DEF KeysHeld
  <2>5. ASSUME NEW q \in Procs, NEW j \in Keys
        PROVE  /\ Held(keyset'[q][j], j, since'[j], now', endorsed')
               /\ zone'[j] = "new" => keyset'[q][j].state = "None"
    BY Zenon, <2>1, <2>3 DEF KeysHeld
  <2>6. \A q \in Procs : anchors'[q] = Published(keyset'[q])
    BY <2>1
  <2> QED BY <2>2, <2>4, <2>5, <2>6 DEF KeysHeld, Held, Trusting
<1>8. CASE UNCHANGED vars
  BY <1>8 DEF vars, operator, process, HoldTypes, KeysHeld, Held, Trusting
<1> QED BY <1>1, <1>2, <1>3, <1>4, <1>5, <1>6, <1>7, <1>8 DEF Next

(* In every run, of any number of processes that share a key file, no key is  *)
(* in a trust anchor store before it was published for the hold-down time,    *)
(* unless the first file or a bootstrap endorsed it.                          *)
THEOREM HoldDown == Spec => []NoEarlyTrust
<1>1. HoldInv => NoEarlyTrust
  BY DEF HoldInv, NoEarlyTrust, HoldTypes, KeysHeld, Held, Published
<1> QED BY <1>1, HoldInit, HoldNext, PTL DEF Spec

-----------------------------------------------------------------------------
(* Rollovers.  How long a keyset may lag behind the zone is seen from the    *)
(* time R of the process's next refresh: the one before was not earlier than *)
(* R less the longest delay and a retry for each refresh that failed.        *)

Spent == fails * RetryDelay

\* What an entry e of key k, which is z in the zone since s or left it at l,
\* may be at time t in a keyset that is refreshed at R, when the retries took
\* the time sp.  A key that is present is soon known, and trusted when its
\* hold-down time is over; one that left is soon given up.
Timed(e, k, R, z, s, l, t, sp) ==
  /\ e.state = "None" /\ z = "present" => k \notin Initial /\ R <= s + LongestDelay + sp
  /\ e.state = "AddPend" =>
       /\ k \notin Initial /\ ~e.ds
       /\ e.timer <= s + hold_down_time + LongestDelay + sp
       /\ R < s + hold_down_time + 2 * LongestDelay + sp
  /\ e.state = "Valid" /\ z = "revoked" /\ ~e.ds =>
       \/ R <= l + LongestDelay + sp
       \/ k \notin Initial /\ R <= s + hold_down_time + 3 * LongestDelay + sp
  /\ e.state = "Valid" /\ z = "absent" => R <= l + LongestDelay + sp
  /\ e.state = "Missing" =>
       /\ z = "absent" \/ (z = "revoked" /\ e.ds)
       /\ e.timer <= t + 4 * hold_down_time
       /\ z = "absent" =>
            /\ e.timer <= l + LongestDelay + sp + 4 * hold_down_time
            /\ R <= l + 2 * LongestDelay + 4 * hold_down_time + sp
  /\ e.state \in {"Revoked", "Removed"} => z \in {"revoked", "absent"}

ZoneStates == {"new", "present", "revoked", "absent"}

(* The delays of active_refresh(): a retry is not later than a refresh.       *)
LEMMA DelayTypes ==
  /\ LongestDelay \in Nat /\ LongestDelay >= 1
  /\ RetryDelay \in Nat /\ RetryDelay <= LongestDelay
  BY ConstantsAssumption DEF LongestDelay, RetryDelay

(* The time active_refresh() returns, for a keyset with some key.             *)
LEMMA DelayBound ==
  ASSUME NEW ks, Listed(ks) # {}
  PROVE  /\ Delay(ks, FALSE) \in Nat /\ Delay(ks, FALSE) <= LongestDelay
         /\ Delay(ks, TRUE) \in Nat /\ Delay(ks, TRUE) <= RetryDelay
  BY ConstantsAssumption DEF LongestDelay, RetryDelay, Delay

(* The time that retries took.                                                *)
LEMMA Product ==
  ASSUME NEW f \in Nat, NEW m \in Nat, NEW c \in Nat, f <= m
  PROVE  f * c \in Nat /\ f * c <= m * c /\ (f + 1) * c = f * c + c
<1>1. PICK d \in Nat : m = f + d
  <2>1. m - f \in Nat /\ m = f + (m - f)
    OBVIOUS
  <2> QED BY <2>1
<1>2. f * c \in Nat /\ d * c \in Nat
  OBVIOUS
<1>3. m * c = f * c + d * c
  BY <1>1
<1>4. (f + 1) * c = f * c + c
  OBVIOUS
<1> QED BY <1>2, <1>3, <1>4

(* Sums of times.  A refresh at R is not before t; the retries took sp.       *)
LEMMA LateSums ==
  ASSUME NEW s \in Nat, NEW t \in Nat, NEW R \in Int, t <= R, NEW sp \in Nat,
         sp <= MaxFails * RetryDelay, t >= s + Safe
  PROVE  /\ ~(R <= s + LongestDelay + sp)
         /\ ~(R < s + hold_down_time + 2 * LongestDelay + sp)
<1>1. MaxFails * RetryDelay \in Nat
  BY Product, DelayTypes, ConstantsAssumption
<1> QED BY <1>1, DelayTypes, ConstantsAssumption DEF Safe, Seen

LEMMA EndSums ==
  ASSUME NEW s \in Nat, NEW l \in Nat, NEW t \in Nat, NEW R \in Int, t <= R, NEW sp \in Nat,
         sp <= MaxFails * RetryDelay
  PROVE  /\ R <= l + LongestDelay + sp =>
              /\ t <= l + Seen
              /\ t <= l + Seen + 4 * hold_down_time + LongestDelay
         /\ R <= s + hold_down_time + 3 * LongestDelay + sp => t <= s + Safe + LongestDelay
         /\ R <= l + 2 * LongestDelay + 4 * hold_down_time + sp =>
              t <= l + Seen + 4 * hold_down_time + LongestDelay
<1>1. MaxFails * RetryDelay \in Nat
  BY Product, DelayTypes, ConstantsAssumption
<1> QED BY <1>1, DelayTypes, ConstantsAssumption DEF Safe, Seen

LEMMA FirstSums ==
  ASSUME NEW l \in Nat
  PROVE  0 <= l + Seen /\ 0 <= l + Seen + 4 * hold_down_time + LongestDelay
<1>1. MaxFails * RetryDelay \in Nat
  BY Product, DelayTypes, ConstantsAssumption
<1> QED BY <1>1, DelayTypes, ConstantsAssumption DEF Seen

LEMMA RetrySums ==
  ASSUME NEW n \in Int, NEW R \in Int, NEW sp \in Nat, R <= n + RetryDelay
  PROVE  /\ sp + RetryDelay \in Nat /\ sp <= sp + RetryDelay
         /\ R - n <= (sp + RetryDelay) - sp /\ n - n <= (sp + RetryDelay) - sp
BY DelayTypes

LEMMA NextSums ==
  ASSUME NEW t \in Nat, NEW R \in Int, NEW R2 \in Int, R2 <= R, NEW sp \in Nat
  PROVE  t <= t /\ sp <= sp /\ R2 - R <= sp - sp
OBVIOUS

LEMMA TickSums ==
  ASSUME NEW t \in Nat, NEW R \in Int, R > t, R <= t + LongestDelay
  PROVE  t + 1 <= R /\ R <= (t + 1) + LongestDelay
BY DelayTypes

(* A keyset of the first file, whose keys are all there at the start.         *)
LEMMA FirstTimed ==
  ASSUME NEW e, NEW k, NEW z, NEW s \in Nat, NEW l \in Nat, NEW sp \in Nat,
         e = Valid(FALSE) \/ (e = NoEntry /\ k \notin Initial)
  PROVE  Timed(e, k, 0, z, s, l, 0, sp)
BY DelayTypes, ConstantsAssumption DEF Timed, Valid, NoEntry

(* What ta_present() makes of an entry it found.                              *)
LEMMA KnownEntry ==
  ASSUME NEW e \in Entry, NEW z, NEW t \in Nat
  PROVE  /\ Known(e, z, t) \in Entry /\ ~Known(e, z, t).ds
         /\ e.state = "AddPend" /\ e.timer <= t => Known(e, z, t).state = "Valid"
         /\ e.state = "AddPend" /\ e.timer > t =>
              Known(e, z, t).state = "AddPend" /\ Known(e, z, t).timer = e.timer
         /\ e.state = "Valid" /\ z = "present" => Known(e, z, t).state = "Valid"
         /\ e.state = "Valid" /\ z = "revoked" =>
              Known(e, z, t).state \in {"Revoked", "Removed"}
         /\ e.state \in {"Revoked", "Removed"} => Known(e, z, t).state \in {"Revoked", "Removed"}
<1> DEFINE e1 == KeyPres(AsDnskey(e))
           e2 == RevBit(e1, z, t)
           e3 == RemTime(e2, t)
           e4 == AddTime(e3, t)
<1>1. /\ e1 \in Entry /\ ~e1.ds
      /\ e.state \in {"Valid", "Missing"} => e1.state = "Valid"
      /\ e.state \notin {"Valid", "Missing"} => e1.state = e.state /\ e1.timer = e.timer
  BY DEF KeyPres, AsDnskey, Becomes, Entry, States
<1>2. /\ e2 \in Entry /\ ~e2.ds
      /\ e1.state = "Valid" /\ z = "revoked" => e2.state = "Revoked"
      /\ e1.state = "Valid" /\ z # "revoked" => e2.state = "Valid"
      /\ e1.state \notin {"Valid", "Missing"} => e2.state = e1.state /\ e2.timer = e1.timer
  <2> HIDE DEF e1
  <2> QED BY <1>1, ConstantsAssumption DEF RevBit, Becomes, Entry, States
<1>3. /\ e3 \in Entry /\ ~e3.ds
      /\ e2.state = "Revoked" => e3.state \in {"Revoked", "Removed"}
      /\ e2.state # "Revoked" => e3.state = e2.state /\ e3.timer = e2.timer
  <2> HIDE DEF e2
  <2> QED BY <1>2 DEF RemTime, Becomes, Entry, States
<1>4. /\ e4 \in Entry /\ ~e4.ds
      /\ e3.state = "AddPend" /\ e3.timer <= t => e4.state = "Valid"
      /\ e3.state = "AddPend" /\ e3.timer > t => e4.state = "AddPend" /\ e4.timer = e3.timer
      /\ e3.state # "AddPend" => e4.state = e3.state
  <2> HIDE DEF e3
  <2> QED BY <1>3 DEF AddTime, Becomes, Entry, States
<1>5. Known(e, z, t) = e4
  BY DEF Known
<1> HIDE DEF e1, e2, e3, e4
<1> QED BY <1>1, <1>2, <1>3, <1>4, <1>5

\* Step 1 of update() for one entry, and what a purge may leave of it.
Missed(e, z, t) == IF Found(e, z) THEN e ELSE TaMissing(e, t)
Kept(n, m) == n = m \/ (m.state = "Removed" /\ n = NoEntry)

\* Such an entry is refreshed at time t, which makes it r, and will be again by R.
Refreshed(e, k, z, s, l, t, sp, R, r) ==
  /\ e \in Entry /\ z \in ZoneStates /\ s \in Nat /\ l \in Nat /\ t \in Nat /\ sp \in Nat
  /\ R \in Int /\ R <= t + LongestDelay /\ s <= t
  /\ Timed(e, k, t, z, s, l, t, sp)
  /\ z = "new" => e.state = "None"
  /\ \E n, force : Kept(n, Missed(e, z, t)) /\ r = TaPresent(n, z, force, t)

\* A trusted key that is still in the zone is trusted after it.
TrustKept(e, z, r) == e.state = "Valid" /\ z = "present" => r.state = "Valid"

(* What update() makes of one entry is in time again, until the next refresh. *)
LEMMA RefreshTimed ==
  ASSUME hold_down_time > 0, NEW e, NEW k, NEW z, NEW s, NEW l, NEW t, NEW sp, NEW R, NEW r0,
         Refreshed(e, k, z, s, l, t, sp, R, r0)
  PROVE  /\ Timed(r0, k, R, z, s, l, t, sp)
         /\ TrustKept(e, z, r0)
<1> SUFFICES ASSUME
        e \in Entry, z \in ZoneStates, s \in Nat, l \in Nat, t \in Nat, sp \in Nat,
        R \in Int, R <= t + LongestDelay, s <= t,
        Timed(e, k, t, z, s, l, t, sp), z = "new" => e.state = "None",
        NEW n, NEW force, Kept(n, Missed(e, z, t))
      PROVE  /\ Timed(TaPresent(n, z, force, t), k, R, z, s, l, t, sp)
             /\ e.state = "Valid" /\ z = "present" => TaPresent(n, z, force, t).state = "Valid"
  BY Zenon DEF Refreshed, TrustKept
<1> DEFINE r == TaPresent(n, z, force, t)
<1> USE DelayTypes, ConstantsAssumption
<1>1. NoEntry \in Entry /\ NoEntry.state = "None"
  BY DEF NoEntry, Entry, States
<1>2. CASE e.state = "None"
  <2>1. Missed(e, z, t) = e /\ n = e
    BY <1>2 DEF Missed, TaMissing, Kept
  <2>2. CASE z = "present"
    <3>1. r = NewKey(force, t) /\ k \notin Initial /\ t <= s + LongestDelay + sp
      BY Zenon, <1>2, <2>1, <2>2 DEF TaPresent, Timed
    <3>2. CASE force
      <4>1. r.state = "Valid"
        BY SMTT(30), <3>1, <3>2 DEF NewKey, Valid
      <4> QED BY <1>2, <2>2, <4>1 DEF Timed
    <3>3. CASE ~force
      <4>1. r.state = "AddPend" /\ r.timer = t + hold_down_time /\ ~r.ds
        BY <3>1, <3>3 DEF NewKey
      <4>2. /\ r.timer <= s + hold_down_time + LongestDelay + sp
            /\ R < s + hold_down_time + 2 * LongestDelay + sp
        BY SMTT(30), <3>1, <4>1
      <4> QED BY <1>2, <3>1, <4>1, <4>2 DEF Timed
    <3> QED BY Zenon, <3>2, <3>3
  <2>3. CASE z # "present"
    <3>1. r = e
      BY <1>2, <2>1, <2>3 DEF TaPresent
    <3> QED BY <1>2, <2>3, <3>1 DEF Timed
  <2> QED BY <2>2, <2>3
<1>3. CASE e.state = "AddPend"
  <2>1. /\ k \notin Initial /\ ~e.ds /\ z # "new"
        /\ e.timer <= s + hold_down_time + LongestDelay + sp
        /\ t < s + hold_down_time + 2 * LongestDelay + sp
    BY <1>3 DEF Timed
  <2>2. CASE z = "absent"
    <3>1. Missed(e, z, t) = NoEntry /\ n = NoEntry
      BY Zenon, <1>1, <1>3, <2>1, <2>2 DEF Missed, Found, TaMissing, Kept
    <3>2. r = NoEntry
      BY <1>1, <2>2, <3>1 DEF TaPresent
    <3> QED BY <1>1, <1>3, <2>2, <3>2 DEF Timed
  <2>3. CASE z # "absent"
    <3>1. Found(e, z) /\ n = e
      BY <1>3, <2>1, <2>3 DEF Missed, Found, Kept, ZoneStates
    <3>2. r = Known(e, z, t)
      BY Zenon, <1>3, <3>1 DEF TaPresent, Known
    <3>3. CASE e.timer <= t
      <4>1. r.state = "Valid"
        BY <1>3, <3>2, <3>3, KnownEntry
      <4>2. R <= s + hold_down_time + 3 * LongestDelay + sp
        BY SMTT(30), <2>1
      <4> QED BY <1>3, <2>1, <2>3, <4>1, <4>2 DEF Timed
    <3>4. CASE ~(e.timer <= t)
      <4>1. e.timer \in Int /\ e.timer > t
        BY <3>4 DEF Entry
      <4>2. r.state = "AddPend" /\ r.timer = e.timer /\ ~r.ds
        BY <1>3, <3>2, <4>1, KnownEntry
      <4>3. R < s + hold_down_time + 2 * LongestDelay + sp
        BY <2>1, <4>1
      <4> QED BY <1>3, <2>1, <4>2, <4>3 DEF Timed
    <3> QED BY <3>3, <3>4
  <2> QED BY <2>2, <2>3
<1>4. CASE e.state = "Valid"
  <2>1. CASE Found(e, z)
    <3>1. n = e /\ z \in {"present", "revoked"}
      BY <1>4, <2>1 DEF Missed, Found, Kept
    <3>2. r = Known(e, z, t)
      BY <1>4, <2>1, <3>1 DEF TaPresent, Known
    <3>3. z = "present" => r.state = "Valid"
      BY <1>4, <3>2, KnownEntry
    <3>4. z = "revoked" => r.state \in {"Revoked", "Removed"}
      BY SMTT(30), <1>4, <3>2, KnownEntry
    <3> QED BY <1>4, <3>1, <3>3, <3>4 DEF Timed
  <2>2. CASE ~Found(e, z)
    <3>1. z = "absent" \/ (z = "revoked" /\ e.ds)
      BY <1>4, <2>2 DEF Found, ZoneStates
    <3>2. Missed(e, z, t) = Becomes(e, "Missing", t + 4 * hold_down_time)
      BY Zenon, <1>4, <2>2 DEF Missed, TaMissing
    <3>3. n = Becomes(e, "Missing", t + 4 * hold_down_time)
      BY <3>2 DEF Kept, Becomes
    <3>4. /\ n.state = "Missing" /\ n.timer = t + 4 * hold_down_time /\ n.ds = e.ds
          /\ ~Found(n, z)
      BY ZenonT(30), <2>2, <3>3 DEF Becomes, Found
    <3>5. r = n
      BY <3>4 DEF TaPresent
    <3>6. z = "absent" => t <= l + LongestDelay + sp
      BY Zenon, <1>4 DEF Timed
    <3>7. z = "absent" => /\ n.timer <= l + LongestDelay + sp + 4 * hold_down_time
                          /\ R <= l + 2 * LongestDelay + 4 * hold_down_time + sp
      BY <3>4, <3>6
    <3>8. n.timer <= t + 4 * hold_down_time
      BY <3>4
    <3>9. Timed(n, k, R, z, s, l, t, sp)
      BY Zenon, <3>1, <3>4, <3>7, <3>8 DEF Timed
    <3> QED BY Zenon, <3>1, <3>5, <3>9
  <2> QED BY Zenon, <2>1, <2>2
<1>5. CASE e.state = "Missing"
  <2>1. /\ z = "absent" \/ (z = "revoked" /\ e.ds)
        /\ e.timer <= t + 4 * hold_down_time
        /\ z = "absent" => e.timer <= l + LongestDelay + sp + 4 * hold_down_time
    BY <1>5 DEF Timed
  <2>2. ~Found(e, z)
    BY <2>1 DEF Found
  <2>3. CASE e.timer <= t
    <3>1. Missed(e, z, t) = Becomes(e, "Removed", e.timer)
      BY <1>5, <2>2, <2>3 DEF Missed, TaMissing
    <3>2. n = Becomes(e, "Removed", e.timer) \/ n = NoEntry
      BY Zenon, <3>1 DEF Kept
    <3>3. CASE n = Becomes(e, "Removed", e.timer)
      <4>1. n.state = "Removed" /\ ~Found(n, z)
        BY <2>2, <3>3 DEF Becomes, Found
      <4>2. r = n
        BY Zenon, <4>1 DEF TaPresent
      <4> QED BY <1>5, <2>1, <4>1, <4>2 DEF Timed
    <3>4. CASE n = NoEntry
      <4>1. r = NoEntry
        BY Zenon, <1>1, <2>1, <3>4 DEF TaPresent
      <4> QED BY <1>1, <1>5, <2>1, <4>1 DEF Timed
    <3> QED BY <3>2, <3>3, <3>4
  <2>4. CASE ~(e.timer <= t)
    <3>1. n = e
      BY <1>5, <2>2, <2>4 DEF Missed, TaMissing, Kept
    <3>2. r = e
      BY <1>5, <2>2, <3>1 DEF TaPresent
    <3>3. e.timer \in Int /\ e.timer > t
      BY <2>4 DEF Entry
    <3>4. z = "absent" => R <= l + 2 * LongestDelay + 4 * hold_down_time + sp
      BY <2>1, <3>3
    <3> QED BY <1>5, <2>1, <3>2, <3>4 DEF Timed
  <2> QED BY <2>3, <2>4
<1>6. CASE e.state \in {"Revoked", "Removed"}
  <2>1. z \in {"revoked", "absent"}
    BY <1>6 DEF Timed
  <2>2. Missed(e, z, t) = e
    BY Zenon, <1>6 DEF Missed, TaMissing
  <2>3. CASE n = e
    <3>1. r = e \/ r = Known(e, z, t)
      BY <1>6, <2>3, <2>1 DEF TaPresent, Known
    <3>2. Known(e, z, t).state \in {"Revoked", "Removed"}
      BY Zenon, <1>6, KnownEntry
    <3>3. r.state \in {"Revoked", "Removed"}
      BY Zenon, <1>6, <3>1, <3>2
    <3> QED BY <1>6, <2>1, <3>3 DEF Timed
  <2>4. CASE n = NoEntry
    <3>1. r = NoEntry
      BY <1>1, <2>1, <2>4 DEF TaPresent
    <3> QED BY <1>1, <1>6, <2>1, <3>1 DEF Timed
  <2> QED BY <2>2, <2>3, <2>4 DEF Kept
<1> QED BY <1>2, <1>3, <1>4, <1>5, <1>6 DEF Entry, States

(* Time passes, retries add to the delay of a refresh, or a process takes the  *)
(* entry over from one that is not refreshed earlier.                          *)
LEMMA TimedLater ==
  ASSUME NEW e \in Entry, NEW k, NEW z, NEW s \in Nat, NEW l \in Nat,
         NEW t \in Nat, NEW t2 \in Nat, t <= t2, NEW sp \in Nat, NEW sp2 \in Nat, sp <= sp2,
         NEW R \in Int, NEW R2 \in Int, R2 - R <= sp2 - sp,
         Timed(e, k, R, z, s, l, t, sp)
  PROVE  Timed(e, k, R2, z, s, l, t2, sp2)
<1> USE DelayTypes, ConstantsAssumption
<1>1. e.timer \in Int /\ R2 <= R + (sp2 - sp)
  BY SMTT(30) DEF Entry
<1>2. CASE e.state = "None"
  BY SMTT(30), <1>1, <1>2 DEF Timed
<1>3. CASE e.state = "AddPend"
  BY SMTT(30), <1>1, <1>3 DEF Timed
<1>4. CASE e.state = "Valid"
  BY SMTT(30), <1>1, <1>4 DEF Timed
<1>5. CASE e.state = "Missing"
  BY <1>1, <1>5 DEF Timed
<1>6. CASE e.state \in {"Revoked", "Removed"}
  BY <1>6 DEF Timed
<1> QED BY <1>2, <1>3, <1>4, <1>5, <1>6 DEF Entry, States

\* The operator revokes or withdraws the key at time t, and it is z2 then.
Leaving(e, k, z, z2, s, l, t, sp, R) ==
  /\ e \in Entry /\ z \in {"present", "revoked"} /\ z2 \in {"revoked", "absent"}
  /\ z = "revoked" => z2 = "absent"
  /\ s \in Nat /\ l \in Nat /\ t \in Nat /\ sp \in Nat
  /\ R \in Int /\ R <= t + LongestDelay
  /\ Timed(e, k, R, z, s, l, t, sp)

(* From then on the time in which the key is given up is counted.              *)
LEMMA TimedLeaves ==
  ASSUME NEW e, NEW k, NEW z, NEW z2, NEW s, NEW l, NEW t, NEW sp, NEW R,
         Leaving(e, k, z, z2, s, l, t, sp, R)
  PROVE  Timed(e, k, R, z2, s, t, t, sp)
<1> SUFFICES ASSUME
        e \in Entry, z \in {"present", "revoked"}, z2 \in {"revoked", "absent"},
        z = "revoked" => z2 = "absent", s \in Nat, l \in Nat, t \in Nat, sp \in Nat,
        R \in Int, R <= t + LongestDelay, Timed(e, k, R, z, s, l, t, sp)
      PROVE  Timed(e, k, R, z2, s, t, t, sp)
  BY Zenon DEF Leaving
<1> USE DelayTypes, ConstantsAssumption
<1>1. e.timer \in Int
  BY Zenon DEF Entry
<1>2. CASE e.state \in {"None", "AddPend"}
  BY Zenon, <1>2 DEF Timed
<1>3. CASE e.state = "Valid"
  BY SMTT(30), <1>1, <1>3 DEF Timed
<1>4. CASE e.state = "Missing"
  <2>1. z = "revoked" /\ z2 = "absent" /\ e.timer <= t + 4 * hold_down_time
    BY Zenon, <1>4 DEF Timed
  <2> QED BY <1>1, <1>4, <2>1 DEF Timed
<1>5. CASE e.state \in {"Revoked", "Removed"}
  BY <1>5 DEF Timed
<1> QED BY <1>2, <1>3, <1>4, <1>5 DEF Entry, States

-----------------------------------------------------------------------------
(* The invariant of rollovers.  The key file is what some running process     *)
(* has, so a process that starts from it is in time as that one is.           *)

Started(p) == refresh[p] # Never

RollTypes ==
  /\ refresh \in [Procs -> Int] /\ left \in [Keys -> Nat] /\ exists \in BOOLEAN
  /\ fails \in Nat /\ fails <= MaxFails
  /\ \A k \in Initial : zone[k] # "new"

\* Timers fire when they are due, and no time passes before all are started.
Clock ==
  \A p \in Procs :
    /\ Started(p) => now <= refresh[p] /\ refresh[p] <= now + LongestDelay
    /\ ~Started(p) => now = 0

InTime(p) ==
  \A k \in Keys : Timed(keyset[p][k], k, refresh[p], zone[k], since[k], left[k], now, Spent)

FileIsOf(p) == Started(p) /\ file = keyset[p]

FirstFile ==
  /\ \A p \in Procs : ~Started(p)
  /\ \A k \in Keys : file[k] = IF k \in Initial THEN Valid(FALSE) ELSE NoEntry

\* The zone is always signed with a key that every process had time to trust.
Established(j) == zone[j] = "present" /\ (j \in Initial \/ now >= since[j] + Safe)

RollInv ==
  /\ HoldInv /\ RollTypes /\ Clock
  /\ \A p \in Procs : Started(p) => InTime(p)
  /\ exists => (\E p \in Procs : FileIsOf(p)) \/ FirstFile
  /\ \E j \in Keys : Established(j)

LEMMA SpentType ==
  ASSUME RollTypes
  PROVE  Spent \in Nat /\ Spent <= MaxFails * RetryDelay /\ (fails + 1) * RetryDelay = Spent + RetryDelay
  BY Product, DelayTypes, ConstantsAssumption DEF RollTypes, Spent

(* Every running process trusts the keys that are established.                *)
LEMMA EstablishedIsTrusted ==
  ASSUME RollInv, NEW p \in Procs, Started(p), NEW j \in Keys, Established(j)
  PROVE  keyset[p][j].state = "Valid"
<1>1. /\ keyset[p][j] \in Entry /\ since[j] \in Nat /\ now \in Nat
      /\ refresh[p] \in Int /\ now <= refresh[p] /\ zone[j] = "present"
  BY Zenon DEF RollInv, HoldInv, HoldTypes, RollTypes, Clock, Established
<1>2. Timed(keyset[p][j], j, refresh[p], "present", since[j], left[j], now, Spent)
  BY <1>1 DEF RollInv, InTime
<1>3. Spent \in Nat /\ Spent <= MaxFails * RetryDelay
  BY Zenon, SpentType DEF RollInv
<1>4. j \notin Initial =>
        /\ ~(refresh[p] <= since[j] + LongestDelay + Spent)
        /\ ~(refresh[p] < since[j] + hold_down_time + 2 * LongestDelay + Spent)
  BY Zenon, <1>1, <1>3, LateSums DEF Established
<1>5. CASE keyset[p][j].state = "None"
  BY Zenon, <1>2, <1>4, <1>5 DEF Timed
<1>6. CASE keyset[p][j].state = "AddPend"
  BY Zenon, <1>2, <1>4, <1>6 DEF Timed
<1>7. CASE keyset[p][j].state \in {"Missing", "Revoked", "Removed"}
  BY <1>2, <1>7 DEF Timed
<1> QED BY <1>1, <1>5, <1>6, <1>7 DEF Entry, States

-----------------------------------------------------------------------------
(* No process runs yet; the zone has a key.                                   *)
LEMMA RollInit == ASSUME Initial # {}, Init PROVE RollInv
<1>1. HoldInv
  BY HoldInit
<1>2. RollTypes
  BY ConstantsAssumption DEF Init, RollTypes, Never
<1>3. \A p \in Procs : ~Started(p)
  BY DEF Init, Started
<1>4. Clock
  BY <1>3 DEF Init, Clock
<1>5. exists => FirstFile
  BY <1>3 DEF Init, FirstFile
<1>6. PICK j \in Initial : TRUE
  OBVIOUS
<1>7. j \in Keys /\ Established(j)
  BY Zenon, <1>6, ConstantsAssumption DEF Init, Established
<1> QED BY <1>1, <1>2, <1>3, <1>4, <1>5, <1>7 DEF RollInv

\* From a state in which q is refreshed in time to one with the same keys, in
\* which its keyset is refreshed at R2.
Later(q, R2, t2, sp2) ==
  /\ InTime(q) /\ t2 \in Nat /\ now <= t2 /\ sp2 \in Nat /\ Spent <= sp2
  /\ R2 \in Int /\ R2 - refresh[q] <= sp2 - Spent

LEMMA InTimeLater ==
  ASSUME RollInv, NEW q \in Procs, NEW R2, NEW t2, NEW sp2, Later(q, R2, t2, sp2)
  PROVE  \A k \in Keys : Timed(keyset[q][k], k, R2, zone[k], since[k], left[k], t2, sp2)
<1> SUFFICES ASSUME NEW k \in Keys
             PROVE  Timed(keyset[q][k], k, R2, zone[k], since[k], left[k], t2, sp2)
  OBVIOUS
<1>1. /\ keyset[q][k] \in Entry /\ since[k] \in Nat /\ left[k] \in Nat /\ now \in Nat
      /\ refresh[q] \in Int
  BY Zenon DEF RollInv, RollTypes, HoldInv, HoldTypes
<1>2. Spent \in Nat
  BY Zenon, SpentType DEF RollInv
<1>3. Timed(keyset[q][k], k, refresh[q], zone[k], since[k], left[k], now, Spent)
  BY Zenon DEF Later, InTime
<1>4. /\ t2 \in Nat /\ now <= t2 /\ sp2 \in Nat /\ Spent <= sp2
      /\ R2 \in Int /\ R2 - refresh[q] <= sp2 - Spent
  BY Zenon DEF Later
<1> QED BY Zenon, <1>1, <1>2, <1>3, <1>4, TimedLater

(* A step of another process.                                                 *)
LEMMA InTimeSame ==
  ASSUME NEW q \in Procs, InTime(q), UNCHANGED <<zone, since, left, now>>, Spent' = Spent,
         keyset'[q] = keyset[q], refresh'[q] = refresh[q]
  PROVE  InTime(q)'
BY Zenon DEF InTime

(* A process that is started.                                                 *)
LEMMA StartRolls ==
  ASSUME RollInv, HoldInv', NEW p \in Procs, StartFromFile(p) \/ Bootstrap(p)
  PROVE  RollInv'
<1>1. PICK ks, initial : Install(p, ks, initial)
  BY Zenon DEF StartFromFile, Bootstrap
<1>2. UNCHANGED <<now, zone, since, left, fails, exists, file>>
  BY Zenon DEF StartFromFile, Bootstrap, operator
<1>3. /\ refresh \in [Procs -> Int] /\ keyset \in [Procs -> [Keys -> Entry]]
      /\ now \in Nat /\ left \in [Keys -> Nat] /\ since \in [Keys -> Nat]
  BY Zenon DEF RollInv, RollTypes, HoldInv, HoldTypes
<1>4. /\ refresh' = [refresh EXCEPT ![p] = now] /\ keyset' = [keyset EXCEPT ![p] = ks]
  BY <1>1 DEF Install
<1>5. /\ refresh'[p] = now /\ keyset'[p] = ks
      /\ \A q \in Procs : q # p => refresh'[q] = refresh[q] /\ keyset'[q] = keyset[q]
  BY <1>3, <1>4
<1>6. Started(p)' /\ \A q \in Procs : q # p => (Started(q)' <=> Started(q))
  BY <1>3, <1>5 DEF Started, Never
<1>7. RollTypes'
  BY SMTT(30), <1>2, <1>3, <1>4 DEF RollInv, RollTypes
<1>8. Clock'
  <2>1. now <= now /\ now <= now + LongestDelay
    BY <1>3, DelayTypes
  <2>2. now' <= refresh'[p] /\ refresh'[p] <= now' + LongestDelay
    BY Zenon, <1>2, <1>5, <2>1
  <2>3. ASSUME NEW q \in Procs, q # p
        PROVE  /\ Started(q)' => now' <= refresh'[q] /\ refresh'[q] <= now' + LongestDelay
               /\ ~Started(q)' => now' = 0
    <3>1. /\ Started(q) => now <= refresh[q] /\ refresh[q] <= now + LongestDelay
          /\ ~Started(q) => now = 0
      BY Zenon DEF RollInv, Clock
    <3>2. refresh'[q] = refresh[q] /\ now' = now /\ (Started(q)' <=> Started(q))
      BY Zenon, <1>2, <1>5, <1>6, <2>3
    <3> QED
      BY Zenon, <3>1, <3>2
  <2> QED
    BY Zenon, <1>6, <2>2, <2>3 DEF Clock
<1>9. Spent' = Spent /\ Spent \in Nat
  BY <1>2, SpentType DEF Spent, RollInv, RetryDelay
<1>10. ASSUME NEW q \in Procs, q # p, Started(q)'
       PROVE  InTime(q)'
  <2>1. InTime(q)
    BY Zenon, <1>6, <1>10 DEF RollInv
  <2>2. keyset'[q] = keyset[q] /\ refresh'[q] = refresh[q]
    BY Zenon, <1>5, <1>10
  <2> QED BY Zenon, <1>2, <1>9, <2>1, <2>2, InTimeSame
<1>11. InTime(p)' /\ (exists' => FileIsOf(p)')
  <2>1. CASE StartFromFile(p)
    <3>1. ks = file /\ exists
      <4>1. keyset' = [keyset EXCEPT ![p] = file] /\ exists
        BY Zenon, <2>1 DEF StartFromFile, Install
      <4> QED BY <1>3, <1>5, <4>1
    <3>2. FileIsOf(p)'
      BY Zenon, <1>2, <1>5, <1>6, <3>1 DEF FileIsOf
    <3>3. ASSUME NEW q \in Procs, FileIsOf(q)
          PROVE  InTime(p)'
      <4>1. InTime(q) /\ now <= refresh[q] /\ refresh[q] \in Int /\ keyset'[p] = keyset[q]
        BY Zenon, <1>3, <1>5, <3>1, <3>3 DEF RollInv, FileIsOf, Clock
      <4>2. Later(q, now, now, Spent)
        <5>1. now \in Int
          BY <1>3
        <5> QED BY Zenon, <1>3, <1>9, <4>1, <5>1, NextSums DEF Later
      <4>3. \A k \in Keys : Timed(keyset[q][k], k, now, zone[k], since[k], left[k], now, Spent)
        BY Zenon, <4>2, InTimeLater
      <4> QED BY Zenon, <1>2, <1>5, <1>9, <4>1, <4>3 DEF InTime
    <3>4. ASSUME FirstFile
          PROVE  InTime(p)'
      <4>1. now = 0
        BY <3>4 DEF FirstFile, RollInv, Clock
      <4>2. ASSUME NEW k \in Keys
            PROVE  Timed(file[k], k, 0, zone[k], since[k], left[k], 0, Spent)
        <5>1. since[k] \in Nat /\ left[k] \in Nat
          BY <1>3
        <5>2. CASE k \in Initial
          <6>1. file[k] = Valid(FALSE)
            BY Zenon, <3>4, <5>2 DEF FirstFile
          <6> QED BY Zenon, <1>9, <5>1, <6>1, FirstTimed
        <5>3. CASE k \notin Initial
          <6>1. file[k] = NoEntry
            BY Zenon, <3>4, <5>3 DEF FirstFile
          <6> QED BY Zenon, <1>9, <5>1, <5>3, <6>1, FirstTimed
        <5> QED BY Zenon, <5>2, <5>3
      <4>3. \A k \in Keys : Timed(file[k], k, now, zone[k], since[k], left[k], now, Spent)
        BY Zenon, <4>1, <4>2
      <4> QED BY Zenon, <1>2, <1>5, <1>9, <3>1, <4>3 DEF InTime
    <3> QED BY <3>1, <3>2, <3>3, <3>4 DEF RollInv
  <2>2. CASE Bootstrap(p)
    <3> DEFINE digests == {k \in Keys : zone[k] = "present"}
    <3>1. ~exists /\ ks = [k \in Keys |-> IF k \in digests THEN Valid(TRUE) ELSE NoEntry]
      <4>1. /\ keyset' = [keyset EXCEPT ![p] = [k \in Keys |-> IF k \in digests THEN Valid(TRUE) ELSE NoEntry]]
            /\ ~exists
        BY ZenonT(30), <2>2 DEF Bootstrap, Install
      <4> QED BY Zenon, <1>3, <1>5, <4>1
    <3>2. ASSUME NEW k \in Keys
          PROVE  Timed(ks[k], k, now, zone[k], since[k], left[k], now, Spent)
      <4>1. CASE zone[k] = "present"
        <5>1. ks[k].state = "Valid"
          BY Zenon, <3>1, <4>1 DEF Valid
        <5> QED BY <4>1, <5>1 DEF Timed
      <4>2. CASE zone[k] # "present"
        <5>1. ks[k].state = "None"
          BY Zenon, <3>1, <4>2 DEF NoEntry
        <5> QED BY <4>2, <5>1 DEF Timed
      <4> QED BY <4>1, <4>2
    <3> QED BY Zenon, <1>2, <1>5, <1>9, <3>1, <3>2 DEF InTime
  <2> QED BY <2>1, <2>2
<1>12. \E j \in Keys : Established(j)'
  BY <1>2 DEF RollInv, Established
<1>13. \A q \in Procs : Started(q)' => InTime(q)'
  BY Zenon, <1>10, <1>11
<1> QED BY Zenon, <1>7, <1>8, <1>11, <1>12, <1>13 DEF RollInv

(* A refresh that is due, is so now.                                          *)
LEMMA DueNow ==
  ASSUME RollInv, NEW p \in Procs, Due(p)
  PROVE  Started(p) /\ refresh[p] = now
<1>1. refresh[p] \in Int /\ now \in Nat
  BY DEF RollInv, RollTypes, HoldInv, HoldTypes
<1>2. Started(p)
  BY DEF Due, Started
<1>3. now <= refresh[p] /\ refresh[p] <= now
  BY <1>2 DEF RollInv, Clock, Due
<1> QED BY <1>1, <1>2, <1>3

(* What update() leaves of an entry the process had.                          *)
LEMMA UpdatesTimed ==
  ASSUME hold_down_time > 0, RollInv, NEW p \in Procs, Due(p),
         NEW ks \in Updates(keyset[p], zone, is_initial[p], now), NEW k \in Keys,
         NEW R \in Int, R <= now + LongestDelay
  PROVE  /\ Timed(ks[k], k, R, zone[k], since[k], left[k], now, Spent)
         /\ keyset[p][k].state = "Valid" /\ zone[k] = "present" => ks[k].state = "Valid"
<1> DEFINE missed == AfterMissing(keyset[p], zone, now)
<1>1. PICK kept \in Purges(keyset[p], missed) :
        ks = [j \in Keys |-> TaPresent(kept[j], zone[j], is_initial[p], now)]
  BY Zenon DEF Updates
<1>2. missed[k] = Missed(keyset[p][k], zone[k], now)
  BY Zenon DEF AfterMissing, Missed
<1>3. Kept(kept[k], missed[k])
  <2> HIDE DEF missed
  <2> QED BY Zenon, <1>1 DEF Purges, Kept
<1>4. ks[k] = TaPresent(kept[k], zone[k], is_initial[p], now)
  BY Zenon, <1>1
<1> HIDE DEF missed
<1>5. /\ keyset[p][k] \in Entry /\ zone[k] \in ZoneStates /\ since[k] \in Nat /\ left[k] \in Nat
      /\ now \in Nat /\ since[k] <= now /\ is_initial[p] \in BOOLEAN
      /\ zone[k] = "new" => keyset[p][k].state = "None"
  BY DEF RollInv, RollTypes, HoldInv, HoldTypes, KeysHeld, ZoneStates
<1>6. Spent \in Nat
  BY Zenon, SpentType DEF RollInv
<1>7. Timed(keyset[p][k], k, now, zone[k], since[k], left[k], now, Spent)
  <2>1. Started(p) /\ refresh[p] = now
    BY Zenon, DueNow
  <2>2. InTime(p)
    BY ZenonT(30), <2>1 DEF RollInv
  <2> QED BY Zenon, <2>1, <2>2 DEF InTime
<1>8. Kept(kept[k], Missed(keyset[p][k], zone[k], now))
  BY <1>2, <1>3
<1>9. \E n, force : /\ Kept(n, Missed(keyset[p][k], zone[k], now))
                    /\ ks[k] = TaPresent(n, zone[k], force, now)
  BY Zenon, <1>4, <1>8
<1>10. Refreshed(keyset[p][k], k, zone[k], since[k], left[k], now, Spent, R, ks[k])
  BY Zenon, <1>5, <1>6, <1>7, <1>9 DEF Refreshed
<1>11. Timed(ks[k], k, R, zone[k], since[k], left[k], now, Spent)
  BY Zenon, <1>10, RefreshTimed
<1>12. TrustKept(keyset[p][k], zone[k], ks[k])
  BY Zenon, <1>10, RefreshTimed
<1> QED BY Zenon, <1>11, <1>12 DEF TrustKept

(* A running process has a key, so its next refresh is not put off too long.   *)
LEMMA SomeKey ==
  ASSUME RollInv, NEW p \in Procs, Started(p)
  PROVE  Listed(keyset[p]) # {} /\ \E k \in anchors[p] : zone[k] = "present"
<1>1. PICK j \in Keys : Established(j)
  BY DEF RollInv
<1>2. keyset[p][j].state = "Valid" /\ zone[j] = "present"
  BY <1>1, EstablishedIsTrusted DEF Established
<1>3. anchors[p] = Published(keyset[p])
  BY DEF RollInv, HoldInv
<1> QED BY <1>2, <1>3 DEF Listed, Published, Trusting

(* refresh_ev with a validated answer.                                        *)
LEMMA RefreshRolls ==
  ASSUME hold_down_time > 0, RollInv, HoldInv', NEW p \in Procs, ActiveRefresh(p)
  PROVE  RollInv'
<1>1. PICK ks \in Updates(keyset[p], zone, is_initial[p], now) :
        /\ keyset' = [keyset EXCEPT ![p] = ks] /\ file' = ks
        /\ refresh' = [refresh EXCEPT ![p] = now + Delay(ks, FALSE)]
  BY Zenon DEF ActiveRefresh, Plan
<1>2. UNCHANGED <<now, zone, since, left, fails>> /\ exists' = TRUE /\ Due(p)
  BY DEF ActiveRefresh, operator
<1>3. /\ refresh \in [Procs -> Int] /\ keyset \in [Procs -> [Keys -> Entry]]
      /\ now \in Nat /\ left \in [Keys -> Nat]
  BY Zenon DEF RollInv, RollTypes, HoldInv, HoldTypes
<1>4. Started(p) /\ refresh[p] = now
  BY Zenon, <1>2, DueNow
<1>5. Delay(ks, FALSE) \in Nat /\ Delay(ks, FALSE) <= LongestDelay
  <2>1. PICK j \in Keys : Established(j)
    BY Zenon DEF RollInv
  <2>2. keyset[p][j].state = "Valid" /\ zone[j] = "present"
    BY <1>4, <2>1, EstablishedIsTrusted DEF Established
  <2>3. now \in Int /\ now <= now + LongestDelay
    BY SMTT(30), <1>3, DelayTypes
  <2>4. ks[j].state = "Valid"
    BY <1>2, <2>2, <2>3, UpdatesTimed
  <2>5. Listed(ks) # {}
    BY <2>4 DEF Listed
  <2> QED BY Zenon, <2>5, DelayBound
<1>6. PICK R \in Int :
        R = now + Delay(ks, FALSE) /\ now <= R /\ R <= now + LongestDelay /\ R # Never
  <2> DEFINE d == Delay(ks, FALSE)
  <2> HIDE DEF d
  <2>1. d \in Nat /\ d <= LongestDelay
    BY Zenon, <1>5 DEF d
  <2>2. now + d \in Int /\ now <= now + d /\ now + d <= now + LongestDelay
        /\ now + d # Never
    BY <1>3, <2>1, DelayTypes DEF Never
  <2> QED BY Zenon, <2>2 DEF d
<1>7. /\ refresh'[p] = R /\ keyset'[p] = ks
      /\ \A q \in Procs : q # p => refresh'[q] = refresh[q] /\ keyset'[q] = keyset[q]
  BY <1>1, <1>3, <1>6
<1>8. Started(p)' /\ \A q \in Procs : q # p => (Started(q)' <=> Started(q))
  BY Zenon, <1>6, <1>7 DEF Started, Never
<1>9. RollTypes'
  BY Zenon, <1>1, <1>2, <1>3, <1>6 DEF RollInv, RollTypes
<1>10. Clock'
  BY Zenon, <1>2, <1>6, <1>7, <1>8 DEF RollInv, Clock
<1>11. Spent' = Spent /\ Spent \in Nat
  BY <1>2, SpentType DEF Spent, RollInv, RetryDelay
<1>12. ASSUME NEW q \in Procs, q # p, Started(q)'
       PROVE  InTime(q)'
  <2>1. InTime(q)
    BY Zenon, <1>8, <1>12 DEF RollInv
  <2>2. keyset'[q] = keyset[q] /\ refresh'[q] = refresh[q]
    BY ZenonT(30), <1>7, <1>12
  <2> QED BY Zenon, <1>2, <1>11, <2>1, <2>2, InTimeSame
<1>13. InTime(p)'
  <2>1. \A k \in Keys : Timed(ks[k], k, R, zone[k], since[k], left[k], now, Spent)
    BY Zenon, <1>2, <1>6, UpdatesTimed
  <2> QED BY <1>2, <1>7, <1>11, <2>1 DEF InTime
<1>14. FileIsOf(p)'
  BY <1>1, <1>7, <1>8 DEF FileIsOf
<1>15. \E j \in Keys : Established(j)'
  BY Zenon, <1>2 DEF RollInv, Established
<1>16. \A q \in Procs : Started(q)' => InTime(q)'
  BY Zenon, <1>12, <1>13
<1> QED BY Zenon, <1>9, <1>10, <1>14, <1>15, <1>16 DEF RollInv

(* refresh_ev without one: the keys are never bogus, so it is a failure of the *)
(* network, of which there are MaxFails.                                       *)
LEMMA FailedRolls ==
  ASSUME RollInv, HoldInv', NEW p \in Procs, RefreshFailed(p)
  PROVE  RollInv'
<1>1. /\ UNCHANGED <<now, zone, since, left, exists, file, keyset>> /\ Due(p)
      /\ refresh' = [refresh EXCEPT ![p] = now + Delay(keyset[p], TRUE)]
  BY Zenon DEF RefreshFailed, operator, Plan
<1>2. /\ refresh \in [Procs -> Int] /\ now \in Nat /\ fails \in Nat
  BY DEF RollInv, RollTypes, HoldInv, HoldTypes
<1>3. Started(p) /\ refresh[p] = now
  BY <1>1, DueNow
<1>4. fails < MaxFails /\ fails' = fails + 1
  <2>1. \E k \in anchors[p] : zone[k] = "present"
    BY <1>3, SomeKey
  <2>2. Authentic(anchors[p], zone)
    BY Zenon, <2>1 DEF Authentic
  <2> QED BY Zenon, <2>2 DEF RefreshFailed
<1>5. Delay(keyset[p], TRUE) \in Nat /\ Delay(keyset[p], TRUE) <= RetryDelay
  BY Zenon, <1>3, SomeKey, DelayBound
<1>6. PICK R \in Int :
        /\ now <= R /\ R <= now + RetryDelay /\ R <= now + LongestDelay /\ R # Never
        /\ refresh' = [refresh EXCEPT ![p] = R]
  <2> DEFINE d == Delay(keyset[p], TRUE)
  <2> HIDE DEF d
  <2>1. d \in Nat /\ d <= RetryDelay
    BY Zenon, <1>5 DEF d
  <2>2. now + d \in Int /\ now <= now + d /\ now + d <= now + RetryDelay
        /\ now + d <= now + LongestDelay /\ now + d # Never
    BY <1>2, <2>1, DelayTypes DEF Never
  <2>3. refresh' = [refresh EXCEPT ![p] = now + d]
    BY Zenon, <1>1 DEF d
  <2> QED BY Zenon, <2>2, <2>3
<1>7. /\ refresh'[p] = R
      /\ \A q \in Procs : q # p => refresh'[q] = refresh[q]
  BY <1>2, <1>6
<1>8. Started(p)' /\ \A q \in Procs : q # p => (Started(q)' <=> Started(q))
  BY Zenon, <1>6, <1>7 DEF Started, Never
<1>9. RollTypes'
  <2>1. refresh' \in [Procs -> Int]
    BY <1>2, <1>6
  <2>2. fails' \in Nat /\ fails' <= MaxFails
    BY <1>2, <1>4, ConstantsAssumption
  <2>3. /\ left \in [Keys -> Nat] /\ exists \in BOOLEAN /\ \A k \in Initial : zone[k] # "new"
        /\ UNCHANGED <<left, exists, zone>>
    BY Zenon, <1>1 DEF RollInv, RollTypes
  <2> QED BY Zenon, <2>1, <2>2, <2>3 DEF RollTypes
<1>10. Clock'
  BY Zenon, <1>1, <1>6, <1>7, <1>8 DEF RollInv, Clock
<1>11. Spent' = Spent + RetryDelay /\ Spent \in Nat
  <2>1. Spent' = (fails + 1) * RetryDelay
    BY <1>4 DEF Spent, RetryDelay
  <2> QED BY Zenon, <2>1, SpentType DEF RollInv
<1>12. ASSUME NEW q \in Procs, NEW S \in Int, InTime(q), refresh'[q] = S,
              S - refresh[q] <= (Spent + RetryDelay) - Spent
       PROVE  InTime(q)'
  <2>1. Later(q, S, now, Spent + RetryDelay)
    <3>1. Spent + RetryDelay \in Nat /\ Spent <= Spent + RetryDelay /\ now <= now
      BY <1>2, <1>11, DelayTypes
    <3> QED BY Zenon, <1>2, <1>12, <3>1 DEF Later
  <2>2. \A k \in Keys :
          Timed(keyset[q][k], k, S, zone[k], since[k], left[k], now, Spent + RetryDelay)
    BY Zenon, <2>1, InTimeLater
  <2> QED BY Zenon, <1>1, <1>11, <1>12, <2>2 DEF InTime
<1>13. ASSUME NEW q \in Procs, Started(q)'
       PROVE  InTime(q)'
  <2>1. InTime(q) /\ refresh[q] \in Int
    BY Zenon, <1>2, <1>3, <1>8, <1>13 DEF RollInv
  <2>2. CASE q = p
    <3>1. now \in Int
      BY <1>2
    <3>2. R - refresh[q] <= (Spent + RetryDelay) - Spent
      BY Zenon, <1>3, <1>6, <1>11, <2>2, <3>1, RetrySums
    <3> QED BY Zenon, <1>6, <1>7, <1>12, <2>1, <2>2, <3>2
  <2>3. CASE q # p
    <3>1. refresh[q] - refresh[q] <= (Spent + RetryDelay) - Spent
      BY <1>11, <2>1, DelayTypes
    <3> QED BY Zenon, <1>7, <1>12, <2>1, <2>3, <3>1
  <2> QED BY Zenon, <2>2, <2>3
<1>14. exists' => (\E q \in Procs : FileIsOf(q)') \/ FirstFile'
  <2>1. \A q \in Procs : FileIsOf(q) => FileIsOf(q)'
    BY Zenon, <1>1, <1>3, <1>8 DEF FileIsOf
  <2>2. ~FirstFile
    BY Zenon, <1>3 DEF FirstFile
  <2> QED BY Zenon, <1>1, <2>1, <2>2 DEF RollInv
<1>15. \E j \in Keys : Established(j)'
  BY <1>1 DEF RollInv, Established
<1> QED BY Zenon, <1>9, <1>10, <1>13, <1>14, <1>15 DEF RollInv

(* The operator changes one key of the zone.                                   *)
LEMMA ZoneRolls ==
  ASSUME RollInv, HoldInv', NEW k \in Keys, Publish(k) \/ Revoke(k) \/ Withdraw(k)
  PROVE  RollInv'
<1>1. UNCHANGED <<now, fails, exists, file, keyset, refresh>>
  BY Zenon DEF Publish, Revoke, Withdraw, process
<1>2. /\ zone \in [Keys -> ZoneStates] /\ since \in [Keys -> Nat] /\ left \in [Keys -> Nat]
      /\ now \in Nat /\ refresh \in [Procs -> Int] /\ keyset \in [Procs -> [Keys -> Entry]]
  BY Zenon DEF RollInv, RollTypes, HoldInv, HoldTypes, ZoneStates
<1>3. /\ \A j \in Keys : j # k => zone'[j] = zone[j] /\ since'[j] = since[j] /\ left'[j] = left[j]
      /\ \/ zone[k] = "new" /\ zone'[k] = "present" /\ since'[k] = now /\ left'[k] = left[k]
         \/ /\ zone[k] \in {"present", "revoked"} /\ zone'[k] \in {"revoked", "absent"}
            /\ zone[k] = "revoked" => zone'[k] = "absent"
            /\ since'[k] = since[k] /\ left'[k] = now
            /\ zone[k] = "present" => Replaced(k)
  BY <1>2 DEF Publish, Revoke, Withdraw
<1>4. Spent' = Spent /\ Spent \in Nat
  BY Zenon, <1>1, SpentType DEF Spent, RollInv, RetryDelay
<1>5. RollTypes'
  <2>1. left' \in [Keys -> Nat]
    BY ZenonT(30), <1>2 DEF Publish, Revoke, Withdraw
  <2>2. \A j \in Initial : zone'[j] # "new"
    BY <1>3, ConstantsAssumption DEF RollInv, RollTypes
  <2> QED BY Zenon, <1>1, <2>1, <2>2 DEF RollInv, RollTypes
<1>6. Clock' /\ \A p \in Procs : Started(p)' <=> Started(p)
  BY ZenonT(30), <1>1 DEF RollInv, Clock, Started
<1>7. ASSUME NEW p \in Procs, Started(p), NEW j \in Keys
      PROVE  Timed(keyset[p][j], j, refresh[p], zone'[j], since'[j], left'[j], now, Spent)
  <2>1. Timed(keyset[p][j], j, refresh[p], zone[j], since[j], left[j], now, Spent)
    BY Zenon, <1>7 DEF RollInv, InTime
  <2>2. CASE j # k
    BY Zenon, <1>3, <2>1, <2>2
  <2>3. CASE j = k
    <3>1. /\ keyset[p][k] \in Entry /\ refresh[p] \in Int /\ refresh[p] <= now + LongestDelay
          /\ since[k] \in Nat /\ left[k] \in Nat
      BY <1>2, <1>7 DEF RollInv, Clock
    <3>2. CASE zone[k] = "new"
      <4>1. zone'[k] = "present" /\ since'[k] = now
        BY <1>3, <3>2
      <4>2. keyset[p][k].state = "None"
        BY Zenon, <3>2 DEF RollInv, HoldInv, KeysHeld
      <4>3. k \notin Initial
        BY <3>2 DEF RollInv, RollTypes
      <4>4. refresh[p] <= now + LongestDelay + Spent
        BY <1>2, <1>4, <3>1, DelayTypes
      <4> QED BY Zenon, <2>3, <4>1, <4>2, <4>3, <4>4 DEF Timed
    <3>3. CASE zone[k] # "new"
      <4>1. /\ zone[k] \in {"present", "revoked"} /\ zone'[k] \in {"revoked", "absent"}
            /\ zone[k] = "revoked" => zone'[k] = "absent"
            /\ since'[k] = since[k] /\ left'[k] = now
        BY Zenon, <1>3, <3>3
      <4>2. Timed(keyset[p][k], k, refresh[p], zone'[k], since[k], now, now, Spent)
        <5>1. Leaving(keyset[p][k], k, zone[k], zone'[k], since[k], left[k], now, Spent, refresh[p])
          BY Zenon, <1>2, <1>4, <2>1, <2>3, <3>1, <4>1 DEF Leaving
        <5> QED BY Zenon, <5>1, TimedLeaves
      <4> QED BY Zenon, <2>3, <4>1, <4>2
    <3> QED BY Zenon, <3>2, <3>3
  <2> QED BY <2>2, <2>3
<1>8. \A p \in Procs : Started(p)' => InTime(p)'
  BY Zenon, <1>1, <1>4, <1>6, <1>7 DEF InTime
<1>9. exists' => (\E p \in Procs : FileIsOf(p)') \/ FirstFile'
  BY Zenon, <1>1, <1>6 DEF RollInv, FileIsOf, FirstFile
<1>10. \E j \in Keys : Established(j)'
  <2>1. CASE zone[k] = "present"
    <3>1. PICK j \in Keys \ {k} : zone[j] = "present" /\ (j \in Initial \/ now >= since[j] + Safe)
      BY Zenon, <1>3, <2>1 DEF Replaced
    <3>2. zone'[j] = zone[j] /\ since'[j] = since[j] /\ now' = now
      BY <1>1, <1>3, <3>1
    <3> QED BY Zenon, <3>1, <3>2 DEF Established, Safe, Seen, LongestDelay, RetryDelay
  <2>2. CASE zone[k] # "present"
    <3>1. PICK j \in Keys : Established(j)
      BY DEF RollInv
    <3>2. zone'[j] = zone[j] /\ since'[j] = since[j] /\ now' = now
      BY Zenon, <1>1, <1>3, <2>2, <3>1 DEF Established
    <3> QED BY Zenon, <3>1, <3>2 DEF Established, Safe, Seen, LongestDelay, RetryDelay
  <2> QED BY <2>1, <2>2
<1> QED BY Zenon, <1>5, <1>6, <1>8, <1>9, <1>10 DEF RollInv

(* Time passes when no refresh is due.                                         *)
LEMMA TickRolls ==
  ASSUME RollInv, HoldInv', Tick
  PROVE  RollInv'
<1>1. /\ now' = now + 1 /\ UNCHANGED <<zone, since, left, fails, exists, file, keyset, refresh>>
      /\ \A p \in Procs : refresh[p] > now
  BY Zenon DEF Tick, operator, process
<1>2. refresh \in [Procs -> Int] /\ now \in Nat /\ since \in [Keys -> Nat]
  BY DEF RollInv, RollTypes, HoldInv, HoldTypes
<1>3. RollTypes'
  BY Zenon, <1>1 DEF RollInv, RollTypes
<1>4. ASSUME NEW p \in Procs
      PROVE  Started(p) /\ Started(p)' /\ now' <= refresh'[p] /\ refresh'[p] <= now' + LongestDelay
  <2>1. refresh[p] \in Int /\ refresh[p] > now /\ refresh'[p] = refresh[p]
    BY <1>1, <1>2
  <2>2. refresh[p] # Never
    BY <1>2, <2>1 DEF Never
  <2>3. refresh[p] <= now + LongestDelay
    BY Zenon, <2>2 DEF RollInv, Clock, Started
  <2>4. now + 1 <= refresh[p] /\ refresh[p] <= (now + 1) + LongestDelay
    BY Zenon, <1>2, <2>1, <2>3, TickSums
  <2> QED BY Zenon, <1>1, <2>1, <2>2, <2>4 DEF Started, Never
<1>5. Clock'
  BY Zenon, <1>4 DEF Clock
<1>6. Spent' = Spent /\ Spent \in Nat
  BY Zenon, <1>1, SpentType DEF Spent, RollInv, RetryDelay
<1>7. ASSUME NEW p \in Procs
      PROVE  InTime(p)'
  <2>1. InTime(p) /\ keyset'[p] = keyset[p]
    BY Zenon, <1>1, <1>4 DEF RollInv
  <2>2. Later(p, refresh[p], now + 1, Spent)
    <3>1. /\ refresh[p] \in Int /\ now + 1 \in Nat /\ now <= now + 1 /\ Spent <= Spent
          /\ refresh[p] - refresh[p] <= Spent - Spent
      BY <1>2, <1>6
    <3> QED BY Zenon, <1>6, <2>1, <3>1 DEF Later
  <2>3. \A k \in Keys :
          Timed(keyset[p][k], k, refresh[p], zone[k], since[k], left[k], now + 1, Spent)
    BY Zenon, <2>2, InTimeLater
  <2> QED BY Zenon, <1>1, <1>6, <2>3 DEF InTime
<1>8. exists' => (\E p \in Procs : FileIsOf(p)') \/ FirstFile'
  BY Zenon, <1>1, <1>4 DEF RollInv, FileIsOf, FirstFile, Started
<1>9. \E j \in Keys : Established(j)'
  <2>1. PICK j \in Keys : Established(j)
    BY DEF RollInv
  <2>2. Safe \in Nat
    <3>1. MaxFails * RetryDelay \in Nat
      BY Product, DelayTypes, ConstantsAssumption
    <3> QED BY <3>1, DelayTypes, ConstantsAssumption DEF Safe, Seen
  <2>3. since[j] \in Nat /\ (now >= since[j] + Safe => now + 1 >= since[j] + Safe)
    BY <1>2, <2>2
  <2>4. Safe' = Safe
    BY DEF Safe, Seen, LongestDelay, RetryDelay
  <2> QED BY Zenon, <1>1, <2>1, <2>3, <2>4 DEF Established
<1> QED BY Zenon, <1>3, <1>5, <1>7, <1>8, <1>9 DEF RollInv

(* The invariant of rollovers is inductive.                                    *)
LEMMA RollNext ==
  ASSUME hold_down_time > 0, RollInv, [Next]_vars
  PROVE  RollInv'
<1>1. HoldInv'
  BY HoldNext DEF RollInv
<1>2. CASE UNCHANGED vars
  <2>1. UNCHANGED <<now, zone, since, left, fails, exists, file, keyset, refresh>>
    BY Zenon, <1>2 DEF vars, operator, process
  <2>2. RollTypes' /\ Clock' /\ \A p \in Procs : Started(p)' <=> Started(p)
    BY Zenon, <2>1 DEF RollInv, RollTypes, Clock, Started
  <2>3. \A p \in Procs : InTime(p) => InTime(p)'
    BY <2>1 DEF InTime, Spent, RetryDelay
  <2>4. (\A p \in Procs : FileIsOf(p) => FileIsOf(p)') /\ (FirstFile => FirstFile')
    BY Zenon, <2>1, <2>2 DEF FileIsOf, FirstFile
  <2>5. \A j \in Keys : Established(j) => Established(j)'
    BY <2>1 DEF Established, Safe, Seen, LongestDelay, RetryDelay
  <2> QED BY Zenon, <1>1, <2>1, <2>2, <2>3, <2>4, <2>5 DEF RollInv
<1>3. CASE Next
  BY Zenon, <1>1, <1>3, StartRolls, RefreshRolls, FailedRolls, ZoneRolls, TickRolls DEF Next
<1> QED BY <1>2, <1>3

(* A rollover in which the operator waits as RFC 5011 asks for leaves every    *)
(* running process with an anchor the zone signs with: for any number of keys  *)
(* and of processes that share the file, any bounded number of refreshes lost, *)
(* and restarts at any time.  The zone has a key at the start and the          *)
(* hold-down time, 30 days in the code, is not zero.                           *)
THEOREM NobodyIsStranded ==
  ASSUME Initial # {}, hold_down_time > 0
  PROVE  Spec => []NeverStranded
<1>1. RollInv => NeverStranded
  BY SomeKey DEF NeverStranded, Started
<1>2. Init => RollInv
  BY RollInit
<1>3. RollInv /\ [Next]_vars => RollInv'
  BY RollNext
<1> QED BY <1>1, <1>2, <1>3, PTL DEF Spec

(* In the same runs a key the operator revoked or withdrew is out of every     *)
(* trust anchor store within the times of TrustEnds, whichever files and       *)
(* processes its entry went through.                                           *)
THEOREM TrustDoesEnd ==
  ASSUME Initial # {}, hold_down_time > 0
  PROVE  Spec => []TrustEnds
<1>1. RollInv => TrustEnds
  <2> SUFFICES ASSUME RollInv, NEW p \in Procs, NEW k \in anchors[p]
               PROVE  /\ zone[k] = "revoked" =>
                           \/ now <= left[k] + Seen
                           \/ keyset[p][k].ds
                           \/ k \notin Initial /\ now <= since[k] + Safe + LongestDelay
                      /\ zone[k] = "absent" =>
                           now <= left[k] + Seen + 4 * hold_down_time + LongestDelay
    BY Zenon DEF TrustEnds
  <2>1. k \in Keys /\ keyset[p][k].state \in {"Valid", "Missing"}
    BY Zenon DEF RollInv, HoldInv, Published, Trusting
  <2>2. /\ now \in Nat /\ left[k] \in Nat /\ since[k] \in Nat /\ refresh[p] \in Int
    BY Zenon, <2>1 DEF RollInv, RollTypes, HoldInv, HoldTypes
  <2>3. Spent \in Nat /\ Spent <= MaxFails * RetryDelay
    BY Zenon, SpentType DEF RollInv
  <2>4. CASE ~Started(p)
    <3>1. now = 0
      BY Zenon, <2>4 DEF RollInv, Clock
    <3> QED BY Zenon, <2>2, <3>1, FirstSums
  <2>5. CASE Started(p)
    <3>1. now <= refresh[p]
      BY Zenon, <2>5 DEF RollInv, Clock
    <3>2. Timed(keyset[p][k], k, refresh[p], zone[k], since[k], left[k], now, Spent)
      BY Zenon, <2>1, <2>5 DEF RollInv, InTime
    <3>3. CASE zone[k] = "revoked" /\ ~keyset[p][k].ds
      <4>1. \/ refresh[p] <= left[k] + LongestDelay + Spent
            \/ k \notin Initial /\ refresh[p] <= since[k] + hold_down_time + 3 * LongestDelay + Spent
        BY Zenon, <2>1, <3>2, <3>3 DEF Timed
      <4> QED BY Zenon, <2>2, <2>3, <3>1, <3>3, <4>1, EndSums
    <3>4. CASE zone[k] = "absent"
      <4>1. \/ refresh[p] <= left[k] + LongestDelay + Spent
            \/ refresh[p] <= left[k] + 2 * LongestDelay + 4 * hold_down_time + Spent
        <5>1. CASE keyset[p][k].state = "Valid"
          BY Zenon, <3>2, <3>4, <5>1 DEF Timed
        <5>2. CASE keyset[p][k].state = "Missing"
          BY <3>2, <3>4, <5>2 DEF Timed
        <5> QED BY Zenon, <2>1, <5>1, <5>2
      <4> QED BY Zenon, <2>2, <2>3, <3>1, <3>4, <4>1, EndSums
    <3> QED BY <3>3, <3>4
  <2> QED BY Zenon, <2>4, <2>5
<1>2. Init => RollInv
  BY RollInit
<1>3. RollInv /\ [Next]_vars => RollInv'
  BY RollNext
<1> QED BY <1>1, <1>2, <1>3, PTL DEF Spec
=============================================================================
