-------------------------------- MODULE Lru ---------------------------------
(***************************************************************************)
(* The cache of frequent keys of lib/generic/lru.c: round-trip times and   *)
(* reputations of servers, DNS cookies, frequent queries.                  *)
(*                                                                         *)
(* Groups do not interact, so that there is one.  All values of a table    *)
(* have one size.  A caller of lru_get_new() writes to the place it gets.  *)
(***************************************************************************)
EXTENDS Integers, FiniteSets, FiniteSetsExt

CONSTANTS
  Keys,
  Hash,           \* the top half of the hash of each key
  Values,         \* what callers write
  LRU_ASSOC,      \* the keys stored in a group
  LRU_TRACKED,    \* the hashes tracked
  MaxCount        \* the greatest value of a counter, 65535 in the code

VARIABLES
  counts, hashes, items,   \* the group
  written,                 \* what was last written for each key
  refused                  \* how many untracked insertions were refused since a key was
                           \* last found or inserted

vars == <<counts, hashes, items, written, refused>>

Stored == 0..(LRU_ASSOC - 1)
Tracked == LRU_ASSOC..(LRU_TRACKED - 1)
NULL == [key |-> 0, val |-> 0]

Init ==
  /\ counts = [i \in 0..LRU_TRACKED |-> 0]
  /\ hashes = [i \in 0..(LRU_TRACKED - 1) |-> 0]
  /\ items = [i \in Stored |-> NULL]
  /\ written = [k \in Keys |-> 0]
  /\ refused = 0

\* group_inc_count(): the counter stays at its greatest value.
Inc(c, i) == [c EXCEPT ![i] = IF @ = MaxCount THEN @ ELSE @ + 1]

\* group_dec_counts(), with the counter of its own occasions.
DecCounts(c) ==
  [i \in DOMAIN c |-> IF i = LRU_TRACKED THEN LRU_TRACKED - 1
                      ELSE IF c[i] = 0 THEN 0 ELSE c[i] - 1]

Holding(key) == {i \in Stored : hashes[i] = Hash[key] /\ items[i].key = key}
Vacant == {i \in Stored : items[i] = NULL \/ counts[i] = 0}
Tracking(key) == {i \in Tracked : hashes[i] = Hash[key]}
Trumped(c, i) == {j \in Stored : c[i] > c[j]}

\* The end of lru_get_impl(): position i has the key.
Found(i, key, c) ==
  /\ counts' = Inc(c, i)
  /\ refused' = 0

\* Insertion at position i, which the caller then writes to; it may lack memory.
Insert(i, key, val, c, h) ==
  /\ hashes' = [h EXCEPT ![i] = Hash[key]]
  /\ \/ /\ items' = [items EXCEPT ![i] = [key |-> key, val |-> val]]
        /\ written' = [written EXCEPT ![key] = val]
        /\ Found(i, key, c)
     \/ /\ items' = [items EXCEPT ![i] = NULL]
        /\ counts' = c /\ refused' = 0
        /\ UNCHANGED written

\* A key that is not stored: its hash may be tracked and its count beat a
\* stored key's, which changes places with it.
Swap(f, i, j) == [f EXCEPT ![i] = f[j], ![j] = f[i]]

Trump(c, i, key, val) ==
  IF Trumped(c, i) # {}
  THEN LET j == Min(Trumped(c, i))
       IN Insert(j, key, val, [Swap(c, i, j) EXCEPT ![j] = @ - 1], Swap(hashes, i, j))
  ELSE /\ counts' = c
       /\ UNCHANGED <<hashes, items, written, refused>>

\* Not found at all: all counts go down, but only once in LRU_TRACKED times.
Age(c) ==
  IF c[LRU_TRACKED] # 0 THEN [c EXCEPT ![LRU_TRACKED] = @ - 1] ELSE DecCounts(c)

\* lru_get_try()
GetTry(key) ==
  /\ counts' = IF Holding(key) # {} THEN Inc(counts, Min(Holding(key)))
               ELSE IF Tracking(key) # {} THEN Inc(counts, Min(Tracking(key)))
               ELSE Age(counts)
  /\ refused' = IF Holding(key) \cup Tracking(key) # {} THEN 0 ELSE refused
  /\ UNCHANGED <<hashes, items, written>>

\* lru_get_new()
GetNew(key, val) ==
  IF Holding(key) # {}
  THEN /\ items' = [items EXCEPT ![Min(Holding(key))].val = val]
       /\ written' = [written EXCEPT ![key] = val]
       /\ Found(Min(Holding(key)), key, counts)
       /\ UNCHANGED hashes
  ELSE IF Vacant # {} THEN Insert(Min(Vacant), key, val, counts, hashes)
  ELSE IF Tracking(key) # {} THEN
    LET i == Min(Tracking(key)) IN Trump(Inc(counts, i), i, key, val)
  ELSE /\ counts' = Age(counts) /\ refused' = refused + 1
       /\ UNCHANGED <<hashes, items, written>>

\* lru_apply() with a function that evicts.
Apply(key) ==
  /\ Holding(key) # {}
  /\ LET i == Min(Holding(key))
     IN /\ items' = [items EXCEPT ![i] = NULL]
        /\ counts' = [counts EXCEPT ![i] = 0]
        /\ hashes' = [hashes EXCEPT ![i] = 0]
  /\ UNCHANGED <<written, refused>>

\* lru_reset()
Reset ==
  /\ counts' = [i \in DOMAIN counts |-> 0] /\ hashes' = [i \in DOMAIN hashes |-> 0]
  /\ items' = [i \in Stored |-> NULL]
  /\ UNCHANGED <<written, refused>>

Next ==
  \/ \E key \in Keys :
       \/ GetTry(key)
       \/ \E val \in Values : GetNew(key, val)
       \/ Apply(key)
  \/ Reset

Spec == Init /\ [][Next]_vars

-----------------------------------------------------------------------------
(* Properties.                                                              *)

\* Eviction and insertion, by the counts of keys whose hashes may be equal, never
\* mix up keys: a key is stored once, under its hash, so that it is found again,
\* and with what was last written for it; and although frequent keys keep their
\* places, a key that is not tracked is not refused for ever.
LruIsCache ==
  /\ \A i \in Stored : items[i] # NULL =>
       /\ hashes[i] = Hash[items[i].key]
       /\ items[i].val = written[items[i].key]
       /\ \A j \in Stored : items[j].key = items[i].key => i = j
  /\ refused <= (LRU_TRACKED + 1) * MaxCount
=============================================================================
