------------------------------- MODULE Queue -------------------------------
(***************************************************************************)
(* lib/generic/queue.{c,h}: a list of chunks, each an array used from      *)
(* begin to end.  Pushing goes to either end, popping to the head only;    *)
(* a full chunk that is at most half used is shifted, any other makes the  *)
(* list grow.  The items are numbered in the order they are pushed.        *)
(*                                                                         *)
(* queue_pop() of the only item frees the chunk and leaves q->tail as it   *)
(* was, while q->head becomes NULL.  "tail" is what q->tail is worth:      *)
(*   "sound"    NULL in a queue never used, else the last chunk;           *)
(*   "freed"    a chunk that was freed;                                    *)
(*   "reused"   the same, and items were pushed to it since;               *)
(*   "aborted"  an assertion failed, or the access to freed memory did.    *)
(***************************************************************************)
EXTENDS Integers, Sequences, SequencesExt

CONSTANTS chunk_cap, \* q->chunk_cap
          MaxPush    \* bound: items pushed in one behaviour

VARIABLES chunks, \* the list from q->head on
          len, tail,
          pushed, items \* what the caller pushed, and has not popped

vars == <<chunks, len, tail, pushed, items>>

queue_chunk_new == [begin |-> 0, end |-> 0, data |-> [i \in 0..(chunk_cap - 1) |-> 0]]

Init == chunks = <<>> /\ len = 0 /\ tail = "sound" /\ pushed = 0 /\ items = <<>>

\* Moves the items of c by the given distance, as one memcpy().
Shifted(c, by) ==
  [begin |-> c.begin + by, end |-> c.end + by,
   data |-> [i \in DOMAIN c.data |->
               IF i - by \in c.begin..(c.end - 1) THEN c.data[i - by] ELSE c.data[i]]]

\* Mutant: a full chunk is moved to its start by resetting the two indices
\* without moving the items.
RoomAtTailUnmoved(cs) ==
  LET t == Last(cs)
  IN IF cs = <<>> THEN <<queue_chunk_new>>
     ELSE IF t.end < chunk_cap THEN cs
     ELSE IF t.begin * 2 >= chunk_cap
          THEN Front(cs) \o <<[t EXCEPT !.begin = 0, !.end = t.end - t.begin]>>
          ELSE Append(cs, queue_chunk_new)

RoomAtTail(cs) ==
  LET t == Last(cs)
  IN IF cs = <<>> THEN <<queue_chunk_new>>
     ELSE IF t.end < chunk_cap THEN cs
     ELSE IF t.begin * 2 >= chunk_cap THEN Front(cs) \o <<Shifted(t, -t.begin)>>
          ELSE Append(cs, queue_chunk_new)

RoomAtHead(cs) ==
  LET h == Head(cs)
      new == [queue_chunk_new EXCEPT !.begin = chunk_cap, !.end = chunk_cap]
  IN IF cs = <<>> THEN <<new>>
     ELSE IF h.begin > 0 THEN cs
     ELSE IF h.end * 2 <= chunk_cap THEN <<Shifted(h, chunk_cap - h.end)>> \o Tail(cs)
          ELSE <<new>> \o cs

Dangling == tail \in {"freed", "reused"}

\* The item goes to the last chunk.  When that was freed the indices read from
\* it are arbitrary: the item is written where no walk from q->head comes, or
\* an assertion or the access itself fails.
queue_push ==
  LET cs == RoomAtTail(chunks)
      t == Last(cs)
      v == pushed + 1
  IN /\ tail # "aborted" /\ pushed < MaxPush
     /\ pushed' = v
     /\ \/ /\ ~Dangling
           /\ chunks' = Front(cs) \o <<[t EXCEPT !.data[t.end] = v, !.end = t.end + 1]>>
           /\ UNCHANGED tail
        \/ Dangling /\ tail' \in {"reused", "aborted"} /\ UNCHANGED chunks
     /\ items' = Append(items, v) /\ len' = len + 1

\* An empty list must have no tail: assert(!q->tail && !q->len).
queue_push_head ==
  LET cs == RoomAtHead(chunks)
      h == Head(cs)
      v == pushed + 1
  IN /\ tail # "aborted" /\ pushed < MaxPush
     /\ pushed' = v
     /\ \/ /\ ~Dangling
           /\ chunks' = <<[h EXCEPT !.data[h.begin - 1] = v, !.begin = h.begin - 1]>> \o Tail(cs)
           /\ items' = <<v>> \o items /\ len' = len + 1 /\ UNCHANGED tail
        \/ Dangling /\ tail' = "aborted" /\ UNCHANGED <<chunks, items, len>>

\* The callers pop while len > 0; assert(h && h->end > h->begin) fails when the
\* items are not in the list.
queue_pop ==
  LET h == Head(chunks)
  IN /\ tail # "aborted" /\ len > 0
     /\ \/ /\ chunks # <<>>
           /\ chunks' = IF h.end - h.begin = 1 THEN Tail(chunks)
                        ELSE <<[h EXCEPT !.begin = h.begin + 1]>> \o Tail(chunks)
           /\ tail' = IF chunks' = <<>> THEN "freed" ELSE tail
           /\ items' = Tail(items) /\ len' = len - 1
        \/ chunks = <<>> /\ tail' = "aborted" /\ UNCHANGED <<chunks, items, len>>
     /\ UNCHANGED pushed

\* What a walk with queue_it_begin() and queue_it_next() shows: it ends early
\* at a chunk that holds nothing, if there is one.
Walk(cs) ==
  LET Held(c) == [i \in 1..(c.end - c.begin) |-> c.data[c.begin + i - 1]]
      upto == {i \in DOMAIN cs : \A j \in 1..i : cs[j].end > cs[j].begin}
  IN FoldLeft(LAMBDA seen, i : IF i \in upto THEN seen \o Held(cs[i]) ELSE seen,
              <<>>, [i \in DOMAIN cs |-> i])

queue_head(cs) == Head(cs).data[Head(cs).begin]

queue_tail(cs) == Last(cs).data[Last(cs).end - 1]

Next == queue_push \/ queue_push_head \/ queue_pop

Spec == Init /\ [][Next]_vars

\* The iterator, the head, the tail and the length show exactly the items that
\* are in the queue, in order, and the indices of every chunk stay inside its
\* array (the asserts of queue.c and queue.h).
ShowsItems ==
  /\ Walk(chunks) = items
  /\ len = Len(items)
  /\ items # <<>> => queue_head(chunks) = Head(items) /\ queue_tail(chunks) = Last(items)
  /\ \A i \in DOMAIN chunks : 0 <= chunks[i].begin /\ chunks[i].end <= chunk_cap

\* Whatever is pushed to either end and popped, however the chunks grow and
\* shift, the queue shows its items, until it is pushed to after the only item
\* was popped; up to then no assertion fails.
QueueIsFifo == tail \in {"sound", "freed"} => ShowsItems

\* "A queue, usable for FIFO and LIFO simultaneously": both ends may be pushed to
\* and the head popped at any time, after the queue became empty as before.
FifoAndLifo == tail # "aborted" /\ ShowsItems
=============================================================================
