------------------------------ MODULE Mempool ------------------------------
(***************************************************************************)
(* contrib/ucw/mempool.{c,h}: memory taken from a chain of chunks of one   *)
(* size, or from a chunk of its own when it is more than half of that.     *)
(* A block is a range of offsets of a chunk.  What remains of the newest   *)
(* chunk of a chain is at its end: free[0] and free[1] bytes of it.        *)
(*                                                                         *)
(* Callers resize only the block they got last, and not across a push or   *)
(* a pop, as mempool.h asks them to.                                       *)
(***************************************************************************)
EXTENDS Integers, Sequences, FiniteSets, SequencesExt, FiniteSetsExt

CONSTANTS chunk_size, Header,   \* pool->chunk_size, sizeof(struct mempool)
          MP_CHUNK_TAIL, CPU_STRUCT_ALIGN,
          StateSize,            \* sizeof(struct mempool_state)
          Sizes,                \* sizes that are asked for
          MaxOps                \* bound: operations in one behaviour

VARIABLES
  size,       \* the chunks that are allocated, with their sizes
  state,      \* pool->state: free[0..1], last[0..1] as chains, next
  unused, last_big, idx, total_size,
  blocks,     \* what the callers hold
  newest,     \* the block that may be resized, or NoBlock
  ops

vars == <<size, state, unused, last_big, idx, total_size, blocks, newest, ops>>

NoBlock == [chunk |-> 0, from |-> 0, len |-> 0, aligned |-> FALSE]

threshold == chunk_size \div 2

Down(n) == n - (n % CPU_STRUCT_ALIGN)

ALIGN_TO(n) == Down(n + CPU_STRUCT_ALIGN - 1)

NewChunk == 1 + Max(DOMAIN size)

Add(f, c, n) == [x \in DOMAIN f \cup {c} |-> IF x = c THEN n ELSE f[x]]

Without(f, cs) == [x \in DOMAIN f \ cs |-> f[x]]

Bytes(f) == MapThenSumSet(LAMBDA c : f[c] + MP_CHUNK_TAIL, DOMAIN f)

\* mp_new(): the pool itself is at the start of its first chunk.
Init ==
  /\ size = [c \in {1} |-> chunk_size]
  /\ state = [free |-> <<chunk_size - Header, 0>>, last |-> <<<<1>>, <<>>>>, next |-> <<>>]
  /\ unused = <<>> /\ last_big = 0 /\ idx = 0
  /\ total_size = chunk_size + MP_CHUNK_TAIL
  /\ blocks = {} /\ newest = NoBlock /\ ops = 0

\* mp_alloc_internal(), for a pool p: the pool after it, and where the block
\* is.  A pool is a record of the variables the code keeps in struct mempool.
mp_alloc_internal(p, n) ==
  IF n <= threshold
  THEN LET c == IF p.unused # <<>> THEN Head(p.unused) ELSE NewChunk
           new == p.unused = <<>>
       IN [pool |-> [p EXCEPT !.idx = 0,
                       !.size = IF new THEN Add(p.size, c, chunk_size) ELSE p.size,
                       !.unused = IF new THEN p.unused ELSE Tail(p.unused),
                       !.total_size = IF new THEN @ + chunk_size + MP_CHUNK_TAIL ELSE @,
                       !.state.last[1] = <<c>> \o @,
                       !.state.free[1] = chunk_size - n],
           chunk |-> c, from |-> 0]
  ELSE LET c == NewChunk
       IN [pool |-> [p EXCEPT !.idx = 1,
                       !.size = Add(p.size, c, ALIGN_TO(n)),
                       !.total_size = @ + ALIGN_TO(n) + MP_CHUNK_TAIL,
                       !.state.last[2] = <<c>> \o @,
                       !.state.free[2] = ALIGN_TO(n) - n,
                       !.last_big = c],
           chunk |-> c, from |-> 0]

Pool == [size |-> size, state |-> state, unused |-> unused, last_big |-> last_big,
         idx |-> idx, total_size |-> total_size]

Becomes(p) ==
  /\ size' = p.size /\ state' = p.state /\ unused' = p.unused
  /\ last_big' = p.last_big /\ idx' = p.idx /\ total_size' = p.total_size

\* mp_alloc_fast(), or mp_alloc_fast_noalign()
Alloc(p, n, aligned) ==
  LET avail == IF aligned THEN Down(p.state.free[1]) ELSE p.state.free[1]
      c == Head(p.state.last[1])
  IN IF n <= avail
     THEN [pool |-> [p EXCEPT !.state.free[1] = avail - n],
           chunk |-> c, from |-> p.size[c] - avail]
     ELSE mp_alloc_internal(p, n)

mp_alloc(n, aligned) ==
  LET a == Alloc(Pool, n, aligned)
      b == [chunk |-> a.chunk, from |-> a.from, len |-> n, aligned |-> aligned]
  IN /\ Becomes(a.pool)
     /\ blocks' = blocks \cup {b} /\ newest' = b

\* mp_grow_internal() of the buffer that is open: a big chunk is enlarged to
\* twice the buffer at least, any other block is copied to a new place.
mp_grow_internal(p, n) ==
  LET avail == p.state.free[p.idx + 1]
      amortized == ALIGN_TO(Max({2 * avail, n}))
      c == Head(p.state.last[2])
      a == mp_alloc_internal(p, n)
  IN IF p.idx = 1
     THEN [pool |-> [p EXCEPT !.size[c] = amortized,
                       !.total_size = @ - p.size[c] + amortized,
                       !.state.free[2] = amortized, !.last_big = c],
           chunk |-> c, from |-> 0]
     ELSE [a EXCEPT !.pool.state.free[a.pool.idx + 1] = @ + n]

\* Mutant: mp_open_fast() takes the small chain for every block.
ReallocSmall(n) ==
  LET b == newest
      c == Head(state.last[1])
      open == [Pool EXCEPT !.idx = 0, !.state.free[1] = size[c] - b.from]
      g == IF n <= open.state.free[1] THEN [pool |-> open, chunk |-> c, from |-> b.from]
           ELSE mp_grow_internal(open, n)
      r == [chunk |-> g.chunk, from |-> g.from, len |-> n, aligned |-> b.aligned]
      i == g.pool.idx + 1
  IN /\ Becomes([g.pool EXCEPT !.state.free[i] = g.pool.size[g.chunk] - (g.from + n)])
     /\ blocks' = (blocks \ {b}) \cup {r} /\ newest' = r

\* mp_realloc_fast(): mp_open_fast(), mp_grow() and mp_end().
Realloc(n) ==
  LET b == newest
      j == IF b.chunk = last_big THEN 1 ELSE 0
      c == Head(state.last[j + 1])
      open == [Pool EXCEPT !.idx = j, !.state.free[j + 1] = size[c] - b.from]
      g == IF n <= open.state.free[j + 1] THEN [pool |-> open, chunk |-> c, from |-> b.from]
           ELSE mp_grow_internal(open, n)
      r == [chunk |-> g.chunk, from |-> g.from, len |-> n, aligned |-> b.aligned]
      i == g.pool.idx + 1
  IN /\ Becomes([g.pool EXCEPT !.state.free[i] = g.pool.size[g.chunk] - (g.from + n)])
     /\ blocks' = (blocks \ {b}) \cup {r} /\ newest' = r

mp_realloc(n) == newest # NoBlock /\ Realloc(n)


\* mp_flush(): every big chunk is freed, every other one but the first is kept
\* for later.
mp_flush ==
  /\ size' = Without(size, ToSet(state.last[2]))
  /\ total_size' = total_size - Bytes([c \in ToSet(state.last[2]) |-> size[c]])
  /\ unused' = Reverse(Front(state.last[1])) \o unused
  /\ state' = [free |-> <<chunk_size - Header, 0>>,
               last |-> <<<<Last(state.last[1])>>, <<>>>>, next |-> <<>>]
  /\ last_big' = 0 /\ blocks' = {} /\ newest' = NoBlock
  /\ UNCHANGED idx

\* mp_push(): the state before it, kept in a block of the pool.
mp_push ==
  LET a == Alloc(Pool, StateSize, TRUE)
      kept == [free |-> state.free, last |-> state.last, blocks |-> blocks]
      b == [chunk |-> a.chunk, from |-> a.from, len |-> StateSize, aligned |-> TRUE]
  IN /\ Becomes([a.pool EXCEPT !.state.next = <<kept>> \o state.next])
     /\ blocks' = blocks \cup {b} /\ newest' = NoBlock

\* The chunks of chain that are newer than those of old.
Newer(chain, old) == SubSeq(chain, 1, Len(chain) - Len(old))

\* mp_restore() to the state that was pushed last.
mp_pop ==
  LET s == Head(state.next)
      gone == ToSet(Newer(state.last[2], s.last[2]))
  IN /\ state.next # <<>>
     /\ unused' = Reverse(Newer(state.last[1], s.last[1])) \o unused
     /\ size' = Without(size, gone)
     /\ total_size' = total_size - Bytes([c \in gone |-> size[c]])
     /\ state' = [free |-> s.free, last |-> s.last, next |-> Tail(state.next)]
     /\ last_big' = 0 /\ blocks' = s.blocks /\ newest' = NoBlock
     /\ UNCHANGED idx

Next ==
  /\ ops < MaxOps /\ ops' = ops + 1
  /\ \/ \E n \in Sizes : mp_realloc(n) \/ \E aligned \in BOOLEAN : mp_alloc(n, aligned)
     \/ mp_flush
     \/ mp_push
     \/ mp_pop

Spec == Init /\ [][Next]_vars

Overlap(b, c) ==
  b.chunk = c.chunk /\ b.from < c.from + c.len /\ c.from < b.from + b.len

\* No two blocks that callers hold overlap, and none overlaps the pool's own
\* structure or what the pool will hand out next; each lies in a chunk that is
\* in use, aligned if that was asked for.  pool->total_size is what the
\* chunks take, which mp_stats() asserts.
PoolSound ==
  /\ \A b \in blocks :
       /\ b.chunk \in ToSet(state.last[1]) \cup ToSet(state.last[2])
       /\ b.from + b.len <= size[b.chunk]
       /\ b.chunk = 1 => b.from >= Header
       /\ b.aligned => b.from % CPU_STRUCT_ALIGN = 0
       /\ \A c \in blocks \ {b} : ~Overlap(b, c)
       /\ \A i \in 1..2 : state.last[i] # <<>> /\ b.chunk = Head(state.last[i]) =>
            b.from + b.len <= size[b.chunk] - state.free[i]
  /\ ToSet(unused) \cap (ToSet(state.last[1]) \cup ToSet(state.last[2])) = {}
  /\ total_size = Bytes(size)
  /\ DOMAIN size = ToSet(unused) \cup ToSet(state.last[1]) \cup ToSet(state.last[2])
=============================================================================
