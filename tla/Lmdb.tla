-------------------------------- MODULE Lmdb --------------------------------
(***************************************************************************)
(* Transactions, pages and locks of LMDB (contrib/lmdb/mdb.c), as the      *)
(* processes of kresd use it: MDB_WRITEMAP, so that a writer works in the  *)
(* map that the readers read, MDB_NOTLS, and one cached read transaction   *)
(* per process.  Any process may be killed between two of its steps.       *)
(*                                                                         *)
(* The main database is a root page with one page for each key: a leaf, or *)
(* an overflow page for the keys in Big.  (The shape of larger trees is    *)
(* the subject of module Btree.)  The freeDB is a single page with its     *)
(* records.  The content of the page of a key is the transaction that      *)
(* wrote it.                                                               *)
(***************************************************************************)
EXTENDS Integers, Sequences, FiniteSets, FiniteSetsExt, SequencesExt

CONSTANTS Procs, Keys, Big,
          me_maxpg,              \* the pages of the map
          MaxTxn,                \* bound: transactions that begin to write
          Changes,               \* bound: what transactions do, sequences of changes
          MaxCrashes             \* bound: processes that are killed

VARIABLES
  pages,      \* the mapped data file; 0 stands for P_INVALID and for failure
  metas,      \* the two meta pages
  mti_txnid,  \* in the lock file: the last committed transaction,
  readers,    \* the slot of each process in the reader table,
  wmutex,     \* and the owner of the writers' mutex
  env,        \* the state of each process
  history     \* what each committed transaction left in the database

vars == <<pages, metas, mti_txnid, readers, wmutex, env, history>>

NoSlot == -1             \* mr_pid = 0
Parked == MaxTxn + 1     \* mr_txnid = (txnid_t)-1, larger than any other
NoProc == 0
Empty == <<>>

\* A process outside of transactions.
NoTxn == [txnid |-> 0]
Env(pc, pgoldest) ==
  [pc |-> pc, txnid |-> 0, root |-> 0, of |-> 0, me_pgoldest |-> pgoldest, txn |-> NoTxn]

Meta0 == [mm_txnid |-> 0, main |-> 0, free |-> 0, mm_last_pg |-> 1, of |-> 0]

Init ==
  /\ pages = [n \in 0..me_maxpg |-> <<"unused", Empty>>]
  /\ metas = [i \in 0..1 |-> Meta0]
  /\ mti_txnid = 0 /\ wmutex = NoProc
  /\ readers = [p \in Procs |-> NoSlot]
  /\ env = [p \in Procs |-> Env("closed", 0)]
  /\ history = [t \in 0..MaxTxn |-> Empty]

PickMeta == metas[IF metas[0].mm_txnid < metas[1].mm_txnid THEN 1 ELSE 0]

Alive(p) == env[p].pc \notin {"closed", "dead"}
Step(p, e) == env' = [env EXCEPT ![p] = e]
Go(p, pc) == Step(p, [env[p] EXCEPT !.pc = pc])
At(p, pc) == env[p].pc = pc

-----------------------------------------------------------------------------
(* The work of a write transaction, on x: the transaction x.t and the map   *)
(* x.m.                                                                     *)

\* The records of the freeDB: the pages freed by each transaction.
Records(x) == IF x.t.free = 0 THEN Empty ELSE x.m[x.t.free][2]

\* Mutant of FindOldest: readers whose slot is not parked are missed.
FindOldestParked(t) ==
  Min({t.txnid - 1} \cup {readers[p] : p \in {q \in Procs : readers[q] = Parked}})

FindOldest(t) ==
  Min({t.txnid - 1} \cup {readers[p] : p \in {q \in Procs : readers[q] # NoSlot}})

\* The records after me_pglast and older than o, up to the first with a page.
Fetch(t, f, o) ==
  {r \in DOMAIN f : /\ t.me_pglast < r /\ r < o
                    /\ \A s \in DOMAIN f : t.me_pglast < s /\ s < r => f[s] = {}}

MergeRecords(t, f, o) ==
  [t EXCEPT !.me_pgoldest = o,
            !.me_pghead = @ \cup UNION {f[r] : r \in Fetch(t, f, o)},
            !.me_pglast = Max({@} \cup Fetch(t, f, o))]

\* The oldest reader known is looked up again when a record is too recent for it.
LookAgain(t, f) ==
  IF /\ t.me_pghead = {}
     /\ t.me_pgoldest <= t.me_pglast + 1 \/ \E r \in DOMAIN f : t.me_pglast < r
  THEN MergeRecords(t, f, FindOldest(t)) ELSE t

FillHead(t, f) ==
  IF t.me_pghead # {} THEN t ELSE LookAgain(MergeRecords(t, f, t.me_pgoldest), f)

TakeLoose(x) == [x |-> [x EXCEPT !.t.loose = Tail(@)], n |-> Head(x.t.loose)]

TakeHead(x, t) ==
  [x |-> [x EXCEPT !.t = [t EXCEPT !.me_pghead = @ \ {Min(@)}, !.dirty = @ \cup {Min(t.me_pghead)}]],
   n |-> Min(t.me_pghead)]

TakeNew(x, t) ==
  IF t.mt_next_pgno + 1 >= me_maxpg THEN [x |-> [x EXCEPT !.t = [t EXCEPT !.error = TRUE]], n |-> 0]
  ELSE [x |-> [x EXCEPT !.t = [t EXCEPT !.mt_next_pgno = @ + 1, !.dirty = @ \cup {t.mt_next_pgno}]],
        n |-> t.mt_next_pgno]

AllocFrom(x, t) == IF t.me_pghead # {} THEN TakeHead(x, t) ELSE TakeNew(x, t)

\* mdb_page_alloc() of one page: a loose one, else the lowest of me_pghead, which
\* is filled from the records older than any reader, else a new one.
PageAlloc(x) ==
  IF x.t.loose # Empty THEN TakeLoose(x) ELSE AllocFrom(x, FillHead(x.t, Records(x)))

Filled(a, content) == [a EXCEPT !.x.m[a.n] = content]

\* mdb_page_new(): a page with that content.
PageNew(x, content) == Filled(PageAlloc(x), content)

Replaced(a, old, db) == [a.x EXCEPT !.t[db] = a.n, !.t.mt_free_pgs = @ \cup ({old} \ {0})]

\* mdb_page_touch() of the root of a database, "main" or "free"; put() makes one
\* when there is none.
Touch(x, db) ==
  IF x.t[db] \in x.t.dirty THEN x
  ELSE Replaced(PageNew(x, IF x.t[db] = 0 THEN <<db, Empty>> ELSE x.m[x.t[db]]), x.t[db], db)

\* A database without keys has no root (mdb_rebalance()).
Emptied(x, db) ==
  IF x.m[x.t[db]][2] # Empty THEN x
  ELSE [x EXCEPT !.t[db] = 0, !.t.mt_free_pgs = @ \cup {x.t[db]}]

Without(f, S) == [k \in DOMAIN f \ S |-> f[k]]
With(f, k, v) == [j \in DOMAIN f \cup {k} |-> IF j = k THEN v ELSE f[j]]

Nodes(x) == IF x.t.main = 0 THEN Empty ELSE x.m[x.t.main][2]
PageOf(x, k) == Nodes(x)[k]
Linked(a, k) == [a.x EXCEPT !.m[a.x.t.main][2] = With(@, k, a.n)]

OvpageFree(x, pgno) ==
  IF x.t.me_pglast # 0 /\ pgno \in x.t.dirty
  THEN [x EXCEPT !.t.me_pghead = @ \cup {pgno}, !.t.dirty = @ \ {pgno}]
  ELSE [x EXCEPT !.t.mt_free_pgs = @ \cup {pgno}]

PageLoose(x, pgno) == [x EXCEPT !.t.loose = <<pgno>> \o @]

\* The page of a key gives way to another one: mdb_ovpage_free(), or
\* mdb_page_touch() of the leaf.
Leave(x, k) ==
  CASE k \notin DOMAIN Nodes(x) -> x
    [] k \in Big -> OvpageFree(x, PageOf(x, k))
    [] OTHER -> [x EXCEPT !.t.mt_free_pgs = @ \cup {PageOf(x, k)}]

PutNode(x, k) ==
  IF x.t.error \/ (k \in DOMAIN Nodes(x) /\ PageOf(x, k) \in x.t.dirty) THEN x
  ELSE Linked(PageNew(Leave(x, k), <<"value", x.t.txnid>>), k)

\* mdb_cursor_put(): a page of this transaction is written in place, another one
\* is replaced by a new page.
Put(x, k) == PutNode(Touch(x, "main"), k)

TouchLeaf(x, k) ==
  IF PageOf(x, k) \in x.t.dirty THEN x
  ELSE Linked(PageNew(Leave(x, k), x.m[PageOf(x, k)]), k)

Unlink(x, k) == Emptied([x EXCEPT !.m[x.t.main][2] = Without(@, {k})], "main")

Loosen(x, k) == IF x.t.error THEN x ELSE Unlink(PageLoose(x, PageOf(x, k)), k)

DelNode(x, k) ==
  IF x.t.error THEN x
  ELSE IF k \in Big THEN Unlink(OvpageFree(x, PageOf(x, k)), k)
  ELSE Loosen(TouchLeaf(x, k), k)

\* mdb_cursor_del(): the overflow page is freed; the leaf is touched, emptied and
\* merged away.
Del(x, k) == DelNode(Touch(x, "main"), k)

\* mdb_drop(): all pages are freed, also those of this transaction.
Drop(x) ==
  [x EXCEPT !.t.main = 0,
            !.t.mt_free_pgs = @ \cup {x.t.main} \cup {PageOf(x, k) : k \in DOMAIN Nodes(x)}]

\* A change, <<"put", k>>, <<"del", k>> or <<"drop">>.  After a failure there are
\* no more, and nothing to delete is no change.
Change(x, c) ==
  CASE x.t.error -> x
    [] ~x.t.error /\ c[1] = "put" -> Put(x, c[2])
    [] ~x.t.error /\ c[1] = "del" -> IF c[2] \in DOMAIN Nodes(x) THEN Del(x, c[2]) ELSE x
    [] ~x.t.error /\ c[1] = "drop" -> IF Nodes(x) # Empty THEN Drop(x) ELSE x

-----------------------------------------------------------------------------
(* mdb_freelist_save().  Saving the lists changes them, as the freeDB needs *)
(* pages itself: one round of the loop is SaveStep, on y with the local     *)
(* variables.  (maxfree_1pg is not reached, so that one record takes all of *)
(* me_pghead.)                                                              *)

Recorded(x, key, ids) ==
  IF x.t.error THEN x ELSE [x EXCEPT !.m[x.t.free][2] = With(@, key, ids)]

Deleted(x, last) ==
  IF x.t.error THEN x ELSE Emptied([x EXCEPT !.m[x.t.free][2] = Without(@, 0..last)], "free")

\* Delete the records that me_pghead was filled from, and the one reserved for it.
DeleteUsed(y) ==
  [y EXCEPT !.x = Deleted(Touch(@, "free"), y.x.t.me_pglast),
            !.pglast = y.x.t.me_pglast, !.room = 0]

Freed(y, x) ==
  [y EXCEPT !.x = Recorded(x, x.t.txnid, x.t.mt_free_pgs), !.freecnt = Cardinality(x.t.mt_free_pgs)]

\* Save the pages freed by this transaction; touching the freeDB may add to them.
SaveFreed(y) == Freed(y, Touch(y.x, "free"))

LoosePages(x) == {x.t.loose[i] : i \in DOMAIN x.t.loose}
HeadLen(x) == Cardinality(x.t.me_pghead) + Len(x.t.loose)

\* Reserve room for me_pghead, under the key of the last record used.
Reserve(y) ==
  [y EXCEPT !.x = Recorded(Touch(@, "free"), y.pglast, {}), !.room = HeadLen(y.x),
            !.more = IF y.room > HeadLen(y.x) THEN @ - 1 ELSE @]

SaveStep(y) ==
  IF y.x.t.error THEN y
  ELSE IF y.pglast < y.x.t.me_pglast THEN DeleteUsed(y)
  ELSE IF y.freecnt < Cardinality(y.x.t.mt_free_pgs) THEN SaveFreed(y)
  ELSE IF y.room < HeadLen(y.x) \/ (y.room > HeadLen(y.x) /\ y.more > 0) THEN Reserve(y)
  ELSE y

\* The reserved record is filled.
FillReserved(y) ==
  IF HeadLen(y.x) = 0 THEN y.x
  ELSE Recorded(y.x, y.pglast, y.x.t.me_pghead \cup LoosePages(y.x))

\* No transaction of the instance needs more rounds.
Rounds == 8

SaveLoop(x) ==
  LET round[n \in 0..Rounds] ==
        IF n = 0 THEN [x |-> x, pglast |-> 0, freecnt |-> 0, room |-> 0, more |-> 1]
        ELSE SaveStep(round[n - 1])
  IN FillReserved(round[Rounds])

FreelistSave(x) ==
  IF x.t.me_pglast = 0
  THEN SaveLoop([x EXCEPT !.t.loose = Empty, !.t.mt_free_pgs = @ \cup LoosePages(x)])
  ELSE SaveLoop(IF x.t.free # 0 THEN Touch(x, "free") ELSE x)

-----------------------------------------------------------------------------
(* Read transactions.                                                       *)

\* mdb_txn_renew0(): claim a slot, once.
Claim(p) ==
  /\ At(p, "idle") /\ readers[p] = NoSlot
  /\ readers' = [readers EXCEPT ![p] = Parked]
  /\ UNCHANGED <<pages, metas, mti_txnid, wmutex, env, history>>

\* The loop around "r->mr_txnid = ti->mti_txnid": load,
LoadTxnid(p) ==
  /\ \/ At(p, "idle") /\ readers[p] # NoSlot
     \/ At(p, "retry")
  /\ Step(p, [env[p] EXCEPT !.pc = "store", !.txnid = mti_txnid])
  /\ UNCHANGED <<pages, metas, mti_txnid, readers, wmutex, history>>

\* store,
StoreTxnid(p) ==
  /\ At(p, "store")
  /\ readers' = [readers EXCEPT ![p] = env[p].txnid]
  /\ Go(p, "check")
  /\ UNCHANGED <<pages, metas, mti_txnid, wmutex, history>>

\* and compare.
CheckTxnid(p) ==
  /\ At(p, "check")
  /\ Go(p, IF readers[p] = mti_txnid THEN "copy" ELSE "retry")
  /\ UNCHANGED <<pages, metas, mti_txnid, readers, wmutex, history>>

\* The root of the main database is copied from the meta page.
CopyDbs(p) ==
  /\ At(p, "copy")
  /\ LET m == metas[env[p].txnid % 2]
     IN Step(p, [env[p] EXCEPT !.pc = "reading", !.root = m.main, !.of = m.of])
  /\ UNCHANGED <<pages, metas, mti_txnid, readers, wmutex, history>>

\* mdb_txn_reset()
Reset(p) ==
  /\ At(p, "reading")
  /\ readers' = [readers EXCEPT ![p] = Parked]
  /\ Step(p, Env("idle", env[p].me_pgoldest))
  /\ UNCHANGED <<pages, metas, mti_txnid, wmutex, history>>

-----------------------------------------------------------------------------
(* Write transactions.                                                      *)

\* mdb_reader_check0()
ReadersAlive == [p \in Procs |-> IF At(p, "dead") THEN NoSlot ELSE readers[p]]

\* mdb_txn_renew0() with the mutex: free, or that of a process which died, when
\* mdb_mutex_failed() takes the last transaction from the meta pages and frees
\* the slots of dead processes.
Begin(p) ==
  LET recovers == wmutex # NoProc
      last == IF recovers THEN PickMeta.mm_txnid ELSE mti_txnid
      m == metas[last % 2]
  IN /\ At(p, "idle") /\ last < MaxTxn
     /\ recovers => At(wmutex, "dead")
     /\ wmutex' = p /\ mti_txnid' = last
     /\ readers' = IF recovers THEN ReadersAlive ELSE readers
     /\ Step(p, [env[p] EXCEPT !.pc = "writing", !.txn =
          [txnid |-> last + 1, main |-> m.main, free |-> m.free,
           mt_next_pgno |-> m.mm_last_pg + 1, me_pghead |-> {}, me_pglast |-> 0,
           me_pgoldest |-> env[p].me_pgoldest, loose |-> Empty, mt_free_pgs |-> {},
           dirty |-> {}, error |-> FALSE]])
     /\ UNCHANGED <<pages, metas, history>>

Work(p) == [t |-> env[p].txn, m |-> pages]

Worked(p, x, pc) ==
  /\ pages' = [x.m EXCEPT ![0] = <<"unused", Empty>>]
  /\ Step(p, [env[p] EXCEPT !.pc = pc, !.txn = x.t])
  /\ UNCHANGED <<metas, mti_txnid, readers, wmutex, history>>

\* The changes of the transaction (mdb_put(), mdb_del() and mdb_drop()).  They
\* write to no page that others read, and read nothing of the others but the
\* reader table, so that one step takes all.
Write(p) ==
  /\ At(p, "writing")
  /\ \E s \in Changes : Worked(p, FoldLeft(Change, Work(p), s), "written")

\* mdb_txn_end() of a write transaction.
TxnEnd(p) == wmutex' = NoProc /\ Step(p, Env("idle", env[p].txn.me_pgoldest))

\* mdb_txn_abort(), or mdb_txn_commit() of a transaction that changed nothing or
\* has failed.
Abort(p) ==
  /\ env[p].pc \in {"writing", "written"}
  /\ TxnEnd(p)
  /\ UNCHANGED <<pages, metas, mti_txnid, readers, history>>

CommitWith(p, x) ==
  IF x.t.error
  THEN TxnEnd(p) /\ UNCHANGED <<pages, metas, mti_txnid, readers, history>>
  ELSE Worked(p, x, "write_dbs")

\* mdb_txn_commit() saves the free lists and flushes the pages,
Commit(p) ==
  /\ At(p, "written") /\ ~env[p].txn.error
  /\ env[p].txn.dirty # {} \/ env[p].txn.mt_free_pgs # {}
  /\ CommitWith(p, FreelistSave(Work(p)))

View(root) ==
  IF root = 0 THEN Empty
  ELSE [k \in DOMAIN pages[root][2] |-> pages[pages[root][2][k]]]

\* mdb_env_write_meta(): the roots and the last page go into the older meta page,
WriteDbs(p) ==
  LET t == env[p].txn
  IN /\ At(p, "write_dbs")
     /\ metas' = [metas EXCEPT ![t.txnid % 2] =
          [@ EXCEPT !.main = t.main, !.free = t.free, !.mm_last_pg = t.mt_next_pgno - 1,
                    !.of = t.txnid]]
     /\ history' = [history EXCEPT ![t.txnid] = View(t.main)]
     /\ Go(p, "write_txnid")
     /\ UNCHANGED <<pages, mti_txnid, readers, wmutex>>

\* then its number, which makes it the newer one,
WriteTxnid(p) ==
  /\ At(p, "write_txnid")
  /\ metas' = [metas EXCEPT ![env[p].txn.txnid % 2].mm_txnid = env[p].txn.txnid]
  /\ Go(p, "publish")
  /\ UNCHANGED <<pages, mti_txnid, readers, wmutex, history>>

\* and then the readers are told.
Publish(p) ==
  /\ At(p, "publish")
  /\ mti_txnid' = env[p].txn.txnid
  /\ TxnEnd(p)
  /\ UNCHANGED <<pages, metas, readers, history>>

-----------------------------------------------------------------------------
(* Processes.                                                               *)

\* mdb_env_open(): alone, the process initialises the lock file.
Open(p) ==
  LET alone == \A q \in Procs : ~Alive(q)
  IN /\ At(p, "closed")
     /\ Step(p, Env("idle", 0))
     /\ mti_txnid' = IF alone THEN PickMeta.mm_txnid ELSE mti_txnid
     /\ readers' = IF alone THEN [q \in Procs |-> NoSlot] ELSE readers
     /\ wmutex' = IF alone THEN NoProc ELSE wmutex
     /\ UNCHANGED <<pages, metas, history>>

\* mdb_env_close()
Close(p) ==
  /\ At(p, "idle")
  /\ Step(p, Env("closed", 0))
  /\ readers' = [readers EXCEPT ![p] = NoSlot]
  /\ UNCHANGED <<pages, metas, mti_txnid, wmutex, history>>

\* The process is killed.  A meta page of which only the roots were written, and
\* the readers that have copied them, belong to no transaction (of = 0).
Crash(p) ==
  LET t == env[p].txn.txnid
      lost == At(p, "write_txnid")
  IN /\ Alive(p) /\ Cardinality({q \in Procs : At(q, "dead")}) < MaxCrashes
     /\ env' = [q \in Procs |->
          IF q = p THEN Env("dead", 0)
          ELSE IF lost /\ env[q].of = t THEN [env[q] EXCEPT !.of = 0] ELSE env[q]]
     /\ metas' = IF lost THEN [metas EXCEPT ![t % 2].of = 0] ELSE metas
     /\ UNCHANGED <<pages, mti_txnid, readers, wmutex, history>>

Next ==
  \E p \in Procs :
    \/ Claim(p) \/ LoadTxnid(p) \/ StoreTxnid(p) \/ CheckTxnid(p) \/ CopyDbs(p) \/ Reset(p)
    \/ Begin(p) \/ Write(p) \/ Abort(p)
    \/ Commit(p) \/ WriteDbs(p) \/ WriteTxnid(p) \/ Publish(p)
    \/ Open(p) \/ Close(p) \/ Crash(p)

Spec == Init /\ [][Next]_vars

-----------------------------------------------------------------------------
(* Properties.                                                              *)

\* "Since the DB is multi-version, readers will get consistent data regardless of
\* how fresh or how stale their view of these values is" (mdb_env_write_meta()):
\* a reader sees exactly what one transaction committed, however many commit,
\* abort or are killed meanwhile.  (Not so if it copies the meta page between the
\* writes of a transaction that is killed before it writes its number.)
SnapshotsIntact ==
  \A p \in Procs : At(p, "reading") /\ env[p].of # 0 => View(env[p].root) = history[env[p].of]

MainPages(m) ==
  IF m.main = 0 THEN {} ELSE {m.main} \cup {pages[m.main][2][k] : k \in DOMAIN pages[m.main][2]}

FreePages(m) ==
  IF m.free = 0 THEN {} ELSE UNION {pages[m.free][2][r] : r \in DOMAIN pages[m.free][2]}

\* Whenever a process may be killed, the newer meta page describes a whole
\* database: what its transaction committed, and every page of the file is in
\* just one of the main database, the freeDB and one of its records; none is
\* lost and none will be given out twice.
FileSound ==
  LET m == PickMeta
      f == IF m.free = 0 THEN Empty ELSE pages[m.free][2]
  IN /\ View(m.main) = history[m.mm_txnid]
     /\ 2..m.mm_last_pg = MainPages(m) \cup FreePages(m) \cup ({m.free} \ {0})
     /\ m.mm_last_pg - 1 = Cardinality(MainPages(m)) + Cardinality({m.free} \ {0})
                           + MapThenSumSet(LAMBDA r : Cardinality(f[r]), DOMAIN f)
=============================================================================
