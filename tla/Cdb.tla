-------------------------------- MODULE Cdb ---------------------------------
(***************************************************************************)
(* The cache database of several processes: lib/cache/cdb_lmdb.c, with the *)
(* version check and the clearing of lib/cache/api.c that drive it.        *)
(*                                                                         *)
(* Files are inodes.  The names data.mdb and lock.mdb may change inodes    *)
(* while processes keep the old ones open.  A process is the record env[p] *)
(* of what struct lmdb_env holds and of where it is in a call that other   *)
(* processes can observe half done; calls that touch only its own state    *)
(* and one LMDB transaction are one step.                                  *)
(*                                                                         *)
(* LMDB is external: a write transaction is exclusive among the processes  *)
(* with the same lock.mdb, and any call of it that writes may run out of   *)
(* space.  Opening an environment takes lock.mdb before data.mdb, creates  *)
(* what is missing, and does not fail here.                                *)
(***************************************************************************)
EXTENDS Integers, FiniteSets

CONSTANTS
  Procs,
  MaxInode,         \* bound on the files ever created
  MaxStarts         \* bound on the starts of processes

\* Inodes 1 and 2 are there at the beginning.
ASSUME InodeAssumption == MaxInode \in Nat /\ MaxInode >= 2

VARIABLES
  env,
  data_mdb,         \* the inode with this name, 0 for none
  lock_mdb,
  cachelock,        \* does .cachelock exist?
  content,          \* content[i]: the database in inode i
  inodes,           \* inodes created so far
  starts,
  disturbed         \* some process was starting while another cleared

vars == <<env, data_mdb, lock_mdb, cachelock, content, inodes, starts, disturbed>>
names == <<data_mdb, lock_mdb, cachelock>>

Inode == 0..MaxInode
Starting == {"open_lock", "open_data"}
Clearing == {"stat", "unlink_data", "unlink_lock", "reopen_lock", "reopen_data", "unlock"}
Off == [pc |-> "off", next |-> "run", data |-> 0, lock |-> 0, ro |-> 0, ro_active |-> FALSE,
        rw |-> 0, fills |-> FALSE, ro_curs |-> 0, ro_curs_active |-> FALSE,
        unchecked |-> FALSE, aborted |-> FALSE]

At(p, pc) == env[p].pc = pc
Go(e, pc) == [e EXCEPT !.pc = pc]

-----------------------------------------------------------------------------
(* Cached transactions.  A handle is the inode of the data it was opened    *)
(* for, or 0 for NULL.                                                      *)

Asserting(e, p) == [e EXCEPT !.aborted = @ \/ ~p]

ResetRo(e) ==
  IF e.ro # 0 /\ e.ro_active
  THEN [e EXCEPT !.ro_active = FALSE, !.ro_curs_active = FALSE] ELSE e

\* txn_get_noresize()'s assertion
NoTxnActive(e) == Asserting(e, e.rw = 0 /\ (e.ro = 0 \/ ~e.ro_active))

TxnGetRw(e) ==
  IF e.rw # 0 THEN e ELSE [NoTxnActive(ResetRo(e)) EXCEPT !.rw = e.data]

TxnGetRo(e) ==
  IF e.rw # 0 \/ (e.ro # 0 /\ e.ro_active) THEN e
  ELSE [NoTxnActive(e) EXCEPT !.ro = IF e.ro = 0 THEN e.data ELSE @, !.ro_active = TRUE]

\* cdb_sync(): the environment after it; what it commits is in Commit.
Sync(e) == IF e.rw # 0 THEN [e EXCEPT !.rw = 0, !.fills = FALSE] ELSE ResetRo(e)

\* The databases after it; a commit that fails keeps nothing of the transaction.
Commit(e, ok) == IF ok /\ e.fills THEN [content EXCEPT ![e.rw] = "unversioned"] ELSE content

\* May the commit fail with consequences?
Outcomes(e) == IF e.fills THEN BOOLEAN ELSE {TRUE}

TxnCursGet(e) ==
  LET e1 == TxnGetRo(IF e.rw # 0 THEN Sync(e) ELSE e)
      e2 == IF e.ro_curs_active THEN e
            ELSE [e1 EXCEPT !.ro_curs = IF @ = 0 THEN e.data ELSE @, !.ro_curs_active = TRUE]
  IN Asserting(e2, e2.ro_curs_active /\ e2.ro_curs # 0 /\ e2.ro # 0 /\ e2.ro_active /\ e2.rw = 0)

FreeTxnRo(e) == [e EXCEPT !.ro = 0, !.ro_curs = 0]

CloseEnvKeeps(e, pc) == [Off EXCEPT !.pc = pc, !.next = e.next, !.unchecked = e.unchecked,
                                    !.aborted = e.aborted, !.ro_curs = e.ro_curs]

\* cdb_close_env() ends with a memset(); position and history are not in there.
CloseEnv(e, pc) == [Off EXCEPT !.pc = pc, !.next = e.next, !.unchecked = e.unchecked,
                               !.aborted = e.aborted]

-----------------------------------------------------------------------------
Init ==
  /\ env = [p \in Procs |-> Off]
  /\ data_mdb = 1 /\ lock_mdb = 2 /\ cachelock \in BOOLEAN
  /\ \E c \in {"right", "wrong"} : content = [i \in Inode |-> IF i = 1 THEN c ELSE "empty"]
  /\ inodes = 2 /\ starts = 0 /\ disturbed = FALSE

Step(p, e) == env' = [env EXCEPT ![p] = e]

\* May p begin a write transaction now, or has it one?
Writer(p) == env[p].rw # 0 \/ \A q \in Procs \ {p} : env[q].rw = 0 \/ env[q].lock # env[p].lock

\* cdb_readv(), cdb_count() and cdb_match()
Read(p) ==
  /\ At(p, "run")
  /\ Step(p, TxnGetRo(env[p]))
  /\ UNCHANGED <<names, content, inodes, starts>>

\* cdb_read_leq(); an open write transaction is committed first.
ReadLeq(p) ==
  /\ At(p, "run")
  /\ \E ok \in BOOLEAN :
       /\ env[p].rw = 0 => ok
       /\ content' = Commit(env[p], ok)
       /\ Step(p, IF ok THEN TxnCursGet(env[p]) ELSE Sync(env[p]))
  /\ UNCHANGED <<names, inodes, starts>>

CdbSync(p) ==
  /\ At(p, "run")
  /\ \E ok \in Outcomes(env[p]) : content' = Commit(env[p], ok)
  /\ Step(p, Sync(env[p]))
  /\ UNCHANGED <<names, inodes, starts>>

\* cdb_remove() of entries the model does not tell apart.
Remove(p) ==
  /\ At(p, "run") /\ Writer(p)
  /\ Step(p, TxnGetRw(env[p]))
  /\ UNCHANGED <<names, content, inodes, starts>>

\* kr_cache_clear() goes on with cdb_clear() and assert_right_version().
KrCacheClear(e) == [e EXCEPT !.pc = "drop", !.next = "version"]

\* cache_write_or_clear().  When the transaction is full, cdb_write() commits it
\* and tests the result the wrong way round: nothing is put after a success, nor
\* after a failure with a new transaction.
Write(p) ==
  LET e == TxnGetRw(env[p])
  IN /\ At(p, "run") /\ Writer(p)
     /\ \/ Step(p, [e EXCEPT !.fills = content[e.data] = "empty"]) /\ content' = content
        \/ \E ok \in BOOLEAN : /\ env[p].rw # 0 /\ content' = Commit(e, ok)
                               /\ Step(p, IF ok THEN Sync(e) ELSE TxnGetRw(Sync(e)))
        \/ Step(p, KrCacheClear(e)) /\ content' = content
     /\ UNCHANGED <<names, inodes, starts>>

\* cache.clear() of the configuration.
ClearEverything(p) ==
  /\ At(p, "run")
  /\ Step(p, KrCacheClear(env[p]))
  /\ UNCHANGED <<names, content, inodes, starts>>

-----------------------------------------------------------------------------
(* cdb_clear()                                                              *)

Cleared(e) == Go(e, e.next)
ClearFailed(e) == Go([e EXCEPT !.unchecked = @ \/ e.next = "stamp"], "run")

\* mdb_drop() and the commit, or the end of all transactions.
Drop(p) ==
  LET e == TxnGetRw(env[p])
  IN /\ At(p, "drop") /\ Writer(p)
     /\ \/ /\ Step(p, Cleared([Sync(e) EXCEPT !.unchecked = FALSE]))
           /\ content' = [content EXCEPT ![e.data] = "empty"]
        \/ Step(p, Go(FreeTxnRo(Sync(e)), "lock")) /\ content' = content
     /\ UNCHANGED <<names, inodes, starts>>

Lock(p) ==
  /\ At(p, "lock")
  /\ Step(p, IF cachelock THEN ClearFailed(env[p]) ELSE Go(env[p], "stat"))
  /\ cachelock' = TRUE
  /\ UNCHANGED <<data_mdb, lock_mdb, content, inodes, starts>>

StatAny(p) ==
  /\ At(p, "stat")
  /\ Step(p, IF data_mdb = 0 THEN ClearFailed(env[p]) ELSE Go(env[p], "unlink_data"))
  /\ cachelock' = (cachelock /\ data_mdb # 0)
  /\ UNCHANGED <<data_mdb, lock_mdb, content, inodes, starts>>

StatUnlinksLock(p) ==
  /\ At(p, "stat")
  /\ Step(p, IF data_mdb = 0 THEN ClearFailed(env[p])
             ELSE Go(env[p], IF data_mdb = env[p].data THEN "unlink_data" ELSE "unlink_lock"))
  /\ cachelock' = (cachelock /\ data_mdb # 0)
  /\ UNCHANGED <<data_mdb, lock_mdb, content, inodes, starts>>

\* stat() fails when another process has just removed the file.
Stat(p) ==
  /\ At(p, "stat")
  /\ Step(p, IF data_mdb = 0 THEN ClearFailed(env[p])
             ELSE Go(env[p], IF data_mdb = env[p].data THEN "unlink_data" ELSE "reopen_lock"))
  /\ cachelock' = (cachelock /\ data_mdb # 0)
  /\ UNCHANGED <<data_mdb, lock_mdb, content, inodes, starts>>

UnlinkData(p) ==
  /\ At(p, "unlink_data")
  /\ data_mdb' = 0
  /\ Step(p, Go(env[p], "unlink_lock"))
  /\ UNCHANGED <<lock_mdb, cachelock, content, inodes, starts>>

UnlinkLock(p) ==
  /\ At(p, "unlink_lock")
  /\ lock_mdb' = 0
  /\ Step(p, Go(env[p], "reopen_lock"))
  /\ UNCHANGED <<data_mdb, cachelock, content, inodes, starts>>

\* mdb_env_open(): the environment is closed before in a clear.
OpenLock(p) ==
  /\ env[p].pc \in {"open_lock", "reopen_lock"}
  /\ IF lock_mdb # 0 THEN UNCHANGED <<lock_mdb, inodes>>
     ELSE inodes < MaxInode /\ inodes' = inodes + 1 /\ lock_mdb' = inodes + 1
  /\ Step(p, [CloseEnv(env[p], IF At(p, "open_lock") THEN "open_data" ELSE "reopen_data")
               EXCEPT !.lock = lock_mdb'])
  /\ UNCHANGED <<data_mdb, cachelock, content, starts>>

OpenData(p) ==
  /\ env[p].pc \in {"open_data", "reopen_data"}
  /\ IF data_mdb # 0 THEN UNCHANGED <<data_mdb, inodes>>
     ELSE inodes < MaxInode /\ inodes' = inodes + 1 /\ data_mdb' = inodes + 1
  /\ Step(p, [Go(env[p], IF At(p, "open_data") THEN "version" ELSE "unlock")
               EXCEPT !.data = data_mdb'])
  /\ UNCHANGED <<lock_mdb, cachelock, content, starts>>

Unlock(p) ==
  /\ At(p, "unlock")
  /\ cachelock' = FALSE
  /\ Step(p, Cleared(env[p]))
  /\ UNCHANGED <<data_mdb, lock_mdb, content, inodes, starts>>

-----------------------------------------------------------------------------
(* assert_right_version()                                                   *)

VersionUnpurged(p) ==
  LET e == TxnGetRo(env[p])
  IN /\ At(p, "version")
     /\ Step(p, IF content[e.data] = "right" THEN Go(Sync(e), "run") ELSE Go(e, "stamp"))
     /\ UNCHANGED <<names, content, inodes, starts>>

Version(p) ==
  LET e == TxnGetRo(env[p])
      c == content[e.data]
  IN /\ At(p, "version")
     /\ Step(p, CASE c = "right" -> Go(Sync(e), "run")
                  [] c = "empty" -> Go(e, "stamp")
                  [] OTHER -> [e EXCEPT !.pc = "drop", !.next = "stamp"])
     /\ UNCHANGED <<names, content, inodes, starts>>

\* The version is written and committed, or there is no space for it.
Stamp(p) ==
  LET e == TxnGetRw(env[p])
  IN /\ At(p, "stamp") /\ Writer(p)
     /\ content' \in {content, [content EXCEPT ![e.data] = "right"]}
     /\ Step(p, Go(Sync(e), "run"))
     /\ UNCHANGED <<names, inodes, starts>>

\* kr_cache_open() up to the environment: cdb_init() takes any .cachelock away.
Start(p) ==
  /\ At(p, "off") /\ starts < MaxStarts
  /\ starts' = starts + 1
  /\ cachelock' = FALSE
  /\ Step(p, Go(Off, "open_lock"))
  /\ UNCHANGED <<data_mdb, lock_mdb, content, inodes>>

\* kr_cache_close()
Stop(p) ==
  /\ At(p, "run")
  /\ \E ok \in Outcomes(env[p]) : content' = Commit(env[p], ok)
  /\ Step(p, CloseEnv(env[p], "off"))
  /\ UNCHANGED <<names, inodes, starts>>

\* A process is killed, or has a SIGBUS and removes data.mdb, whichever it is.
Crash(p) ==
  /\ ~At(p, "off")
  /\ data_mdb' = data_mdb \/ (At(p, "run") /\ data_mdb' = 0)
  /\ Step(p, Off)
  /\ UNCHANGED <<lock_mdb, cachelock, content, inodes, starts>>

Overlap(e) == \E p, q \in Procs : e[p].pc \in Clearing /\ e[q].pc \in Starting

Next ==
  /\ \E p \in Procs :
       \/ Read(p) \/ ReadLeq(p) \/ CdbSync(p) \/ Remove(p) \/ Write(p) \/ ClearEverything(p)
       \/ Drop(p) \/ Lock(p) \/ Stat(p) \/ UnlinkData(p) \/ UnlinkLock(p)
       \/ OpenLock(p) \/ OpenData(p) \/ Unlock(p) \/ Version(p) \/ Stamp(p)
       \/ Start(p) \/ Stop(p) \/ Crash(p)
  /\ disturbed' = (disturbed \/ Overlap(env'))

Spec == Init /\ [][Next]_vars

-----------------------------------------------------------------------------
(* "Only one of (ro,rw) may be active at once": whatever reads, range reads,  *)
(* writes, syncs and clears follow each other, the assertions of              *)
(* txn_get_noresize() and txn_curs_get() hold, and a cached transaction or    *)
(* cursor is one of the environment that is open now: none survives the       *)
(* change to another data file in cdb_clear().                                *)
HandlesCurrent ==
  \A p \in Procs :
    /\ ~env[p].aborted
    /\ \A f \in {"ro", "rw", "ro_curs"} : env[p][f] \in {0, env[p].data}

(* "Remove underlying files only if current open environment points to file   *)
(* on the disk": unless a process starts meanwhile, the file that cdb_clear() *)
(* unlinks is still the one it compared with its own.                         *)
RemovesOwn ==
  disturbed \/ \A p \in Procs : At(p, "unlink_data") => data_mdb \in {0, env[p].data}

(* Two processes never write to one data file at once: those that have the    *)
(* same data.mdb open have the same lock.mdb open, through any number of      *)
(* fallback clears, unless a process starts while another clears.             *)
SoleWriter ==
  disturbed \/ \A p, q \in Procs : p # q /\ env[p].rw # 0 => env[p].rw # env[q].rw

(* No process serves entries of an incompatible version (kr_cache_open()      *)
(* purges them) unless the purge itself failed, which kr_cache_open() ignores. *)
VersionChecked ==
  \A p \in Procs : At(p, "run") /\ content[env[p].data] = "wrong" => env[p].unchecked
=============================================================================
