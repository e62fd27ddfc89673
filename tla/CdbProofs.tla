----------------------------- MODULE CdbProofs ------------------------------
(***************************************************************************)
(* Proofs about Cdb for any number of processes, files and starts: the     *)
(* cached handles belong to the open file, a clear unlinks its own file, a *)
(* data file has one writer, and old versions are not served.              *)
(***************************************************************************)
EXTENDS Cdb, TLAPS

PCs == {"off", "run", "drop", "lock", "version", "stamp"} \cup Starting \cup Clearing

EnvType ==
  [pc : PCs, next : {"run", "version", "stamp"}, data : Inode, lock : Inode,
   ro : Inode, ro_active : BOOLEAN, rw : Inode, fills : BOOLEAN,
   ro_curs : Inode, ro_curs_active : BOOLEAN, unchecked : BOOLEAN, aborted : BOOLEAN]

\* Positions without an open data file.
Closed == {"off", "open_lock", "open_data", "reopen_data"}

\* The cached transactions and cursor of one process.
Handles(e) ==
  /\ e.aborted = FALSE
  /\ e.ro \in {0, e.data} /\ e.rw \in {0, e.data} /\ e.ro_curs \in {0, e.data}
  /\ e.ro_active = TRUE => e.ro # 0 /\ e.rw = 0
  /\ e.ro_curs_active = TRUE => e.ro_active = TRUE /\ e.ro_curs # 0

EnvInv(e) == e \in EnvType /\ Handles(e) /\ (e.pc \in Closed <=> e.data = 0)

Contents == {"right", "wrong", "empty", "unversioned"}

\* Inodes in use have been created, so that a new one is nobody's.
Files ==
  /\ inodes \in Inode /\ inodes >= 1
  /\ data_mdb \in 0..inodes /\ lock_mdb \in 0..inodes
  /\ cachelock \in BOOLEAN /\ disturbed \in BOOLEAN
  /\ content \in [Inode -> Contents]
  /\ \A p \in Procs : env[p].data <= inodes

\* The lock of LMDB.
Writers == \A p, q \in Procs : p # q /\ env[p].rw # 0 /\ env[q].rw # 0 => env[p].lock # env[q].lock

\* What a process with environment e knows of the version of its file, at each
\* position, when c are the contents and d is data.mdb.  Only the first file may be
\* of a wrong version, and once replaced it does not come back.
VersionAt(e, c, d) ==
  /\ e.pc = "run" /\ c[e.data] = "wrong" => e.unchecked = TRUE
  /\ e.pc \in {"drop", "lock", "stat"} /\ c[e.data] = "wrong" =>
       e.next = "stamp" \/ e.unchecked = TRUE
  /\ e.pc \in {"stamp", "unlock"} => c[e.data] # "wrong"
  /\ e.pc \in {"unlink_lock", "reopen_lock", "reopen_data"} => d # 1
  /\ d = 1 => e.data \in {0, 1}

Versions ==
  /\ \A i \in Inode : content[i] = "wrong" => i = 1
  /\ \A p \in Procs : VersionAt(env[p], content, data_mdb)

\* While no process starts during a clear: one process clears at a time, it holds
\* .cachelock, and nobody else gives names to files.
ClearsAlone(p) ==
  /\ env[p].pc \in Clearing => cachelock = TRUE
  /\ \A q \in Procs : env[p].pc \in Clearing /\ env[q].pc \in Clearing => p = q
  /\ \A q \in Procs : env[p].pc \in Clearing => env[q].pc \notin Starting

\* Then the names change together: a data file is opened with one lock file.
NamesAt(p) ==
  /\ env[p].pc = "unlink_data" => data_mdb \in {0, env[p].data}
  /\ env[p].pc = "unlink_lock" => data_mdb = 0
  /\ env[p].pc \in {"open_data", "reopen_data"} => env[p].lock = lock_mdb /\ lock_mdb # 0
  /\ env[p].data # 0 /\ env[p].data = data_mdb => env[p].lock = lock_mdb
  /\ \A q \in Procs : env[p].data # 0 /\ env[p].data = env[q].data => env[p].lock = env[q].lock

Alone ==
  /\ data_mdb # 0 => lock_mdb # 0
  /\ \A p \in Procs : ClearsAlone(p) /\ NamesAt(p)

IInv ==
  /\ DOMAIN env = Procs /\ \A p \in Procs : EnvInv(env[p])
  /\ Files /\ Writers /\ Versions
  /\ disturbed = TRUE \/ Alone

-----------------------------------------------------------------------------
(* The operators on the cached transactions.                                *)

\* f differs from e in the cached transactions only.
Same(f, e) ==
  /\ f.pc = e.pc /\ f.next = e.next /\ f.data = e.data /\ f.lock = e.lock
  /\ f.unchecked = e.unchecked

\* mdb_txn_reset() of the read transaction, and with it of the cursor.
LEMMA ResetRoKeeps ==
  ASSUME NEW e, EnvInv(e)
  PROVE  /\ EnvInv(ResetRo(e)) /\ Same(ResetRo(e), e)
         /\ ResetRo(e).rw = e.rw /\ ResetRo(e).ro_active = FALSE
BY ZenonT(30) DEF EnvInv, EnvType, Handles, Same, ResetRo

\* A write transaction finds no active one, as txn_get_noresize() asserts.
LEMMA TxnGetRwKeeps ==
  ASSUME NEW e, EnvInv(e), e.data # 0
  PROVE  EnvInv(TxnGetRw(e)) /\ Same(TxnGetRw(e), e) /\ TxnGetRw(e).rw = e.data
<1>1. CASE e.rw # 0
  BY <1>1 DEF TxnGetRw, EnvInv, Handles, Same
<1>2. CASE e.rw = 0
  <2> DEFINE r == ResetRo(e)
  <2>1. EnvInv(r) /\ Same(r, e) /\ r.rw = 0 /\ r.ro_active = FALSE
    BY <1>2, ResetRoKeeps
  <2>2. NoTxnActive(r) = r
    BY <2>1 DEF NoTxnActive, Asserting, EnvInv, EnvType, Handles
  <2>3. TxnGetRw(e) = [r EXCEPT !.rw = e.data]
    BY <1>2, <2>2 DEF TxnGetRw
  <2>4. QED
    BY <2>1, <2>3 DEF EnvInv, EnvType, Handles, Same
<1>3. QED
  BY <1>1, <1>2

\* Nor does a read transaction.
LEMMA TxnGetRoKeeps ==
  ASSUME NEW e, EnvInv(e), e.data # 0
  PROVE  /\ EnvInv(TxnGetRo(e)) /\ Same(TxnGetRo(e), e) /\ TxnGetRo(e).rw = e.rw
         /\ e.rw = 0 => TxnGetRo(e).ro_active = TRUE
<1>1. CASE e.rw # 0 \/ (e.ro # 0 /\ e.ro_active)
  BY <1>1 DEF TxnGetRo, EnvInv, EnvType, Handles, Same
<1>2. CASE ~(e.rw # 0 \/ (e.ro # 0 /\ e.ro_active))
  <2>1. NoTxnActive(e) = e
    BY <1>2 DEF NoTxnActive, Asserting, EnvInv, EnvType, Handles
  <2>2. TxnGetRo(e) = [e EXCEPT !.ro = IF e.ro = 0 THEN e.data ELSE @, !.ro_active = TRUE]
    BY <1>2, <2>1 DEF TxnGetRo
  <2>3. TxnGetRo(e) \in EnvType
    <3>1. e \in EnvType /\ (IF e.ro = 0 THEN e.data ELSE e.ro) \in Inode
      BY DEF EnvInv, EnvType
    <3>2. QED
      BY <2>2, <3>1 DEF EnvType
  <2>4. /\ Same(TxnGetRo(e), e) /\ TxnGetRo(e).rw = e.rw /\ TxnGetRo(e).ro_active = TRUE
        /\ TxnGetRo(e).ro = IF e.ro = 0 THEN e.data ELSE e.ro
        /\ TxnGetRo(e).ro_curs = e.ro_curs /\ TxnGetRo(e).aborted = e.aborted
        /\ TxnGetRo(e).ro_curs_active = e.ro_curs_active
    BY <2>2 DEF EnvInv, EnvType, Same
  <2>5. /\ e.rw = 0 /\ (e.ro_curs_active = TRUE => e.ro_curs # 0)
        /\ e.ro \in {0, e.data} /\ e.ro_curs \in {0, e.data} /\ e.aborted = FALSE
        /\ e.pc \in Closed <=> e.data = 0
    BY Zenon, <1>2 DEF EnvInv, Handles
  <2>6. Handles(TxnGetRo(e))
    BY <2>4, <2>5 DEF Handles, Same
  <2>7. QED
    BY Zenon, <2>3, <2>4, <2>5, <2>6 DEF EnvInv, Same
<1>3. QED
  BY <1>1, <1>2

\* After cdb_sync() no transaction is active.
LEMMA SyncKeeps ==
  ASSUME NEW e, EnvInv(e)
  PROVE  /\ EnvInv(Sync(e)) /\ Same(Sync(e), e)
         /\ Sync(e).rw = 0 /\ Sync(e).ro_active = FALSE
<1>1. CASE e.rw # 0
  <2>1. e.ro_active = FALSE
    BY <1>1 DEF EnvInv, EnvType, Handles
  <2>2. Sync(e) = [e EXCEPT !.rw = 0, !.fills = FALSE]
    BY <1>1 DEF Sync
  <2>3. 0 \in Inode
    BY InodeAssumption DEF Inode
  <2>4. Sync(e) \in EnvType
    BY <2>2, <2>3 DEF EnvInv, EnvType
  <2>5. /\ Same(Sync(e), e) /\ Sync(e).rw = 0 /\ Sync(e).ro_active = FALSE
        /\ Sync(e).ro = e.ro /\ Sync(e).ro_curs = e.ro_curs /\ Sync(e).aborted = e.aborted
        /\ Sync(e).ro_curs_active = e.ro_curs_active
    BY <2>1, <2>2 DEF EnvInv, EnvType, Same
  <2>6. QED
    BY <2>1, <2>4, <2>5 DEF EnvInv, Handles, Same
<1>2. CASE e.rw = 0
  BY <1>2, ResetRoKeeps DEF Sync
<1>3. QED
  BY <1>1, <1>2

\* The assertions at the end of txn_curs_get() hold.
LEMMA TxnCursGetKeeps ==
  ASSUME NEW e, EnvInv(e), e.data # 0
  PROVE  EnvInv(TxnCursGet(e)) /\ Same(TxnCursGet(e), e) /\ TxnCursGet(e).rw = 0
<1> DEFINE s == IF e.rw # 0 THEN Sync(e) ELSE e
           e1 == TxnGetRo(s)
           e2 == IF e.ro_curs_active THEN e
                 ELSE [e1 EXCEPT !.ro_curs = IF @ = 0 THEN e.data ELSE @, !.ro_curs_active = TRUE]
<1>1. EnvInv(s) /\ Same(s, e) /\ s.rw = 0
  BY SyncKeeps DEF Same
<1>2. EnvInv(e1) /\ Same(e1, e) /\ e1.rw = 0 /\ e1.ro_active = TRUE
  <2> HIDE DEF s
  <2>1. s.data # 0
    BY <1>1 DEF Same
  <2>2. QED
    BY <1>1, <2>1, TxnGetRoKeeps DEF Same
<1>3. EnvInv(e2) /\ Same(e2, e) /\ e2.rw = 0 /\ e2.ro_curs_active = TRUE
  <2> HIDE DEF e1
  <2>1. CASE e.ro_curs_active
    BY <2>1 DEF EnvInv, EnvType, Handles, Same
  <2>2. CASE ~e.ro_curs_active
    BY <1>2, <2>2 DEF EnvInv, EnvType, Handles, Same
  <2>3. QED
    BY <2>1, <2>2
<1>4. TxnCursGet(e) = Asserting(e2, e2.ro_curs_active /\ e2.ro_curs # 0 /\ e2.ro # 0
                                    /\ e2.ro_active /\ e2.rw = 0)
  BY DEF TxnCursGet
<1>5. Asserting(e2, e2.ro_curs_active /\ e2.ro_curs # 0 /\ e2.ro # 0
                    /\ e2.ro_active /\ e2.rw = 0) = e2
  <2> HIDE DEF e2
  <2> QED BY <1>3 DEF Asserting, EnvInv, EnvType, Handles
<1>6. QED
  BY <1>3, <1>4, <1>5

-----------------------------------------------------------------------------
(* A step of one process.                                                   *)

\* Only the environment of the process that steps changes.
LEMMA Frame ==
  ASSUME IInv, NEW p \in Procs, NEW f, Step(p, f)
  PROVE  /\ DOMAIN env' = Procs /\ env'[p] = f
         /\ \A q \in Procs : q # p => env'[q] = env[q]
BY DEF IInv, Step

\* The lock of LMDB is taken only when it is free, and changed only when not held.
LEMMA WritersKept ==
  ASSUME IInv, NEW p \in Procs, NEW f, Step(p, f),
         f.rw = 0 \/ (f.lock = env[p].lock /\ Writer(p))
  PROVE  Writers'
<1>1. env'[p] = f /\ \A q \in Procs : q # p => env'[q] = env[q]
  BY Frame
<1>2. \A q \in Procs \ {p} : f.rw # 0 /\ env[q].rw # 0 => f.lock # env[q].lock
  BY DEF Writer, IInv, Writers
<1>3. \A q, r \in Procs : q # r /\ q # p /\ r # p /\ env[q].rw # 0 /\ env[r].rw # 0
        => env[q].lock # env[r].lock
  BY DEF IInv, Writers
<1>4. QED
  BY <1>1, <1>2, <1>3 DEF Writers

\* No step makes a wrong version, or brings the first file back.
LEMMA VersionsKept ==
  ASSUME IInv, NEW p \in Procs, NEW f, Step(p, f),
         \A i \in Inode : content'[i] = "wrong" => content[i] = "wrong",
         data_mdb' = 1 => data_mdb = 1,
         VersionAt(f, content', data_mdb')
  PROVE  Versions'
<1>1. env'[p] = f /\ \A q \in Procs : q # p => env'[q] = env[q]
  BY Frame
<1>2. \A i \in Inode : content'[i] = "wrong" => i = 1
  BY DEF IInv, Versions
<1>3. ASSUME NEW q \in Procs, q # p
      PROVE  VersionAt(env[q], content', data_mdb')
  <2>1. env[q].data \in Inode
    BY DEF IInv, EnvInv, EnvType
  <2>2. VersionAt(env[q], content, data_mdb)
    BY DEF IInv, Versions
  <2>3. QED
    BY <2>1, <2>2 DEF VersionAt
<1>4. QED
  BY <1>1, <1>2, <1>3 DEF Versions

\* The parts of the invariant put together.
LEMMA StepKeeps ==
  ASSUME IInv, NEW p \in Procs, NEW f, Step(p, f),
         disturbed' = (disturbed \/ Overlap(env')),
         EnvInv(f), Files',
         f.rw = 0 \/ (f.lock = env[p].lock /\ Writer(p)),
         \A i \in Inode : content'[i] = "wrong" => content[i] = "wrong",
         data_mdb' = 1 => data_mdb = 1,
         VersionAt(f, content', data_mdb'),
         Alone /\ ~Overlap(env') => Alone'
  PROVE  IInv'
<1>1. /\ DOMAIN env' = Procs /\ env'[p] = f
      /\ \A q \in Procs : q # p => env'[q] = env[q]
  BY Frame
<1>2. \A q \in Procs : EnvInv(env'[q])
  BY <1>1 DEF IInv
<1>3. Writers' /\ Versions'
  BY WritersKept, VersionsKept
<1>4. disturbed' = TRUE \/ Alone'
  <2>1. CASE disturbed = TRUE
    BY <2>1
  <2>2. CASE disturbed # TRUE /\ Overlap(env')
    BY <2>2
  <2>3. CASE disturbed # TRUE /\ ~Overlap(env')
    BY <2>3 DEF IInv
  <2>4. QED
    BY <2>1, <2>2, <2>3
<1>5. QED
  BY <1>1, <1>2, <1>3, <1>4 DEF IInv

\* The positions of a process that serves, or is in a clear before .cachelock.
Inner == {"run", "drop", "lock", "version", "stamp"}

\* A step that leaves the names of files alone.
LEMMA InnerStep ==
  ASSUME IInv, NEW p \in Procs, NEW f, Step(p, f),
         disturbed' = (disturbed \/ Overlap(env')),
         EnvInv(f), f.data = env[p].data, f.lock = env[p].lock,
         env[p].pc \in Inner, f.pc \in Inner,
         f.rw = 0 \/ Writer(p),
         UNCHANGED <<names, inodes>>,
         content' \in [Inode -> Contents],
         \A i \in Inode : content'[i] = "wrong" => content[i] = "wrong",
         VersionAt(f, content', data_mdb)
  PROVE  IInv'
<1>1. env'[p] = f /\ \A q \in Procs : q # p => env'[q] = env[q]
  BY Frame
<1>2. data_mdb' = data_mdb /\ lock_mdb' = lock_mdb /\ cachelock' = cachelock /\ inodes' = inodes
  BY DEF names
<1>3. \A q \in Procs : env'[q].data = env[q].data /\ env'[q].lock = env[q].lock
  BY <1>1
<1>4. Files'
  <2>1. disturbed' \in BOOLEAN
    BY DEF IInv, Files, Overlap
  <2>2. QED
    BY <1>2, <1>3, <2>1 DEF IInv, Files
<1>5. ASSUME Alone
      PROVE  Alone'
  <2>1. \A q \in Procs : /\ env'[q].pc \in Clearing <=> env[q].pc \in Clearing
                         /\ env'[q].pc \in Starting <=> env[q].pc \in Starting
                         /\ \A c \in Clearing \cup Starting : env'[q].pc = c <=> env[q].pc = c
    BY <1>1 DEF Inner, Clearing, Starting
  <2>2. \A q \in Procs : ClearsAlone(q)'
    BY <1>2, <1>5, <2>1 DEF Alone, ClearsAlone
  <2>3. \A q \in Procs : NamesAt(q)'
    BY <1>2, <1>3, <1>5, <2>1 DEF Alone, NamesAt, Clearing, Starting
  <2>4. QED
    BY <1>2, <1>5, <2>2, <2>3 DEF Alone
<1>6. VersionAt(f, content', data_mdb') /\ (data_mdb' = 1 => data_mdb = 1)
  BY <1>2
<1>7. QED
  BY <1>4, <1>5, <1>6, StepKeeps

-----------------------------------------------------------------------------
(* Steps that leave the names of files alone.                               *)

\* What is known of a process that has its data file open.
LEMMA OpenFacts ==
  ASSUME IInv, NEW p \in Procs, env[p].pc \in Inner
  PROVE  /\ EnvInv(env[p]) /\ env[p].data # 0 /\ env[p].data \in Inode
         /\ content \in [Inode -> Contents]
         /\ VersionAt(env[p], content, data_mdb)
BY DEF IInv, Inner, EnvInv, EnvType, Closed, Files, Versions

\* A commit may put entries in an empty file, never those of a wrong version.
LEMMA CommitKeeps ==
  ASSUME IInv, NEW e, EnvInv(e), NEW ok \in BOOLEAN
  PROVE  /\ Commit(e, ok) \in [Inode -> Contents]
         /\ \A i \in Inode : Commit(e, ok)[i] = "wrong" => content[i] = "wrong"
<1>1. content \in [Inode -> Contents] /\ e.rw \in Inode
  BY DEF IInv, Files, EnvInv, EnvType
<1>2. QED
  BY <1>1 DEF Commit, Contents

\* A process that goes on serving knows as much of its version as before.
LEMMA ServesOn ==
  ASSUME NEW e, NEW f, NEW c, NEW d, Same(f, e), e.pc = "run",
         VersionAt(e, content, d), c[e.data] = "wrong" => content[e.data] = "wrong"
  PROVE  VersionAt(f, c, d)
BY DEF Same, VersionAt

\* cdb_readv() and the like take or keep a read transaction.
LEMMA ReadKeeps ==
  ASSUME IInv, NEW p \in Procs, Read(p), disturbed' = (disturbed \/ Overlap(env'))
  PROVE  IInv'
<1> DEFINE e == env[p]
           f == TxnGetRo(e)
<1>1. e.pc = "run" /\ e.pc \in Inner
  BY DEF Read, At, Inner
<1>2. /\ EnvInv(e) /\ e.data # 0 /\ e.data \in Inode /\ content \in [Inode -> Contents]
      /\ VersionAt(e, content, data_mdb)
  BY <1>1, OpenFacts
<1>3. EnvInv(f) /\ Same(f, e) /\ f.rw = e.rw
  BY <1>2, TxnGetRoKeeps
<1>4. Step(p, f) /\ content' = content /\ UNCHANGED <<names, inodes>>
  BY DEF Read
<1> HIDE DEF f
<1>5. VersionAt(f, content', data_mdb)
  BY <1>1, <1>2, <1>3, <1>4, ServesOn
<1>6. f.rw = 0 \/ Writer(p)
  BY <1>3 DEF Writer
<1>7. QED
  BY <1>1, <1>2, <1>3, <1>4, <1>5, <1>6, InnerStep DEF Same

\* cdb_read_leq() ends a write transaction before it takes the cursor.
LEMMA ReadLeqKeeps ==
  ASSUME IInv, NEW p \in Procs, ReadLeq(p), disturbed' = (disturbed \/ Overlap(env'))
  PROVE  IInv'
<1> DEFINE e == env[p]
<1>1. e.pc = "run" /\ e.pc \in Inner /\ UNCHANGED <<names, inodes>>
  BY DEF ReadLeq, At, Inner
<1>2. /\ EnvInv(e) /\ e.data # 0 /\ e.data \in Inode /\ content \in [Inode -> Contents]
      /\ VersionAt(e, content, data_mdb)
  BY <1>1, OpenFacts
<1>3. PICK ok \in BOOLEAN : /\ content' = Commit(e, ok)
                            /\ Step(p, IF ok THEN TxnCursGet(e) ELSE Sync(e))
  BY DEF ReadLeq
<1> DEFINE f == IF ok THEN TxnCursGet(e) ELSE Sync(e)
<1>4. EnvInv(f) /\ Same(f, e) /\ f.rw = 0
  BY <1>2, TxnCursGetKeeps, SyncKeeps
<1>5. /\ content' \in [Inode -> Contents]
      /\ \A i \in Inode : content'[i] = "wrong" => content[i] = "wrong"
  BY <1>2, <1>3, CommitKeeps
<1>6. Step(p, f)
  BY <1>3
<1> HIDE DEF f
<1>7. VersionAt(f, content', data_mdb)
  BY <1>1, <1>2, <1>4, <1>5, ServesOn
<1>8. QED
  BY <1>1, <1>4, <1>5, <1>6, <1>7, InnerStep DEF Same

\* cdb_sync() ends what is active.
LEMMA CdbSyncKeeps ==
  ASSUME IInv, NEW p \in Procs, CdbSync(p), disturbed' = (disturbed \/ Overlap(env'))
  PROVE  IInv'
<1> DEFINE e == env[p]
           f == Sync(e)
<1>1. e.pc = "run" /\ e.pc \in Inner /\ UNCHANGED <<names, inodes>> /\ Step(p, f)
  BY DEF CdbSync, At, Inner
<1>2. /\ EnvInv(e) /\ e.data # 0 /\ e.data \in Inode /\ VersionAt(e, content, data_mdb)
  BY <1>1, OpenFacts
<1>3. PICK ok \in BOOLEAN : content' = Commit(e, ok)
  BY DEF CdbSync, Outcomes
<1>4. EnvInv(f) /\ Same(f, e) /\ f.rw = 0
  BY <1>2, SyncKeeps
<1>5. /\ content' \in [Inode -> Contents]
      /\ \A i \in Inode : content'[i] = "wrong" => content[i] = "wrong"
  BY <1>2, <1>3, CommitKeeps
<1> HIDE DEF f
<1>6. VersionAt(f, content', data_mdb)
  BY <1>1, <1>2, <1>4, <1>5, ServesOn
<1>7. QED
  BY <1>1, <1>4, <1>5, <1>6, InnerStep DEF Same

\* cdb_remove() writes under the lock of LMDB.
LEMMA RemoveKeeps ==
  ASSUME IInv, NEW p \in Procs, Remove(p), disturbed' = (disturbed \/ Overlap(env'))
  PROVE  IInv'
<1> DEFINE e == env[p]
           f == TxnGetRw(e)
<1>1. e.pc = "run" /\ e.pc \in Inner /\ Writer(p)
  BY DEF Remove, At, Inner
<1>2. /\ EnvInv(e) /\ e.data # 0 /\ e.data \in Inode /\ content \in [Inode -> Contents]
      /\ VersionAt(e, content, data_mdb)
  BY <1>1, OpenFacts
<1>3. EnvInv(f) /\ Same(f, e)
  BY <1>2, TxnGetRwKeeps
<1>4. Step(p, f) /\ content' = content /\ UNCHANGED <<names, inodes>>
  BY DEF Remove
<1> HIDE DEF f
<1>5. VersionAt(f, content', data_mdb)
  BY <1>1, <1>2, <1>3, <1>4, ServesOn
<1>6. QED
  BY <1>1, <1>2, <1>3, <1>4, <1>5, InnerStep DEF Same

\* Moving to another position keeps the handles, if a file is open there too.
LEMMA GoKeeps ==
  ASSUME NEW e, EnvInv(e), e.data # 0, NEW pc \in PCs \ Closed
  PROVE  /\ EnvInv(Go(e, pc)) /\ Go(e, pc).pc = pc /\ Go(e, pc).next = e.next
         /\ Go(e, pc).data = e.data /\ Go(e, pc).lock = e.lock /\ Go(e, pc).rw = e.rw
         /\ Go(e, pc).unchecked = e.unchecked
BY DEF Go, EnvInv, EnvType, Handles

\* The way into cdb_clear(), from a service that has a right version or knows it has not.
LEMMA KrCacheClearKeeps ==
  ASSUME NEW e, NEW c, NEW d, EnvInv(e), e.data # 0, e.pc = "run", VersionAt(e, c, d)
  PROVE  LET f == KrCacheClear(e)
         IN /\ EnvInv(f) /\ f.pc = "drop" /\ f.data = e.data /\ f.lock = e.lock /\ f.rw = e.rw
            /\ VersionAt(f, c, d)
<1> DEFINE f == KrCacheClear(e)
<1>1. /\ EnvInv(f) /\ f.pc = "drop" /\ f.next = "version" /\ f.data = e.data /\ f.lock = e.lock
      /\ f.rw = e.rw /\ f.unchecked = e.unchecked
  BY DEF KrCacheClear, EnvInv, EnvType, Handles, PCs, Closed
<1> HIDE DEF f
<1>2. VersionAt(f, c, d)
  BY <1>1 DEF VersionAt
<1>3. QED
  BY <1>1, <1>2 DEF f

\* kr_cache_clear() from the configuration.
LEMMA ClearEverythingKeeps ==
  ASSUME IInv, NEW p \in Procs, ClearEverything(p), disturbed' = (disturbed \/ Overlap(env'))
  PROVE  IInv'
<1> DEFINE e == env[p]
           f == KrCacheClear(e)
<1>1. e.pc = "run" /\ e.pc \in Inner
  BY DEF ClearEverything, At, Inner
<1>2. /\ EnvInv(e) /\ e.data # 0 /\ e.data \in Inode /\ content \in [Inode -> Contents]
      /\ VersionAt(e, content, data_mdb)
  BY <1>1, OpenFacts
<1>3. Step(p, f) /\ content' = content /\ UNCHANGED <<names, inodes>>
  BY DEF ClearEverything
<1>4. /\ EnvInv(f) /\ f.pc = "drop" /\ f.data = e.data /\ f.lock = e.lock /\ f.rw = e.rw
      /\ VersionAt(f, content, data_mdb)
  BY <1>1, <1>2, KrCacheClearKeeps
<1> HIDE DEF f
<1>5. f.rw = 0 \/ Writer(p)
  BY <1>4 DEF Writer
<1>6. f.pc \in Inner
  BY <1>4 DEF Inner
<1>7. QED
  BY <1>1, <1>2, <1>3, <1>4, <1>5, <1>6, InnerStep

\* cache_write_or_clear(): the put, the odd recovery of cdb_write(), or a clear.
LEMMA WriteKeeps ==
  ASSUME IInv, NEW p \in Procs, Write(p), disturbed' = (disturbed \/ Overlap(env'))
  PROVE  IInv'
<1> DEFINE e0 == env[p]
           e == TxnGetRw(e0)
<1>1. e0.pc = "run" /\ e0.pc \in Inner /\ Writer(p) /\ UNCHANGED <<names, inodes>>
  BY DEF Write, At, Inner
<1>2. /\ EnvInv(e0) /\ e0.data # 0 /\ e0.data \in Inode /\ content \in [Inode -> Contents]
      /\ VersionAt(e0, content, data_mdb)
  BY <1>1, OpenFacts
<1>3. EnvInv(e) /\ Same(e, e0) /\ e.data # 0 /\ e.pc = "run"
  BY <1>1, <1>2, TxnGetRwKeeps DEF Same
<1>4. \/ Step(p, [e EXCEPT !.fills = content[e.data] = "empty"]) /\ content' = content
      \/ \E ok \in BOOLEAN : /\ content' = Commit(e, ok)
                             /\ Step(p, IF ok THEN Sync(e) ELSE TxnGetRw(Sync(e)))
      \/ Step(p, KrCacheClear(e)) /\ content' = content
  BY DEF Write
<1> HIDE DEF e
<1>5. CASE Step(p, [e EXCEPT !.fills = content[e.data] = "empty"]) /\ content' = content
  <2> DEFINE f == [e EXCEPT !.fills = content[e.data] = "empty"]
  <2>1. EnvInv(f) /\ Same(f, e0)
    BY <1>3 DEF EnvInv, EnvType, Handles, Same
  <2>2. Step(p, f) /\ content' = content
    BY <1>5
  <2> HIDE DEF f
  <2>3. VersionAt(f, content', data_mdb)
    BY <1>1, <1>2, <2>1, <2>2, ServesOn
  <2>4. QED
    BY <1>1, <1>2, <2>1, <2>2, <2>3, InnerStep DEF Same
<1>6. CASE \E ok \in BOOLEAN : /\ content' = Commit(e, ok)
                               /\ Step(p, IF ok THEN Sync(e) ELSE TxnGetRw(Sync(e)))
  <2>1. PICK ok \in BOOLEAN : /\ content' = Commit(e, ok)
                              /\ Step(p, IF ok THEN Sync(e) ELSE TxnGetRw(Sync(e)))
    BY <1>6
  <2> DEFINE s == Sync(e)
             f == IF ok THEN s ELSE TxnGetRw(s)
  <2>2. EnvInv(s) /\ Same(s, e)
    BY <1>3, SyncKeeps
  <2>3. EnvInv(f) /\ Same(f, e0)
    <3> HIDE DEF s
    <3>1. s.data # 0
      BY <1>3, <2>2 DEF Same
    <3>2. Same(s, e0)
      BY <1>3, <2>2 DEF Same
    <3>3. EnvInv(TxnGetRw(s)) /\ Same(TxnGetRw(s), s)
      BY <2>2, <3>1, TxnGetRwKeeps
    <3>4. Same(TxnGetRw(s), e0)
      BY <3>2, <3>3 DEF Same
    <3>5. QED
      BY <2>2, <3>2, <3>3, <3>4
  <2>4. /\ content' \in [Inode -> Contents]
        /\ \A i \in Inode : content'[i] = "wrong" => content[i] = "wrong"
    BY <1>3, <2>1, CommitKeeps
  <2>5. Step(p, f)
    BY <2>1
  <2> HIDE DEF f
  <2>6. VersionAt(f, content', data_mdb)
    BY <1>1, <1>2, <2>3, <2>4, ServesOn
  <2>7. QED
    BY <1>1, <2>3, <2>4, <2>5, <2>6, InnerStep DEF Same
<1>7. CASE Step(p, KrCacheClear(e)) /\ content' = content
  <2> DEFINE f == KrCacheClear(e)
  <2>1. VersionAt(e, content, data_mdb)
    BY <1>1, <1>2, <1>3, ServesOn
  <2>2. /\ EnvInv(f) /\ f.pc = "drop" /\ f.data = e.data /\ f.lock = e.lock
        /\ VersionAt(f, content, data_mdb)
    BY <1>3, <2>1, KrCacheClearKeeps
  <2>3. Step(p, f)
    BY <1>7
  <2> HIDE DEF f
  <2>4. f.data = e0.data /\ f.lock = e0.lock /\ f.pc \in Inner
    BY <1>3, <2>2 DEF Same, Inner
  <2>5. QED
    BY <1>1, <1>2, <1>7, <2>2, <2>3, <2>4, InnerStep
<1>8. QED
  BY <1>4, <1>5, <1>6, <1>7

\* mdb_drop() empties the file, or cdb_clear() ends all transactions and goes on.
LEMMA DropKeeps ==
  ASSUME IInv, NEW p \in Procs, Drop(p), disturbed' = (disturbed \/ Overlap(env'))
  PROVE  IInv'
<1> DEFINE e0 == env[p]
           e == TxnGetRw(e0)
           s == Sync(e)
           f1 == Cleared([s EXCEPT !.unchecked = FALSE])
           f2 == Go(FreeTxnRo(s), "lock")
<1>1. e0.pc = "drop" /\ e0.pc \in Inner /\ Writer(p) /\ UNCHANGED <<names, inodes>>
  BY DEF Drop, At, Inner
<1>2. /\ EnvInv(e0) /\ e0.data # 0 /\ e0.data \in Inode /\ content \in [Inode -> Contents]
      /\ VersionAt(e0, content, data_mdb)
  BY <1>1, OpenFacts
<1>3. EnvInv(e) /\ Same(e, e0)
  BY <1>2, TxnGetRwKeeps
<1>4. EnvInv(s) /\ Same(s, e0) /\ s.rw = 0 /\ s.ro_active = FALSE
  <2> HIDE DEF e
  <2>1. EnvInv(s) /\ Same(s, e) /\ s.rw = 0 /\ s.ro_active = FALSE
    BY <1>3, SyncKeeps
  <2>2. QED
    BY <1>3, <2>1 DEF Same
<1>5. \/ Step(p, f1) /\ content' = [content EXCEPT ![e.data] = "empty"]
      \/ Step(p, f2) /\ content' = content
  BY DEF Drop
<1>6. e.data = e0.data
  BY <1>3 DEF Same
<1> HIDE DEF e, s
<1>7. CASE Step(p, f1) /\ content' = [content EXCEPT ![e.data] = "empty"]
  <2> DEFINE g == [s EXCEPT !.unchecked = FALSE]
  <2>1. /\ EnvInv(g) /\ g.data = e0.data /\ g.lock = e0.lock /\ g.rw = 0
        /\ g.next \in {"run", "version", "stamp"}
    BY <1>4 DEF EnvInv, EnvType, Handles, Same
  <2>2. f1 = Go(g, g.next)
    BY DEF Cleared
  <2> HIDE DEF g, f1
  <2>3. g.next \in PCs \ Closed /\ g.next \in Inner
    BY <2>1 DEF PCs, Closed, Inner
  <2>4. /\ EnvInv(f1) /\ f1.data = e0.data /\ f1.lock = e0.lock /\ f1.rw = 0 /\ f1.pc \in Inner
    BY <1>2, <2>1, <2>2, <2>3, GoKeeps
  <2>5. /\ content' \in [Inode -> Contents] /\ content'[e0.data] = "empty"
        /\ \A i \in Inode : content'[i] = "wrong" => content[i] = "wrong"
    BY <1>2, <1>6, <1>7 DEF Contents
  <2>6. VersionAt(f1, content', data_mdb)
    BY <1>2, <2>4, <2>5 DEF VersionAt, Inner
  <2>7. QED
    BY <1>1, <1>7, <2>4, <2>5, <2>6, InnerStep
<1>8. CASE Step(p, f2) /\ content' = content
  <2> DEFINE g == FreeTxnRo(s)
  <2>1. EnvInv(g) /\ Same(g, e0) /\ g.rw = 0
    <3>1. 0 \in Inode /\ s.ro_curs_active = FALSE
      BY <1>4, InodeAssumption DEF Inode, EnvInv, EnvType, Handles
    <3>2. QED
      BY <1>4, <3>1 DEF FreeTxnRo, EnvInv, EnvType, Handles, Same
  <2> HIDE DEF g
  <2>2. "lock" \in PCs \ Closed
    BY DEF PCs, Closed
  <2>3. g.data # 0
    BY <1>2, <2>1 DEF Same
  <2>4. /\ EnvInv(f2) /\ f2.pc = "lock" /\ f2.data = g.data /\ f2.lock = g.lock /\ f2.rw = 0
        /\ f2.next = g.next /\ f2.unchecked = g.unchecked
    BY <2>1, <2>2, <2>3, GoKeeps DEF g
  <2> HIDE DEF f2
  <2>5. VersionAt(f2, content', data_mdb)
    BY <1>1, <1>2, <1>8, <2>1, <2>4 DEF VersionAt, Same
  <2>6. f2.data = e0.data /\ f2.lock = e0.lock /\ f2.pc \in Inner
    BY <2>1, <2>4 DEF Same, Inner
  <2>7. QED
    BY <1>1, <1>2, <1>8, <2>4, <2>5, <2>6, InnerStep
<1>9. QED
  BY <1>5, <1>7, <1>8

\* assert_right_version() serves a right version, stamps an empty file, purges another.
LEMMA VersionKeeps ==
  ASSUME IInv, NEW p \in Procs, Version(p), disturbed' = (disturbed \/ Overlap(env'))
  PROVE  IInv'
<1> DEFINE e0 == env[p]
           e == TxnGetRo(e0)
           c == content[e.data]
<1>1. e0.pc = "version" /\ e0.pc \in Inner /\ UNCHANGED <<names, inodes>> /\ content' = content
  BY DEF Version, At, Inner
<1>2. /\ EnvInv(e0) /\ e0.data # 0 /\ e0.data \in Inode /\ content \in [Inode -> Contents]
      /\ VersionAt(e0, content, data_mdb)
  BY <1>1, OpenFacts
<1>3. EnvInv(e) /\ Same(e, e0) /\ e.rw = e0.rw
  BY <1>2, TxnGetRoKeeps
<1>4. Step(p, CASE c = "right" -> Go(Sync(e), "run")
                [] c = "empty" -> Go(e, "stamp")
                [] OTHER -> [e EXCEPT !.pc = "drop", !.next = "stamp"])
  BY DEF Version
<1>5. e.data # 0 /\ e.data = e0.data
  BY <1>2, <1>3 DEF Same
<1>6. e.rw = 0 \/ Writer(p)
  BY <1>3 DEF Writer
<1>7. "run" \in PCs \ Closed /\ "stamp" \in PCs \ Closed
  BY DEF PCs, Closed
<1> HIDE DEF e
<1>8. CASE c = "right"
  <2> DEFINE s == Sync(e)
             f == Go(s, "run")
  <2>1. EnvInv(s) /\ Same(s, e) /\ s.rw = 0
    BY <1>3, SyncKeeps
  <2>2. Step(p, f)
    BY <1>4, <1>8
  <2> HIDE DEF s
  <2>3. s.data # 0
    BY <1>5, <2>1 DEF Same
  <2>4. EnvInv(f) /\ f.pc = "run" /\ f.data = s.data /\ f.lock = s.lock /\ f.rw = 0
    BY <1>7, <2>1, <2>3, GoKeeps
  <2> HIDE DEF f
  <2>5. f.data = e0.data /\ f.lock = e0.lock /\ f.pc \in Inner
    BY <1>3, <2>1, <2>4 DEF Same, Inner
  <2>6. VersionAt(f, content', data_mdb)
    BY <1>1, <1>2, <1>5, <1>8, <2>4, <2>5 DEF VersionAt
  <2>7. QED
    BY <1>1, <1>2, <2>2, <2>4, <2>5, <2>6, InnerStep
<1>9. CASE c = "empty"
  <2> DEFINE f == Go(e, "stamp")
  <2>1. Step(p, f)
    BY <1>4, <1>9
  <2>2. EnvInv(f) /\ f.pc = "stamp" /\ f.data = e.data /\ f.lock = e.lock /\ f.rw = e.rw
    BY <1>3, <1>5, <1>7, GoKeeps
  <2> HIDE DEF f
  <2>3. f.data = e0.data /\ f.lock = e0.lock /\ f.pc \in Inner
    BY <1>3, <2>2 DEF Same, Inner
  <2>4. VersionAt(f, content', data_mdb)
    BY <1>1, <1>2, <1>5, <1>9, <2>2, <2>3 DEF VersionAt
  <2>5. QED
    BY <1>1, <1>2, <1>6, <2>1, <2>2, <2>3, <2>4, InnerStep
<1>10. CASE c # "right" /\ c # "empty"
  <2> DEFINE f == [e EXCEPT !.pc = "drop", !.next = "stamp"]
  <2>1. Step(p, f)
    BY <1>4, <1>10
  <2>2. /\ EnvInv(f) /\ f.pc = "drop" /\ f.next = "stamp" /\ f.data = e.data /\ f.lock = e.lock
        /\ f.rw = e.rw
    BY <1>3, <1>5 DEF EnvInv, EnvType, Handles, PCs, Closed
  <2> HIDE DEF f
  <2>3. f.data = e0.data /\ f.lock = e0.lock /\ f.pc \in Inner
    BY <1>3, <2>2 DEF Same, Inner
  <2>4. VersionAt(f, content', data_mdb)
    BY <1>1, <1>2, <2>2, <2>3 DEF VersionAt
  <2>5. QED
    BY <1>1, <1>2, <1>6, <2>1, <2>2, <2>3, <2>4, InnerStep
<1>11. QED
  BY <1>8, <1>9, <1>10

\* The version is written to a file that has no wrong one.
LEMMA StampKeeps ==
  ASSUME IInv, NEW p \in Procs, Stamp(p), disturbed' = (disturbed \/ Overlap(env'))
  PROVE  IInv'
<1> DEFINE e0 == env[p]
           e == TxnGetRw(e0)
           s == Sync(e)
           f == Go(s, "run")
<1>1. e0.pc = "stamp" /\ e0.pc \in Inner /\ UNCHANGED <<names, inodes>> /\ Step(p, f)
  BY DEF Stamp, At, Inner
<1>2. /\ EnvInv(e0) /\ e0.data # 0 /\ e0.data \in Inode /\ content \in [Inode -> Contents]
      /\ VersionAt(e0, content, data_mdb)
  BY <1>1, OpenFacts
<1>3. EnvInv(e) /\ Same(e, e0)
  BY <1>2, TxnGetRwKeeps
<1>4. content' \in {content, [content EXCEPT ![e.data] = "right"]}
  BY DEF Stamp
<1> HIDE DEF e
<1>5. EnvInv(s) /\ Same(s, e) /\ s.rw = 0
  BY <1>3, SyncKeeps
<1> HIDE DEF s
<1>6. Same(s, e0) /\ s.data # 0 /\ "run" \in PCs \ Closed
  BY <1>2, <1>3, <1>5 DEF Same, PCs, Closed
<1>7. EnvInv(f) /\ f.pc = "run" /\ f.data = s.data /\ f.lock = s.lock /\ f.rw = 0
  BY <1>5, <1>6, GoKeeps
<1> HIDE DEF f
<1>8. f.data = e0.data /\ f.lock = e0.lock /\ f.pc \in Inner /\ e.data = e0.data
  BY <1>3, <1>6, <1>7 DEF Same, Inner
<1>9. /\ content' \in [Inode -> Contents]
      /\ \A i \in Inode : content'[i] = "wrong" => content[i] = "wrong"
  BY <1>2, <1>4, <1>8 DEF Contents
<1>10. VersionAt(f, content', data_mdb)
  BY <1>1, <1>2, <1>7, <1>8, <1>9 DEF VersionAt
<1>11. QED
  BY <1>1, <1>7, <1>8, <1>9, <1>10, InnerStep

-----------------------------------------------------------------------------
(* Steps about the files.                                                   *)

\* Who clears stays alone when nobody joins.
LEMMA ClearsKept ==
  ASSUME IInv, Alone, NEW p \in Procs, NEW f, Step(p, f),
         f.pc \in Clearing => env[p].pc \in Clearing,
         f.pc \in Starting => env[p].pc \in Starting,
         cachelock' = cachelock \/ (env[p].pc \in Clearing /\ f.pc \notin Clearing)
  PROVE  \A q \in Procs : ClearsAlone(q)'
<1>1. env'[p] = f /\ \A q \in Procs : q # p => env'[q] = env[q]
  BY Frame
<1>2. \A q \in Procs : ClearsAlone(q)
  BY DEF Alone
<1>3. \A q \in Procs : /\ env'[q].pc \in Clearing => env[q].pc \in Clearing
                       /\ env'[q].pc \in Starting => env[q].pc \in Starting
  BY <1>1
<1>4. \A q \in Procs : env'[q].pc \in Clearing => cachelock' = TRUE
  BY <1>1, <1>2, <1>3 DEF ClearsAlone
<1>5. QED
  BY <1>2, <1>3, <1>4 DEF ClearsAlone

\* The names still belong together when only data.mdb may have gone.
LEMMA NamesKept ==
  ASSUME IInv, Alone, NEW p \in Procs, NEW f, Step(p, f),
         f.data \in {0, env[p].data}, f.data # 0 => f.lock = env[p].lock,
         data_mdb' \in {0, data_mdb}, lock_mdb' = lock_mdb,
         f.pc = "unlink_data" => data_mdb' \in {0, f.data},
         f.pc = "unlink_lock" => data_mdb' = 0,
         f.pc \notin {"open_data", "reopen_data"}
  PROVE  /\ data_mdb' # 0 => lock_mdb' # 0
         /\ \A q \in Procs : NamesAt(q)'
<1>1. env'[p] = f /\ \A q \in Procs : q # p => env'[q] = env[q]
  BY Frame
<1>2. (data_mdb # 0 => lock_mdb # 0) /\ \A q \in Procs : NamesAt(q)
  BY DEF Alone
<1>3. \A q \in Procs : /\ env'[q].data \in {0, env[q].data}
                       /\ env'[q].data # 0 => env'[q].lock = env[q].lock
  BY <1>1
<1>4. ASSUME NEW q \in Procs
      PROVE  NamesAt(q)'
  <2>1. /\ env'[q].pc = "unlink_data" => data_mdb' \in {0, env'[q].data}
        /\ env'[q].pc = "unlink_lock" => data_mdb' = 0
        /\ env'[q].pc \in {"open_data", "reopen_data"} => env'[q].lock = lock_mdb /\ lock_mdb # 0
    BY <1>1, <1>2 DEF NamesAt
  <2>2. env'[q].data # 0 /\ env'[q].data = data_mdb' => env'[q].lock = lock_mdb
    BY <1>2, <1>3 DEF NamesAt
  <2>3. \A r \in Procs : env'[q].data # 0 /\ env'[q].data = env'[r].data => env'[q].lock = env'[r].lock
    BY <1>2, <1>3 DEF NamesAt
  <2>4. QED
    BY <2>1, <2>2, <2>3 DEF NamesAt
<1>5. QED
  BY <1>2, <1>4

\* Files that are there stay created; p has none that is not.
LEMMA FilesKept ==
  ASSUME IInv, NEW p \in Procs, NEW f, Step(p, f),
         disturbed' = (disturbed \/ Overlap(env')),
         inodes' \in Inode, inodes' >= inodes,
         data_mdb' \in 0..inodes', lock_mdb' \in 0..inodes', f.data \in 0..inodes',
         cachelock' \in BOOLEAN, content' \in [Inode -> Contents]
  PROVE  Files'
<1>1. env'[p] = f /\ \A q \in Procs : q # p => env'[q] = env[q]
  BY Frame
<1>2. disturbed' \in BOOLEAN
  BY DEF IInv, Files, Overlap
<1>3. inodes \in Inode /\ inodes \in Int /\ inodes' \in Int /\ inodes >= 1 /\ \A q \in Procs : env[q].data <= inodes
  BY InodeAssumption DEF IInv, Files, Inode
<1>4. \A q \in Procs : env[q].data \in Int
  BY InodeAssumption DEF IInv, EnvInv, EnvType, Inode
<1>5. \A q \in Procs : env'[q].data <= inodes'
  BY <1>1, <1>3, <1>4
<1>6. QED
  BY <1>2, <1>3, <1>5 DEF Files

\* What is known before any step.
LEMMA Facts ==
  ASSUME IInv, NEW p \in Procs
  PROVE  /\ EnvInv(env[p]) /\ env[p].data \in 0..inodes /\ env[p].data \in Inode
         /\ VersionAt(env[p], content, data_mdb)
         /\ inodes \in Inode /\ inodes \in Int /\ inodes >= 1 /\ inodes >= inodes
         /\ data_mdb \in 0..inodes /\ lock_mdb \in 0..inodes
         /\ data_mdb \in Inode /\ lock_mdb \in Inode
         /\ cachelock \in BOOLEAN /\ content \in [Inode -> Contents]
         /\ env[p].rw = 0 \/ Writer(p)
         /\ env[p].pc \notin Closed => env[p].data # 0
<1>1. EnvInv(env[p]) /\ VersionAt(env[p], content, data_mdb) /\ Files
  BY DEF IInv, Versions
<1>2. inodes \in Int /\ inodes <= MaxInode /\ MaxInode \in Int
  BY <1>1, InodeAssumption DEF Files, Inode
<1>3. env[p].data \in Inode /\ env[p].data <= inodes
  BY <1>1 DEF Files, EnvInv, EnvType
<1>4. QED
  BY <1>1, <1>2, <1>3 DEF Files, Inode, Writer, EnvInv

\* A clear that fails leaves a process that serves, and marks it if it was a purge.
LEMMA ClearFailedKeeps ==
  ASSUME NEW e, NEW c, NEW d, EnvInv(e), e.data # 0, e.pc \in {"lock", "stat"}, VersionAt(e, c, d)
  PROVE  LET f == ClearFailed(e)
         IN /\ EnvInv(f) /\ f.pc = "run" /\ f.data = e.data /\ f.lock = e.lock /\ f.rw = e.rw
            /\ VersionAt(f, c, d)
<1> DEFINE g == [e EXCEPT !.unchecked = @ \/ e.next = "stamp"]
           f == Go(g, "run")
<1>1. /\ EnvInv(g) /\ g.data = e.data /\ g.lock = e.lock /\ g.rw = e.rw
      /\ g.unchecked = (e.unchecked \/ e.next = "stamp")
  BY DEF EnvInv, EnvType, Handles
<1> HIDE DEF g
<1>2. "run" \in PCs \ Closed
  BY DEF PCs, Closed
<1>3. /\ EnvInv(f) /\ f.pc = "run" /\ f.data = e.data /\ f.lock = e.lock /\ f.rw = e.rw
      /\ f.unchecked = (e.unchecked \/ e.next = "stamp")
  BY <1>1, <1>2, GoKeeps
<1> HIDE DEF f
<1>4. VersionAt(f, c, d)
  BY <1>3 DEF VersionAt
<1>5. QED
  BY <1>3, <1>4 DEF ClearFailed, f, g

\* .cachelock is taken by one process at a time.
LEMMA LockKeeps ==
  ASSUME IInv, NEW p \in Procs, Lock(p), disturbed' = (disturbed \/ Overlap(env'))
  PROVE  IInv'
<1> DEFINE e == env[p]
           f == IF cachelock THEN ClearFailed(e) ELSE Go(e, "stat")
<1>1. /\ e.pc = "lock" /\ Step(p, f) /\ cachelock' = TRUE
      /\ data_mdb' = data_mdb /\ lock_mdb' = lock_mdb /\ content' = content /\ inodes' = inodes
  BY Zenon DEF Lock, At
<1>2. EnvInv(e) /\ e.data # 0 /\ VersionAt(e, content, data_mdb)
  BY <1>1, Facts DEF Closed
<1>3. "stat" \in PCs \ Closed
  BY Zenon DEF PCs, Closed, Clearing
<1>4. /\ EnvInv(f) /\ f.data = e.data /\ f.lock = e.lock /\ f.rw = e.rw
      /\ VersionAt(f, content, data_mdb)
      /\ f.pc = IF cachelock THEN "run" ELSE "stat"
  <2>1. CASE cachelock
    BY Zenon, <1>1, <1>2, <2>1, ClearFailedKeeps
  <2>2. CASE ~cachelock
    <3> DEFINE g == Go(e, "stat")
    <3>1. /\ EnvInv(g) /\ g.pc = "stat" /\ g.next = e.next /\ g.data = e.data /\ g.lock = e.lock
          /\ g.rw = e.rw /\ g.unchecked = e.unchecked
      BY Zenon, <1>2, <1>3, GoKeeps
    <3> HIDE DEF g
    <3>2. VersionAt(g, content, data_mdb)
      BY Zenon, <1>1, <1>2, <3>1 DEF VersionAt
    <3>3. QED
      BY Zenon, <2>2, <3>1, <3>2 DEF g
  <2>3. QED
    BY Zenon, <2>1, <2>2
<1> HIDE DEF f
<1>5. Files'
  BY <1>1, <1>4, Facts, FilesKept
<1>6. ASSUME Alone, ~Overlap(env')
      PROVE  Alone'
  <2>1. env'[p] = f /\ \A q \in Procs : q # p => env'[q] = env[q]
    BY Zenon, <1>1, Frame
  <2>2. (data_mdb' # 0 => lock_mdb' # 0) /\ \A q \in Procs : NamesAt(q)'
    BY <1>1, <1>4, <1>6, NamesKept
  <2>3. \A q \in Procs : ClearsAlone(q)'
    <3>1. CASE cachelock
      <4>1. cachelock' = cachelock /\ f.pc \notin Clearing /\ f.pc \notin Starting
        BY Zenon, <1>1, <1>4, <3>1, Facts DEF Clearing, Starting
      <4>2. QED
        BY Zenon, <1>1, <1>6, <4>1, ClearsKept
    <3>2. CASE ~cachelock
      <4>1. \A q \in Procs : env[q].pc \notin Clearing
        BY <1>6, <3>2 DEF Alone, ClearsAlone
      <4>2. \A q \in Procs : env'[q].pc \in Clearing => q = p
        BY <2>1, <4>1
      <4>3. \A q, r \in Procs : env'[q].pc \in Clearing => env'[r].pc \notin Starting
        BY <1>6 DEF Overlap
      <4>4. QED
        BY <1>1, <4>2, <4>3 DEF ClearsAlone
    <3>3. QED
      BY <3>1, <3>2
  <2>4. QED
    BY <2>2, <2>3 DEF Alone
<1>7. f.rw = 0 \/ (f.lock = env[p].lock /\ Writer(p))
  BY Zenon, <1>4, Facts
<1>8. QED
  BY <1>1, <1>4, <1>5, <1>6, <1>7, StepKeeps

\* The file that is to be unlinked is compared with the open one.
LEMMA StatKeeps ==
  ASSUME IInv, NEW p \in Procs, Stat(p), disturbed' = (disturbed \/ Overlap(env'))
  PROVE  IInv'
<1> DEFINE e == env[p]
           pc == IF data_mdb = e.data THEN "unlink_data" ELSE "reopen_lock"
           f == IF data_mdb = 0 THEN ClearFailed(e) ELSE Go(e, pc)
<1>1. /\ e.pc = "stat" /\ Step(p, f) /\ cachelock' = (cachelock /\ data_mdb # 0)
      /\ data_mdb' = data_mdb /\ lock_mdb' = lock_mdb /\ content' = content /\ inodes' = inodes
  BY Zenon DEF Stat, At
<1>2. EnvInv(e) /\ e.data # 0 /\ VersionAt(e, content, data_mdb)
  BY <1>1, Facts DEF Closed
<1>3. pc \in PCs \ Closed
  BY Zenon DEF PCs, Closed, Clearing
<1>4. /\ EnvInv(f) /\ f.data = e.data /\ f.lock = e.lock /\ f.rw = e.rw
      /\ VersionAt(f, content, data_mdb)
      /\ f.pc = IF data_mdb = 0 THEN "run" ELSE pc
  <2>1. CASE data_mdb = 0
    BY Zenon, <1>1, <1>2, <2>1, ClearFailedKeeps
  <2>2. CASE data_mdb # 0
    <3> DEFINE g == Go(e, pc)
    <3>1. EnvInv(g) /\ g.pc = pc /\ g.data = e.data /\ g.lock = e.lock /\ g.rw = e.rw
      BY Zenon, <1>2, <1>3, GoKeeps
    <3> HIDE DEF g
    <3>2. VersionAt(g, content, data_mdb)
      BY Zenon, <1>1, <1>2, <3>1 DEF VersionAt
    <3>3. QED
      BY Zenon, <2>2, <3>1, <3>2 DEF g
  <2>3. QED
    BY <2>1, <2>2
<1> HIDE DEF f
<1>5. Files'
  BY ZenonT(30), <1>1, <1>4, Facts, FilesKept
<1>6. ASSUME Alone
      PROVE  Alone'
  <2>1. (data_mdb' # 0 => lock_mdb' # 0) /\ \A q \in Procs : NamesAt(q)'
    BY Zenon, <1>1, <1>4, <1>6, NamesKept
  <2>2. /\ cachelock' = cachelock \/ f.pc \notin Clearing
        /\ e.pc \in Clearing /\ f.pc \notin Starting
    BY Zenon, <1>1, <1>4, Facts DEF Clearing, Starting
  <2>3. \A q \in Procs : ClearsAlone(q)'
    BY <1>1, <1>6, <2>2, ClearsKept
  <2>4. QED
    BY <2>1, <2>3 DEF Alone
<1>7. f.rw = 0 \/ (f.lock = env[p].lock /\ Writer(p))
  BY Zenon, <1>4, Facts
<1>8. QED
  BY Zenon, <1>1, <1>4, <1>5, <1>6, <1>7, StepKeeps

\* Without data.mdb nobody is bound to lock.mdb.
LEMMA UnlinkDataKeeps ==
  ASSUME IInv, NEW p \in Procs, UnlinkData(p), disturbed' = (disturbed \/ Overlap(env'))
  PROVE  IInv'
<1> DEFINE e == env[p]
           f == Go(e, "unlink_lock")
<1>1. /\ e.pc = "unlink_data" /\ Step(p, f) /\ data_mdb' = 0
      /\ cachelock' = cachelock /\ lock_mdb' = lock_mdb /\ content' = content /\ inodes' = inodes
  BY Zenon DEF UnlinkData, At
<1>2. EnvInv(e) /\ e.data # 0 /\ VersionAt(e, content, data_mdb)
  BY <1>1, Facts DEF Closed
<1>3. "unlink_lock" \in PCs \ Closed
  BY Zenon DEF PCs, Closed, Clearing
<1>4. EnvInv(f) /\ f.pc = "unlink_lock" /\ f.data = e.data /\ f.lock = e.lock /\ f.rw = e.rw
  BY Zenon, <1>2, <1>3, GoKeeps
<1> HIDE DEF f
<1>5. VersionAt(f, content', data_mdb') /\ data_mdb' \in 0..inodes'
  <2>1. VersionAt(f, content', data_mdb')
    BY <1>1, <1>2, <1>4 DEF VersionAt
  <2>2. inodes \in Int /\ inodes >= 1
    BY Zenon, Facts
  <2>3. QED
    BY SMTT(30), <1>1, <2>1, <2>2
<1>6. Files'
  BY Zenon, <1>1, <1>4, <1>5, Facts, FilesKept
<1>7. ASSUME Alone
      PROVE  Alone'
  <2>1. (data_mdb' # 0 => lock_mdb' # 0) /\ \A q \in Procs : NamesAt(q)'
    BY <1>1, <1>4, <1>7, NamesKept
  <2>2. e.pc \in Clearing /\ f.pc \notin Starting
    BY <1>1, <1>4 DEF Clearing, Starting
  <2>3. \A q \in Procs : ClearsAlone(q)'
    BY Zenon, <1>1, <1>7, <2>2, ClearsKept
  <2>4. QED
    BY <2>1, <2>3 DEF Alone
<1>8. f.rw = 0 \/ (f.lock = env[p].lock /\ Writer(p))
  BY Zenon, <1>4, Facts
<1>9. QED
  BY <1>1, <1>4, <1>5, <1>6, <1>7, <1>8, StepKeeps

\* lock.mdb goes after data.mdb.
LEMMA UnlinkLockKeeps ==
  ASSUME IInv, NEW p \in Procs, UnlinkLock(p), disturbed' = (disturbed \/ Overlap(env'))
  PROVE  IInv'
<1> DEFINE e == env[p]
           f == Go(e, "reopen_lock")
<1>1. /\ e.pc = "unlink_lock" /\ Step(p, f) /\ lock_mdb' = 0
      /\ cachelock' = cachelock /\ data_mdb' = data_mdb /\ content' = content /\ inodes' = inodes
  BY Zenon DEF UnlinkLock, At
<1>2. EnvInv(e) /\ e.data # 0 /\ VersionAt(e, content, data_mdb)
  BY <1>1, Facts DEF Closed
<1>3. "reopen_lock" \in PCs \ Closed
  BY Zenon DEF PCs, Closed, Clearing
<1>4. EnvInv(f) /\ f.pc = "reopen_lock" /\ f.data = e.data /\ f.lock = e.lock /\ f.rw = e.rw
  BY Zenon, <1>2, <1>3, GoKeeps
<1> HIDE DEF f
<1>5. VersionAt(f, content', data_mdb') /\ lock_mdb' \in 0..inodes'
  <2>1. VersionAt(f, content', data_mdb')
    BY Zenon, <1>1, <1>2, <1>4 DEF VersionAt
  <2>2. inodes \in Int /\ inodes >= 1
    BY Facts
  <2>3. QED
    BY SMTT(30), <1>1, <2>1, <2>2
<1>6. Files'
  BY Zenon, <1>1, <1>4, <1>5, Facts, FilesKept
<1>7. ASSUME Alone
      PROVE  Alone'
  <2>1. env'[p] = f /\ \A q \in Procs : q # p => env'[q] = env[q]
    BY <1>1, Frame
  <2>2. e.pc \in Clearing /\ f.pc \notin Starting
    BY Zenon, <1>1, <1>4 DEF Clearing, Starting
  <2>3. \A q \in Procs : ClearsAlone(q)'
    BY Zenon, <1>1, <1>7, <2>2, ClearsKept
  <2>4. data_mdb = 0 /\ \A q \in Procs : NamesAt(q)
    BY Zenon, <1>1, <1>7 DEF Alone, NamesAt
  <2>5. \A q \in Procs : env[q].pc \notin {"open_data", "reopen_data"}
    BY <1>1, <1>7 DEF Alone, ClearsAlone, Clearing, Starting
  <2>6. \A q \in Procs : /\ env'[q].data = env[q].data /\ env'[q].lock = env[q].lock
                         /\ env'[q].pc \notin {"open_data", "reopen_data"}
    BY Zenon, <1>4, <2>1, <2>5
  <2>7. \A q \in Procs : NamesAt(q)'
    BY SMTT(30), <1>1, <2>4, <2>6 DEF NamesAt
  <2>8. QED
    BY <1>1, <2>3, <2>4, <2>7 DEF Alone
<1>8. f.rw = 0 \/ (f.lock = env[p].lock /\ Writer(p))
  BY Zenon, <1>4, Facts
<1>9. QED
  BY <1>1, <1>4, <1>5, <1>6, <1>7, <1>8, StepKeeps

\* mdb_env_open() of lock.mdb: a new lock file is made only while there is no data file.
LEMMA OpenLockKeeps ==
  ASSUME IInv, NEW p \in Procs, OpenLock(p), disturbed' = (disturbed \/ Overlap(env'))
  PROVE  IInv'
<1> DEFINE e == env[p]
           pc == IF e.pc = "open_lock" THEN "open_data" ELSE "reopen_data"
           f == [CloseEnv(e, pc) EXCEPT !.lock = lock_mdb']
<1>1. /\ e.pc \in {"open_lock", "reopen_lock"} /\ Step(p, f)
      /\ cachelock' = cachelock /\ data_mdb' = data_mdb /\ content' = content
      /\ \/ lock_mdb # 0 /\ lock_mdb' = lock_mdb /\ inodes' = inodes
         \/ lock_mdb = 0 /\ inodes < MaxInode /\ inodes' = inodes + 1 /\ lock_mdb' = inodes + 1
  BY DEF OpenLock, At
<1>2. EnvInv(e) /\ VersionAt(e, content, data_mdb)
  BY Facts
<1>3. /\ inodes \in Int /\ inodes >= 1 /\ inodes \in Inode /\ lock_mdb \in 0..inodes
      /\ data_mdb \in 0..inodes
  BY Facts
<1>4. /\ inodes' \in Inode /\ inodes' >= inodes /\ inodes' \in Int /\ lock_mdb' \in 0..inodes'
      /\ lock_mdb' \in Inode /\ lock_mdb' # 0 /\ data_mdb' \in 0..inodes' /\ 0 \in 0..inodes'
      /\ 0 \in Inode
  BY <1>1, <1>3, InodeAssumption DEF Inode
<1>5. pc \in Closed /\ pc \in PCs /\ (pc = "reopen_data" => e.pc = "reopen_lock")
  BY <1>1 DEF Closed, PCs, Starting, Clearing
<1> HIDE DEF pc
<1>6. EnvInv(f) /\ f.pc = pc /\ f.data = 0 /\ f.rw = 0 /\ f.lock = lock_mdb'
  BY ZenonT(30), <1>2, <1>4, <1>5 DEF CloseEnv, Off, EnvInv, EnvType, Handles
<1> HIDE DEF f
<1>7. VersionAt(f, content', data_mdb')
  BY <1>1, <1>2, <1>5, <1>6 DEF VersionAt, Closed
<1>8. Files'
  BY Zenon, <1>1, <1>4, <1>6, Facts, FilesKept
<1>9. ASSUME Alone
      PROVE  Alone'
  <2>1. env'[p] = f /\ \A q \in Procs : q # p => env'[q] = env[q]
    BY <1>1, Frame
  <2>2. /\ f.pc \in Clearing => e.pc \in Clearing
        /\ f.pc \in Starting => e.pc \in Starting
    BY <1>1, <1>6 DEF pc, Clearing, Starting
  <2>3. \A q \in Procs : ClearsAlone(q)'
    BY <1>1, <1>9, <2>2, ClearsKept
  <2>4. (data_mdb # 0 => lock_mdb # 0) /\ \A q \in Procs : NamesAt(q)
    BY <1>9 DEF Alone
  <2>5. lock_mdb # 0 => lock_mdb' = lock_mdb
    BY Zenon, <1>1
  <2>6. ASSUME NEW q \in Procs, q # p
        PROVE  NamesAt(q)'
    BY <1>1, <1>6, <2>1, <2>4, <2>5, <2>6 DEF NamesAt
  <2>7. f.pc # "unlink_data" /\ f.pc # "unlink_lock"
    BY Zenon, <1>5, <1>6 DEF Closed
  <2>8. NamesAt(p)'
    BY Zenon, <1>4, <1>6, <2>1, <2>7 DEF NamesAt
  <2>9. QED
    BY <1>1, <1>4, <2>3, <2>6, <2>8 DEF Alone
<1>10. QED
  BY <1>1, <1>6, <1>7, <1>8, <1>9, StepKeeps

\* mdb_env_open() of data.mdb: a new file is nobody's, an old one is of the lock file
\* that has been opened before.
LEMMA OpenDataKeeps ==
  ASSUME IInv, NEW p \in Procs, OpenData(p), disturbed' = (disturbed \/ Overlap(env'))
  PROVE  IInv'
<1> DEFINE e == env[p]
           pc == IF e.pc = "open_data" THEN "version" ELSE "unlock"
           f == [Go(e, pc) EXCEPT !.data = data_mdb']
<1>1. /\ e.pc \in {"open_data", "reopen_data"} /\ Step(p, f)
      /\ cachelock' = cachelock /\ lock_mdb' = lock_mdb /\ content' = content
      /\ \/ data_mdb # 0 /\ data_mdb' = data_mdb /\ inodes' = inodes
         \/ data_mdb = 0 /\ inodes < MaxInode /\ inodes' = inodes + 1 /\ data_mdb' = inodes + 1
  BY DEF OpenData, At
<1>2. EnvInv(e) /\ VersionAt(e, content, data_mdb) /\ e.data = 0
  BY <1>1, Facts DEF EnvInv, Closed
<1>3. /\ inodes \in Int /\ inodes >= 1 /\ inodes \in Inode /\ lock_mdb \in 0..inodes
      /\ data_mdb \in 0..inodes
  BY Facts
<1>4. /\ inodes' \in Inode /\ inodes' >= inodes /\ inodes' \in Int /\ lock_mdb' \in 0..inodes'
      /\ data_mdb' \in Inode /\ data_mdb' # 0 /\ data_mdb' \in 0..inodes'
      /\ data_mdb' = 1 => data_mdb = 1
  BY <1>1, <1>3, InodeAssumption DEF Inode
<1>5. /\ pc \in PCs \ Closed /\ pc \in {"version", "unlock"}
      /\ pc = "unlock" => e.pc = "reopen_data"
  BY <1>1 DEF Closed, PCs, Starting, Clearing
<1> HIDE DEF pc
<1>6. /\ EnvInv(f) /\ f.pc = pc /\ f.data = data_mdb' /\ f.rw = 0 /\ f.lock = e.lock
  BY <1>2, <1>4, <1>5 DEF Go, EnvInv, EnvType, Handles
<1> HIDE DEF f
<1>7. VersionAt(f, content', data_mdb')
  <2>1. pc = "unlock" => data_mdb' # 1
    BY <1>2, <1>4, <1>5 DEF VersionAt
  <2>2. \A i \in Inode : content[i] = "wrong" => i = 1
    BY Zenon DEF IInv, Versions
  <2>3. QED
    BY <1>1, <1>4, <1>5, <1>6, <2>1, <2>2 DEF VersionAt
<1>8. Files'
  BY Zenon, <1>1, <1>4, <1>6, Facts, FilesKept
<1>9. ASSUME Alone
      PROVE  Alone'
  <2>1. env'[p] = f /\ \A q \in Procs : q # p => env'[q] = env[q]
    BY <1>1, Frame
  <2>2. /\ f.pc \in Clearing => e.pc \in Clearing
        /\ f.pc \notin Starting
    BY Zenon, <1>5, <1>6 DEF Clearing, Starting
  <2>3. \A q \in Procs : ClearsAlone(q)'
    BY <1>1, <1>9, <2>2, ClearsKept
  <2>4. e.lock = lock_mdb /\ lock_mdb # 0
    BY <1>1, <1>9 DEF Alone, NamesAt
  <2>5. \A q \in Procs : q # p => env[q].pc # "unlink_data" /\ env[q].pc # "unlink_lock"
    BY <1>1, <1>9 DEF Alone, ClearsAlone, Clearing, Starting
  <2>6. \A q \in Procs : NamesAt(q)
    BY Zenon, <1>9 DEF Alone
  <2>7. \A q \in Procs : q # p /\ env[q].data = data_mdb' => env[q].lock = lock_mdb
    <3>1. \A q \in Procs : env[q].data \in Int /\ env[q].data <= inodes
      BY SMTT(30), InodeAssumption DEF IInv, Files, EnvInv, EnvType, Inode
    <3>2. QED
      BY <1>1, <1>3, <1>4, <2>6, <3>1 DEF NamesAt
  <2>8. ASSUME NEW q \in Procs, q # p
        PROVE  NamesAt(q)'
    <3>1. env'[q] = env[q] /\ env[q].pc # "unlink_data" /\ env[q].pc # "unlink_lock" /\ NamesAt(q)
      BY <2>1, <2>5, <2>6, <2>8
    <3>2. env[q].data = data_mdb' => env[q].lock = lock_mdb
      BY Zenon, <2>7, <2>8
    <3>3. ASSUME NEW r \in Procs, env[q].data # 0, env[q].data = env'[r].data
          PROVE  env[q].lock = env'[r].lock
      BY Zenon, <1>6, <2>1, <2>4, <3>1, <3>2, <3>3 DEF NamesAt
    <3>4. QED
      BY <1>1, <3>1, <3>2, <3>3 DEF NamesAt
  <2>9. NamesAt(p)'
    <3>1. \A r \in Procs : env'[r].data = data_mdb' => env'[r].lock = lock_mdb
      BY Zenon, <1>6, <2>1, <2>4, <2>7
    <3>2. QED
      BY <1>1, <1>5, <1>6, <2>1, <2>4, <3>1 DEF NamesAt
  <2>10. QED
    BY <1>1, <2>3, <2>4, <2>8, <2>9 DEF Alone
<1>10. QED
  BY <1>1, <1>4, <1>6, <1>7, <1>8, <1>9, StepKeeps

\* The end of cdb_clear() gives .cachelock back.
LEMMA UnlockKeeps ==
  ASSUME IInv, NEW p \in Procs, Unlock(p), disturbed' = (disturbed \/ Overlap(env'))
  PROVE  IInv'
<1> DEFINE e == env[p]
           f == Go(e, e.next)
<1>1. /\ e.pc = "unlock" /\ Step(p, f) /\ cachelock' = FALSE
      /\ data_mdb' = data_mdb /\ lock_mdb' = lock_mdb /\ content' = content /\ inodes' = inodes
  BY Zenon DEF Unlock, At, Cleared
<1>2. EnvInv(e) /\ e.data # 0 /\ VersionAt(e, content, data_mdb)
  BY Zenon, <1>1, Facts DEF Closed
<1>3. e.next \in {"run", "version", "stamp"} /\ e.next \in PCs \ Closed
  BY Zenon, <1>2 DEF PCs, Closed, EnvInv, EnvType
<1>4. EnvInv(f) /\ f.pc = e.next /\ f.data = e.data /\ f.lock = e.lock /\ f.rw = e.rw
  BY Zenon, <1>2, <1>3, GoKeeps
<1> HIDE DEF f
<1>5. VersionAt(f, content', data_mdb')
  BY Zenon, <1>1, <1>2, <1>3, <1>4 DEF VersionAt
<1>6. Files'
  BY <1>1, <1>4, Facts, FilesKept
<1>7. ASSUME Alone
      PROVE  Alone'
  <2>1. (data_mdb' # 0 => lock_mdb' # 0) /\ \A q \in Procs : NamesAt(q)'
    BY <1>1, <1>3, <1>4, <1>7, NamesKept
  <2>2. e.pc \in Clearing /\ f.pc \notin Clearing /\ f.pc \notin Starting
    BY <1>1, <1>3, <1>4 DEF Clearing, Starting
  <2>3. \A q \in Procs : ClearsAlone(q)'
    BY Zenon, <1>1, <1>7, <2>2, ClearsKept
  <2>4. QED
    BY <2>1, <2>3 DEF Alone
<1>8. f.rw = 0 \/ (f.lock = env[p].lock /\ Writer(p))
  BY <1>4, Facts
<1>9. QED
  BY <1>1, <1>4, <1>5, <1>6, <1>7, <1>8, StepKeeps

\* A process without an environment has no handles.
LEMMA OffFacts ==
  ASSUME NEW pc \in {"off", "open_lock"}
  PROVE  LET f == Go(Off, pc)
         IN EnvInv(f) /\ f.pc = pc /\ f.data = 0 /\ f.rw = 0
<1>1. 0 \in Inode
  BY InodeAssumption DEF Inode
<1>2. pc \in PCs /\ pc \in Closed
  BY DEF PCs, Closed, Starting
<1>3. QED
  BY <1>1, <1>2 DEF Go, Off, EnvInv, EnvType, Handles

\* kr_cache_open() takes .cachelock away: it is nobody's, or a clear is disturbed.
LEMMA StartKeeps ==
  ASSUME IInv, NEW p \in Procs, Start(p), disturbed' = (disturbed \/ Overlap(env'))
  PROVE  IInv'
<1> DEFINE f == Go(Off, "open_lock")
<1>1. /\ Step(p, f) /\ cachelock' = FALSE
      /\ data_mdb' = data_mdb /\ lock_mdb' = lock_mdb /\ content' = content /\ inodes' = inodes
  BY DEF Start
<1>2. EnvInv(f) /\ f.pc = "open_lock" /\ f.data = 0 /\ f.rw = 0
  BY OffFacts
<1> HIDE DEF f
<1>3. VersionAt(f, content', data_mdb')
  BY <1>2 DEF VersionAt
<1>4. f.data \in 0..inodes'
  <2>1. inodes \in Int /\ inodes >= 1
    BY Facts
  <2>2. QED
    BY SMTT(30), <1>1, <1>2, <2>1
<1>5. Files'
  BY <1>1, <1>4, Facts, FilesKept
<1>6. ASSUME Alone, ~Overlap(env')
      PROVE  Alone'
  <2>1. env'[p] = f /\ \A q \in Procs : q # p => env'[q] = env[q]
    BY <1>1, Frame
  <2>2. (data_mdb' # 0 => lock_mdb' # 0) /\ \A q \in Procs : NamesAt(q)'
    BY <1>1, <1>2, <1>6, NamesKept
  <2>3. env'[p].pc \in Starting
    BY <1>2, <2>1 DEF Starting
  <2>4. \A q \in Procs : env'[q].pc \notin Clearing
    BY Zenon, <1>6, <2>3 DEF Overlap
  <2>5. QED
    BY <2>2, <2>4 DEF Alone, ClearsAlone
<1>7. QED
  BY <1>1, <1>2, <1>3, <1>5, <1>6, StepKeeps

\* kr_cache_close() commits and forgets all handles.
LEMMA StopKeeps ==
  ASSUME IInv, NEW p \in Procs, Stop(p), disturbed' = (disturbed \/ Overlap(env'))
  PROVE  IInv'
<1> DEFINE e == env[p]
           f == CloseEnv(e, "off")
<1>1. /\ Step(p, f) /\ cachelock' = cachelock
      /\ data_mdb' = data_mdb /\ lock_mdb' = lock_mdb /\ inodes' = inodes
  BY DEF Stop, names
<1>2. PICK ok \in BOOLEAN : content' = Commit(e, ok)
  BY DEF Stop, Outcomes
<1>3. EnvInv(e)
  BY Facts
<1>4. EnvInv(f) /\ f.pc = "off" /\ f.data = 0 /\ f.rw = 0
  <2>1. 0 \in Inode /\ "off" \in PCs /\ "off" \in Closed
    BY InodeAssumption DEF Inode, PCs, Closed
  <2>2. QED
    BY ZenonT(30), <1>3, <2>1 DEF CloseEnv, Off, EnvInv, EnvType, Handles
<1> HIDE DEF f
<1>5. /\ content' \in [Inode -> Contents]
      /\ \A i \in Inode : content'[i] = "wrong" => content[i] = "wrong"
  BY <1>2, <1>3, CommitKeeps
<1>6. VersionAt(f, content', data_mdb')
  BY <1>4 DEF VersionAt
<1>7. f.data \in 0..inodes'
  <2>1. inodes \in Int /\ inodes >= 1
    BY Facts
  <2>2. QED
    BY <1>1, <1>4, <2>1
<1>8. Files'
  BY <1>1, <1>5, <1>7, Facts, FilesKept
<1>9. ASSUME Alone
      PROVE  Alone'
  <2>1. (data_mdb' # 0 => lock_mdb' # 0) /\ \A q \in Procs : NamesAt(q)'
    BY <1>1, <1>4, <1>9, NamesKept
  <2>2. f.pc \notin Clearing /\ f.pc \notin Starting
    BY <1>4 DEF Clearing, Starting
  <2>3. \A q \in Procs : ClearsAlone(q)'
    BY Zenon, <1>1, <1>9, <2>2, ClearsKept
  <2>4. QED
    BY <2>1, <2>3 DEF Alone
<1>10. QED
  BY <1>1, <1>4, <1>5, <1>6, <1>8, <1>9, StepKeeps

\* A process that is killed leaves files and .cachelock as they are, or without data.mdb.
LEMMA CrashKeeps ==
  ASSUME IInv, NEW p \in Procs, Crash(p), disturbed' = (disturbed \/ Overlap(env'))
  PROVE  IInv'
<1> DEFINE f == Go(Off, "off")
<1>1. f = Off
  BY DEF Go, Off
<1>2. /\ Step(p, f) /\ cachelock' = cachelock /\ data_mdb' \in {0, data_mdb}
      /\ lock_mdb' = lock_mdb /\ content' = content /\ inodes' = inodes
  BY <1>1 DEF Crash
<1>3. EnvInv(f) /\ f.pc = "off" /\ f.data = 0 /\ f.rw = 0
  BY OffFacts
<1> HIDE DEF f
<1>4. VersionAt(f, content', data_mdb') /\ (data_mdb' = 1 => data_mdb = 1)
  BY <1>2, <1>3 DEF VersionAt
<1>5. f.data \in 0..inodes' /\ data_mdb' \in 0..inodes'
  <2>1. inodes \in Int /\ inodes >= 1 /\ data_mdb \in 0..inodes
    BY Zenon, Facts
  <2>2. QED
    BY SMTT(30), <1>2, <1>3, <2>1
<1>6. Files'
  BY Zenon, <1>2, <1>5, Facts, FilesKept
<1>7. ASSUME Alone
      PROVE  Alone'
  <2>1. (data_mdb' # 0 => lock_mdb' # 0) /\ \A q \in Procs : NamesAt(q)'
    BY <1>2, <1>3, <1>7, NamesKept
  <2>2. f.pc \notin Clearing /\ f.pc \notin Starting
    BY <1>3 DEF Clearing, Starting
  <2>3. \A q \in Procs : ClearsAlone(q)'
    BY <1>2, <1>7, <2>2, ClearsKept
  <2>4. QED
    BY <2>1, <2>3 DEF Alone
<1>8. QED
  BY <1>2, <1>3, <1>4, <1>6, <1>7, StepKeeps

-----------------------------------------------------------------------------
(* The theorems.                                                            *)

\* The invariant holds before any process has started.
LEMMA CdbInit == Init => IInv
<1> SUFFICES ASSUME Init PROVE IInv
  OBVIOUS
<1>1. Off = Go(Off, "off")
  BY DEF Go, Off
<1>2. DOMAIN env = Procs /\ \A p \in Procs : env[p] = Off
  BY DEF Init
<1>3. EnvInv(Off) /\ Off.pc = "off" /\ Off.data = 0 /\ Off.rw = 0
  BY <1>1, OffFacts
<1>4. PICK c \in {"right", "wrong"} : content = [i \in Inode |-> IF i = 1 THEN c ELSE "empty"]
  BY DEF Init
<1>5. content \in [Inode -> Contents] /\ \A i \in Inode : content[i] = "wrong" => i = 1
  BY <1>4 DEF Contents
<1>6. Files
  <2>1. inodes = 2 /\ data_mdb = 1 /\ lock_mdb = 2 /\ cachelock \in BOOLEAN /\ disturbed = FALSE
    BY DEF Init
  <2>2. inodes \in Inode
    BY <2>1, InodeAssumption DEF Inode
  <2>3. \A p \in Procs : env[p].data <= inodes
    BY <1>2, <1>3, <2>1
  <2>4. inodes >= 1 /\ data_mdb \in 0..inodes /\ lock_mdb \in 0..inodes
    BY <2>1
  <2>5. cachelock \in BOOLEAN /\ disturbed \in BOOLEAN
    BY <2>1
  <2>6. QED
    BY <1>5, <2>2, <2>3, <2>4, <2>5, Zenon DEF Files
<1>7. Writers
  BY <1>2, <1>3 DEF Writers
<1>8. Versions
  BY <1>2, <1>3, <1>5 DEF Versions, VersionAt
<1>9. Alone
  BY <1>2, <1>3 DEF Init, Alone, ClearsAlone, NamesAt, Clearing, Starting
<1>10. QED
  BY <1>2, <1>3, <1>6, <1>7, <1>8, <1>9 DEF IInv

\* Every step of every process keeps it.
LEMMA CdbNext == IInv /\ [Next]_vars => IInv'
<1> SUFFICES ASSUME IInv, [Next]_vars PROVE IInv'
  BY Zenon
<1>1. CASE UNCHANGED vars
  <2>1. UNCHANGED <<env, data_mdb, lock_mdb, cachelock, content, inodes, disturbed>>
    BY Zenon, <1>1 DEF vars
  <2>2. Files' /\ Writers' /\ Versions'
    BY Zenon, <2>1 DEF IInv, Files, Writers, Versions
  <2>3. Alone => Alone'
    BY Zenon, <2>1 DEF Alone, ClearsAlone, NamesAt
  <2>4. QED
    BY Zenon, <2>1, <2>2, <2>3 DEF IInv
<1>2. CASE Next
  <2>1. disturbed' = (disturbed \/ Overlap(env'))
    BY <1>2 DEF Next
  <2>2. PICK p \in Procs :
          \/ Read(p) \/ ReadLeq(p) \/ CdbSync(p) \/ Remove(p) \/ Write(p) \/ ClearEverything(p)
          \/ Drop(p) \/ Lock(p) \/ Stat(p) \/ UnlinkData(p) \/ UnlinkLock(p)
          \/ OpenLock(p) \/ OpenData(p) \/ Unlock(p) \/ Version(p) \/ Stamp(p)
          \/ Start(p) \/ Stop(p) \/ Crash(p)
    BY <1>2 DEF Next
  <2>3. CASE Read(p) \/ ReadLeq(p) \/ CdbSync(p) \/ Remove(p) \/ Write(p) \/ ClearEverything(p)
    BY <2>1, <2>3, ReadKeeps, ReadLeqKeeps, CdbSyncKeeps, RemoveKeeps, WriteKeeps, ClearEverythingKeeps
  <2>4. CASE Drop(p) \/ Lock(p) \/ Stat(p) \/ UnlinkData(p) \/ UnlinkLock(p)
    BY <2>1, <2>4, DropKeeps, LockKeeps, StatKeeps, UnlinkDataKeeps, UnlinkLockKeeps
  <2>5. CASE OpenLock(p) \/ OpenData(p) \/ Unlock(p) \/ Version(p) \/ Stamp(p)
    BY <2>1, <2>5, OpenLockKeeps, OpenDataKeeps, UnlockKeeps, VersionKeeps, StampKeeps
  <2>6. CASE Start(p) \/ Stop(p) \/ Crash(p)
    BY <2>1, <2>6, StartKeeps, StopKeeps, CrashKeeps
  <2>7. QED
    BY <2>2, <2>3, <2>4, <2>5, <2>6
<1>3. QED
  BY <1>1, <1>2

\* The invariant of the cache database is inductive.
THEOREM CdbInductive == Spec => []IInv
BY CdbInit, CdbNext, PTL DEF Spec

\* However many processes read, write, clear and die, a cached transaction or cursor
\* of cdb_lmdb.c is one of the open file and none of its assertions fails.
THEOREM HandlesAreCurrent == Spec => []HandlesCurrent
<1>1. IInv => HandlesCurrent
  <2> SUFFICES ASSUME IInv, NEW p \in Procs
               PROVE  ~env[p].aborted /\ \A f \in {"ro", "rw", "ro_curs"} : env[p][f] \in {0, env[p].data}
    BY DEF HandlesCurrent
  <2>1. EnvInv(env[p])
    BY DEF IInv
  <2>2. ~env[p].aborted
    BY <2>1 DEF EnvInv, Handles
  <2>3. /\ env[p]["ro"] \in {0, env[p].data} /\ env[p]["rw"] \in {0, env[p].data}
        /\ env[p]["ro_curs"] \in {0, env[p].data}
    BY <2>1 DEF EnvInv, Handles
  <2>4. QED
    BY <2>2, <2>3
<1>2. QED
  BY <1>1, CdbInductive, PTL

\* Unless a process starts during it, a fallback clear unlinks its own data file only.
THEOREM ClearsRemoveOwn == Spec => []RemovesOwn
<1>1. IInv => RemovesOwn
  BY DEF IInv, Alone, NamesAt, RemovesOwn, At
<1>2. QED
  BY <1>1, CdbInductive, PTL

\* Unless a process starts during a clear, no data file is written by two processes at once.
THEOREM OneWriter == Spec => []SoleWriter
<1>1. IInv => SoleWriter
  <2> SUFFICES ASSUME IInv, disturbed # TRUE, NEW p \in Procs, NEW q \in Procs, p # q,
                      env[p].rw # 0, env[p].rw = env[q].rw
               PROVE  FALSE
    BY DEF SoleWriter, IInv, Files
  <2>1. env[p].data = env[p].rw /\ env[q].data = env[q].rw
    BY DEF IInv, EnvInv, Handles
  <2>2. env[p].lock = env[q].lock
    BY <2>1 DEF IInv, Alone, NamesAt
  <2>3. QED
    BY <2>2 DEF IInv, Writers
<1>2. QED
  BY <1>1, CdbInductive, PTL

\* No process serves a cache of a wrong version, but one whose purge failed.
THEOREM VersionsAreChecked == Spec => []VersionChecked
<1>1. IInv => VersionChecked
  BY DEF IInv, Versions, VersionAt, VersionChecked, At
<1>2. QED
  BY <1>1, CdbInductive, PTL
=============================================================================
