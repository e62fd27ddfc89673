----------------------------- MODULE MCStorage ------------------------------
(* Lmdb and Btree for TLC.  A behaviour is one of either: the variables of  *)
(* the other stay as they are.                                             *)
EXTENDS Btree

CONSTANTS k1, k2,
          Procs, Names, Big, me_maxpg, MaxTxn, Changes, MaxCrashes

VARIABLES part,
          pages, metas, mti_txnid, readers, wmutex, env, history

L == INSTANCE Lmdb WITH Keys <- Names

lvars == <<pages, metas, mti_txnid, readers, wmutex, env, history>>

\* What transactions do: one key or two, a key in a page of its own and one in
\* the leaf, one that goes again, a cache that is cleared.
MCChanges ==
  {<< <<"put", k1>> >>, << <<"put", k1>>, <<"put", k2>> >>, << <<"del", k1>>, <<"put", k2>> >>,
   << <<"put", k2>>, <<"del", k2>> >>, << <<"drop">>, <<"put", k1>> >>}

\* Keys of two sizes, and data of two sizes for one of them.
MCKSize == [k \in Keys |-> IF k % 3 = 0 THEN 2 ELSE 1]
MCDSizes == [k \in Keys |-> IF k = 4 THEN {0, 1} ELSE {1}]

MCInit == L!Init /\ Init /\ part \in {"lmdb", "btree"}

MCNext ==
  \/ part = "lmdb" /\ L!Next /\ UNCHANGED <<part, vars>>
  \/ part = "btree" /\ Next /\ UNCHANGED <<part, lvars>>

MCSpec == MCInit /\ [][MCNext]_<<part, lvars, vars>>

Symmetry == Permutations(Procs)

-----------------------------------------------------------------------------
(* What the future depends on.  In Lmdb: not what free pages held, nor what *)
(* transactions left that nobody can see any more.  In Btree: not the       *)
(* numbers of the pages.                                                    *)

Reached(root) ==
  IF root = 0 THEN {}
  ELSE {root} \cup (IF pages[root][1] = "main" THEN {pages[root][2][k] : k \in DOMAIN pages[root][2]} ELSE {})

Seen == UNION ({Reached(metas[i].main) \cup Reached(metas[i].free) : i \in 0..1}
               \cup {Reached(env[p].root) : p \in Procs}
               \cup {Reached(env[p].txn.main) \cup Reached(env[p].txn.free) : p \in {q \in Procs : env[q].txn # L!NoTxn}})

SeenTxns == {metas[0].of, metas[1].of} \cup {env[p].of : p \in Procs}

RECURSIVE Shape(_)
Shape(n) ==
  LET p == db.pages[n]
  IN IF p.leaf THEN p.nodes ELSE [i \in DOMAIN p.nodes |-> <<p.nodes[i].k, Shape(p.nodes[i].v)>>]

View1 ==
  IF part = "lmdb"
  THEN <<[n \in Seen |-> pages[n]], metas, mti_txnid, readers, wmutex, env, [t \in SeenTxns |-> history[t]]>>
  ELSE <<IF db.md_root = 0 THEN <<>> ELSE Shape(db.md_root), curs.mc_ki, curs.mc_snum, curs.init, found,
         db.md_depth, db.md_entries, db.md_leaf_pages, db.md_branch_pages, db.failed,
         Cardinality(DOMAIN db.pages)>>

-----------------------------------------------------------------------------

\* A reader sees what the transaction of its snapshot left; and no page is lost,
\* used twice, or free and in use (Lmdb).
DatabaseSound == L!SnapshotsIntact /\ L!FileSound

\* The tree is a search tree and holds what was put (Btree).
TreeHolds == TreeSound /\ HoldsContents
=============================================================================
