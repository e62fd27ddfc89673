------------------------------- MODULE Btree --------------------------------
(***************************************************************************)
(* The B+tree of LMDB (contrib/lmdb/mdb.c) under one write transaction of  *)
(* kresd: mdb_put() with MDB_RESERVE, mdb_del(), and the search of         *)
(* cdb_read_leq() with a cursor that is kept between calls.                *)
(*                                                                         *)
(* A page is the sequence of its nodes.  A node has a key, 0 for the empty *)
(* key of the first node of a branch, and v: the page below or the size of *)
(* the data.  d is the data of a leaf's node: what the caller wrote where  *)
(* mdb_put() told it to, Unset before. Sizes are in units of the node header. *)
(* A cursor has the pages and the indices, from 0, of its stack; what is   *)
(* above mc_snum stays in the arrays and is used again.                    *)
(*                                                                         *)
(* All pages are dirty: which page a write goes to is for module Lmdb.     *)
(***************************************************************************)
EXTENDS Integers, Sequences, FiniteSets, FiniteSetsExt, SequencesExt, TLC

CONSTANTS
  Keys,         \* numbers from 1
  KSize,        \* the size of each key
  DSizes,       \* the sizes that the data of each key may have
  pmax,         \* the space of a page
  MaxDepth,     \* bound on the depth of the tree
  MaxPages      \* bound on the pages

VARIABLES
  db,           \* the tree and the tracked cursors
  contents,     \* what was put and not deleted
  curs,         \* the cursor that reads
  found         \* the result of the last search with it

vars == <<db, contents, curs, found>>

Levels == 0..MaxDepth
NoCursor ==
  [mc_pg |-> [l \in Levels |-> 0], mc_ki |-> [l \in Levels |-> 0], mc_snum |-> 0,
   init |-> FALSE, tracked |-> FALSE]
Nothing == 0
Unset == -1
NoSearch == [key |-> 0, node |-> Nothing]

EmptyDb ==
  [pages |-> <<>>, md_root |-> 0, md_depth |-> 0, md_entries |-> 0, md_leaf_pages |-> 0,
   md_branch_pages |-> 0, mt_cursors |-> <<>>, failed |-> FALSE]

Init == db = EmptyDb /\ contents = <<>> /\ curs = NoCursor /\ found = NoSearch

-----------------------------------------------------------------------------
(* Pages and nodes.                                                         *)

KeyLen(k) == IF k = 0 THEN 0 ELSE KSize[k]
NodeSize(leaf, n) == 1 + KeyLen(n.k) + (IF leaf THEN n.v ELSE 0)
Used(p) == FoldLeft(LAMBDA a, n : a + NodeSize(p.leaf, n), 0, p.nodes)
SizeLeft(p) == pmax - Used(p)
NumKeys(p) == Len(p.nodes)

Branch(k, pgno) == [k |-> k, v |-> pgno, d |-> Unset]

Fail(d) == [d EXCEPT !.failed = TRUE]
Fresh(d) == Min((1..MaxPages) \ DOMAIN d.pages)

PageNew(d, leaf) ==
  [d EXCEPT !.pages = @ @@ (Fresh(d) :> [leaf |-> leaf, nodes |-> <<>>]),
            !.md_leaf_pages = IF leaf THEN @ + 1 ELSE @,
            !.md_branch_pages = IF leaf THEN @ ELSE @ + 1]

PageFree(d, pgno) == [d EXCEPT !.pages = [n \in DOMAIN @ \ {pgno} |-> @[n]] @@ <<>>]

NodeAdd(d, pgno, i, n) ==
  IF SizeLeft(d.pages[pgno]) < NodeSize(d.pages[pgno].leaf, n) THEN Fail(d)
  ELSE [d EXCEPT !.pages[pgno].nodes = InsertAt(@, i + 1, n)]

NodeDel(d, pgno, i) == [d EXCEPT !.pages[pgno].nodes = RemoveAt(@, i + 1)]

-----------------------------------------------------------------------------
(* Searching.                                                               *)

Top(m) == m.mc_snum - 1
PageOf(d, m) == d.pages[m.mc_pg[Top(m)]]
KiOf(m) == m.mc_ki[Top(m)]

\* The binary search: rc is how the key compares with the node i looked at last.
RECURSIVE Bisect(_, _, _, _, _, _)
Bisect(nodes, key, low, high, i, rc) ==
  IF low > high THEN [i |-> IF rc > 0 THEN i + 1 ELSE i, exact |-> rc = 0]
  ELSE LET mid == (low + high) \div 2
           k == nodes[mid + 1].k
       IN IF key = k THEN [i |-> mid, exact |-> TRUE]
          ELSE IF key > k THEN Bisect(nodes, key, mid + 1, high, mid, 1)
          ELSE Bisect(nodes, key, low, mid - 1, mid, -1)

NodeSearch(p, key) == Bisect(p.nodes, key, IF p.leaf THEN 0 ELSE 1, NumKeys(p) - 1, 0, 0)

\* The child of a branch to follow.
Follow(p, r) ==
  IF r.i >= NumKeys(p) THEN NumKeys(p) - 1 ELSE IF r.exact THEN r.i ELSE r.i - 1

Push(m, pgno) ==
  [m EXCEPT !.mc_pg[m.mc_snum] = pgno, !.mc_ki[m.mc_snum] = 0, !.mc_snum = @ + 1]

Descend(d, m, i) == Push([m EXCEPT !.mc_ki[Top(m)] = i], PageOf(d, m).nodes[i + 1].v)

RECURSIVE PageSearchRoot(_, _, _)
PageSearchRoot(d, m, key) ==
  IF PageOf(d, m).leaf THEN [m EXCEPT !.init = TRUE]
  ELSE PageSearchRoot(d, Descend(d, m, Follow(PageOf(d, m), NodeSearch(PageOf(d, m), key))), key)

PageSearch(d, m, key) == PageSearchRoot(d, Push([m EXCEPT !.mc_snum = 0], d.md_root), key)

\* mdb_page_search_lowest(): the lowest key below a page.
RECURSIVE Lowest(_, _)
Lowest(d, pgno) ==
  IF d.pages[pgno].leaf THEN d.pages[pgno].nodes[1].k ELSE Lowest(d, d.pages[pgno].nodes[1].v)

\* mdb_cursor_sibling(): r is the outcome for the parent, after the pop.
AtSibling(d, r, right) ==
  IF ~r.ok THEN [ok |-> FALSE, m |-> [r.m EXCEPT !.mc_snum = @ + 1]]
  ELSE LET below == Descend(d, r.m, KiOf(r.m))
       IN [ok |-> TRUE,
           m |-> IF right THEN below
                 ELSE [below EXCEPT !.mc_ki[Top(below)] = NumKeys(PageOf(d, below)) - 1]]

Pop(m) == [m EXCEPT !.mc_snum = @ - 1]

RECURSIVE Sibling(_, _, _)
Sibling(d, m, right) ==
  IF m.mc_snum < 2 THEN [ok |-> FALSE, m |-> m]
  ELSE IF (IF right THEN KiOf(Pop(m)) + 1 >= NumKeys(PageOf(d, Pop(m))) ELSE KiOf(Pop(m)) = 0)
  THEN AtSibling(d, Sibling(d, Pop(m), right), right)
  ELSE AtSibling(d, [ok |-> TRUE, m |-> [Pop(m) EXCEPT !.mc_ki[Top(Pop(m))] =
                                           IF right THEN @ + 1 ELSE @ - 1]], right)

\* mdb_cursor_set() with MDB_SET_RANGE, after "set2".
InLeaf(d, m, r) ==
  LET at == [m EXCEPT !.mc_ki[Top(m)] = r.i]
  IN IF r.i >= NumKeys(PageOf(d, m)) THEN Sibling(d, at, TRUE) ELSE [ok |-> TRUE, m |-> at]

SetRange(d, m, key) ==
  LET p == PageOf(d, m)
      search == PageSearch(d, m, key)
      first == p.nodes[1].k
      last == p.nodes[NumKeys(p)].k
      at(i) == [m EXCEPT !.mc_ki[Top(m)] = i]
  IN CASE ~m.init -> IF d.md_root = 0 THEN [ok |-> FALSE, m |-> m]
                     ELSE InLeaf(d, search, NodeSearch(PageOf(d, search), key))
       [] m.init /\ key = first -> [ok |-> TRUE, m |-> at(0)]
       [] m.init /\ key # first /\ NumKeys(p) > 1 /\ key = last ->
            [ok |-> TRUE, m |-> at(NumKeys(p) - 1)]
       [] m.init /\ first < key /\ key < last -> InLeaf(d, m, NodeSearch(p, key))
       [] m.init /\ key > last ->
            IF \A l \in 0..(Top(m) - 1) : m.mc_ki[l] >= NumKeys(d.pages[m.mc_pg[l]]) - 1
            THEN [ok |-> FALSE, m |-> at(NumKeys(p))]
            ELSE InLeaf(d, search, NodeSearch(PageOf(d, search), key))
       [] m.init /\ key < first ->
            IF Top(m) = 0 THEN [ok |-> TRUE, m |-> at(0)]
            ELSE InLeaf(d, search, NodeSearch(PageOf(d, search), key))

\* Mutant: the leaf before is not looked at.
PrevInLeaf(d, m) ==
  IF KiOf(m) = 0 THEN [ok |-> FALSE, m |-> m]
  ELSE [ok |-> TRUE, m |-> [m EXCEPT !.mc_ki[Top(m)] = @ - 1]]

Prev(d, m) ==
  IF KiOf(m) = 0 THEN Sibling(d, m, FALSE)
  ELSE [ok |-> TRUE, m |-> [m EXCEPT !.mc_ki[Top(m)] = @ - 1]]

NodeAt(d, m) == PageOf(d, m).nodes[KiOf(m) + 1]

-----------------------------------------------------------------------------
(* mdb_page_split(), in steps on z: the locals, with the database z.d, the  *)
(* cursor z.c of the call and the cursor z.e ("mn") to the right sibling.   *)

RECURSIVE Split(_, _, _, _)

\* Cursors e > c are temporary ones.
PushCursor(d, m) == [d EXCEPT !.mt_cursors = Append(@, m)]
PopCursor(d) == [d EXCEPT !.mt_cursors = Front(@)]

\* A new root above the page.
Raised(m, pp) ==
  [m EXCEPT !.mc_pg = (0 :> pp) @@ [l \in Levels \ {0} |-> @[l - 1]],
            !.mc_ki = (0 :> 0) @@ [l \in Levels \ {0} |-> @[l - 1]],
            !.mc_snum = @ + 1]

NewRoot(d, c, pp, mp) ==
  [PageNew(d, FALSE) EXCEPT !.md_root = pp, !.md_depth = @ + 1,
                            !.pages[pp].nodes = <<Branch(0, mp)>>,
                            !.mt_cursors[c] = Raised(@, pp)]

\* The sum of sizes on the way to the split point decides it.
SplitUp(sizes, k) ==
  Min({i \in 0..(k - 1) : i = k - 1 \/ FoldLeft(+, 0, SubSeq(sizes, 1, i + 1)) > pmax})

SplitDown(sizes, nkeys, k) ==
  1 + Max({i \in (k + 1)..nkeys : i = k + 1 \/ FoldLeft(+, 0, SubSeq(sizes, i + 1, nkeys + 1)) > pmax})

SplitIndex(p, newindx, n) ==
  LET nkeys == NumKeys(p)
      middle == (nkeys + 1) \div 2
      all == InsertAt(p.nodes, newindx + 1, n)
      sizes == [i \in 1..(nkeys + 1) |-> NodeSize(p.leaf, all[i])]
  IN IF ~(nkeys < 20 \/ NodeSize(p.leaf, n) > pmax \div 16 \/ newindx >= nkeys) THEN middle
     ELSE IF newindx >= nkeys THEN SplitUp(sizes, nkeys)
     ELSE IF newindx <= middle THEN SplitUp(sizes, middle + 1 + (IF p.leaf THEN 1 ELSE 0))
     ELSE SplitDown(sizes, nkeys, middle - 1)

\* The right sibling, a new root if need be, and the cursor "mn".
WithMn(z) ==
  LET mc == z.d.mt_cursors[z.c]
  IN [z EXCEPT !.ptop = Top(mc) - 1,
               !.d = PushCursor(z.d, [mc EXCEPT !.mc_pg[Top(mc)] = z.rp,
                                                !.mc_ki[Top(mc) - 1] = @ + 1, !.tracked = FALSE])]

SplitStart(d, c, n, replace) ==
  LET mc == d.mt_cursors[c]
      mp == mc.mc_pg[Top(mc)]
      d1 == PageNew(d, d.pages[mp].leaf)
      raise == Top(mc) < 1
  IN WithMn([d |-> IF raise THEN NewRoot(d1, c, Fresh(d1), mp) ELSE d1,
             c |-> c, e |-> Len(d.mt_cursors) + 1, n |-> n, replace |-> replace,
             mp |-> mp, rp |-> Fresh(d), newindx |-> KiOf(mc), ptop |-> 0,
             split |-> SplitIndex(d.pages[mp], KiOf(mc), n),
             new_root |-> raise, did_split |-> FALSE])

All(z) == InsertAt(z.d.pages[z.mp].nodes, z.newindx + 1, z.n)
Separator(z) == Branch(All(z)[z.split + 1].k, z.rp)
Mc(z) == z.d.mt_cursors[z.c]
Mn(z) == z.d.mt_cursors[z.e]

\* The right page has another parent: has the left one, too?
TakeStack(mc, mn, last) ==
  [mc EXCEPT !.mc_pg = [l \in 0..last |-> mn.mc_pg[l]] @@ @,
             !.mc_ki = [l \in 0..last |-> mn.mc_ki[l]] @@ @]

Strayed(z) ==
  /\ Mn(z).mc_pg[z.ptop] # Mc(z).mc_pg[z.ptop]
  /\ Mc(z).mc_ki[z.ptop] >= NumKeys(z.d.pages[Mc(z).mc_pg[z.ptop]])

LeftParent(z) ==
  IF ~Strayed(z) THEN z
  ELSE [z EXCEPT !.d.mt_cursors[z.c] =
          IF Mn(z).mc_ki[z.ptop] # 0
          THEN [TakeStack(@, Mn(z), z.ptop) EXCEPT !.mc_ki[z.ptop] = @ - 1]
          ELSE Sibling(z.d, TakeStack(@, Mn(z), z.ptop), FALSE).m]

\* After the parent was split; a new root moves all levels.
ParentSplit(z, d) ==
  LeftParent([z EXCEPT !.d = [d EXCEPT !.mt_cursors[z.e].tracked = FALSE], !.did_split = TRUE,
                       !.ptop = IF d.mt_cursors[z.c].mc_snum > Mc(z).mc_snum THEN @ + 1 ELSE @])

SplitParent(z) ==
  IF SizeLeft(z.d.pages[Mn(z).mc_pg[z.ptop]]) < NodeSize(FALSE, Separator(z))
  THEN ParentSplit(z, Split([z.d EXCEPT !.mt_cursors[z.e] = [Pop(@) EXCEPT !.tracked = TRUE]],
                            z.e, Separator(z), FALSE))
  ELSE [z EXCEPT !.d = NodeAdd(@, Mn(z).mc_pg[z.ptop], Mn(z).mc_ki[z.ptop], Separator(z))]

\* The nodes go to the two pages; the first key of a branch is left out.
Unkeyed(leaf, nodes) == IF leaf THEN nodes ELSE [nodes EXCEPT ![1].k = 0]
Half(z, first, last) ==
  LET leaf == z.d.pages[z.mp].leaf
  IN [leaf |-> leaf, nodes |-> Unkeyed(leaf, SubSeq(All(z), first, last))]

MoveNodes(z) ==
  [z EXCEPT !.d.pages = [@ EXCEPT ![z.mp] = Half(z, 1, z.split),
                                  ![z.rp] = Half(z, z.split + 1, Len(All(z)))]]

\* The cursor of the call goes to the new node.
Follows(z) ==
  [z EXCEPT !.d.mt_cursors[z.c] =
     IF z.newindx < z.split
     THEN [@ EXCEPT !.mc_pg[Top(@)] = z.mp, !.mc_ki[Top(@)] = z.newindx]
     ELSE [@ EXCEPT !.mc_pg[Top(@)] = z.rp, !.mc_ki[Top(@)] = z.newindx - z.split,
                    !.mc_ki[z.ptop] = @ + 1]]

StillValid(z) ==
  IF z.newindx >= z.split /\ Strayed(z)
  THEN [z EXCEPT !.d.mt_cursors[z.c] = TakeStack(@, Mn(z), z.ptop)] ELSE z

\* The other tracked cursors.
RaisedToo(z, m) ==
  IF ~z.new_root THEN m
  ELSE [Raised(m, Mc(z).mc_pg[0]) EXCEPT !.mc_ki[0] =
          IF m.mc_ki[0] >= NumKeys(z.d.pages[z.mp]) THEN 1 ELSE 0]

InHalf(z, m, ki) ==
  LET t == Top(Mc(z))
      nkeys == NumKeys(z.d.pages[z.mp])
  IN IF ki >= nkeys
     THEN [TakeStack(m, Mn(z), t - 1) EXCEPT !.mc_pg[t] = z.rp, !.mc_ki[t] = ki - nkeys]
     ELSE [m EXCEPT !.mc_ki[t] = ki]

SplitOther(z, m) ==
  LET t == Top(Mc(z))
  IN IF Top(m) >= t /\ m.mc_pg[t] = z.mp
     THEN InHalf(z, m, IF m.mc_ki[t] >= z.newindx /\ ~z.replace THEN m.mc_ki[t] + 1 ELSE m.mc_ki[t])
     ELSE IF /\ ~z.did_split /\ Top(m) >= z.ptop
             /\ m.mc_pg[z.ptop] = Mc(z).mc_pg[z.ptop] /\ m.mc_ki[z.ptop] >= Mc(z).mc_ki[z.ptop]
     THEN [m EXCEPT !.mc_ki[z.ptop] = @ + 1] ELSE m

\* Op for the tracked cursors but c.
Others(d, c, Op(_)) ==
  [d EXCEPT !.mt_cursors = [i \in {i \in DOMAIN @ : i # c /\ @[i].tracked} |-> Op(@[i])] @@ @]

SplitOthers(z) ==
  Others(z.d, z.c, LAMBDA m : IF z.new_root /\ m.mc_pg[0] # z.mp THEN m
                              ELSE SplitOther(z, RaisedToo(z, m)))

Fits(d, S) == \A n \in S : SizeLeft(d.pages[n]) >= 0

SplitEnd(z) ==
  IF Fits(z.d, {z.mp, z.rp}) THEN PopCursor(SplitOthers(z)) ELSE PopCursor(Fail(z.d))

Split(d, c, n, replace) ==
  SplitEnd(StillValid(Follows(MoveNodes(SplitParent(SplitStart(d, c, n, replace))))))

-----------------------------------------------------------------------------
(* Deleting.                                                                *)

RECURSIVE Rebalance(_, _)

\* At the cursor c; a longer key may need a split.
UpdateKey(d, c, key) ==
  LET m == d.mt_cursors[c]
      pgno == m.mc_pg[Top(m)]
      delta == KeyLen(key) - KeyLen(NodeAt(d, m).k)
  IN IF delta > 0 /\ SizeLeft(d.pages[pgno]) < delta
     THEN Split(NodeDel(d, pgno, KiOf(m)), c, Branch(key, NodeAt(d, m).v), TRUE)
     ELSE [d EXCEPT !.pages[pgno].nodes[KiOf(m) + 1].k = key]

\* With a temporary cursor.
UpdateKeyAt(d, m, key) ==
  PopCursor(UpdateKey(PushCursor(d, m), Len(d.mt_cursors) + 1, key))

\* A first node that moved: the parent's separator, and the empty key.
UpdateSeparator(d, m) ==
  IF m.mc_ki[Top(m) - 1] = 0 THEN d
  ELSE UpdateKeyAt(d, [Pop(m) EXCEPT !.tracked = TRUE], PageOf(d, m).nodes[1].k)

EmptyFirst(d, pgno) ==
  IF d.pages[pgno].leaf THEN d ELSE [d EXCEPT !.pages[pgno].nodes[1].k = 0]

\* Mutant: the separator of a page that lost its first node stays.
UpdateSeparatorsNot(d, c) ==
  LET m == d.mt_cursors[c]
  IN IF KiOf(m) # 0 THEN d ELSE EmptyFirst(d, m.mc_pg[Top(m)])

UpdateSeparators(d, c) ==
  LET m == d.mt_cursors[c]
  IN IF KiOf(m) # 0 THEN d ELSE EmptyFirst(UpdateSeparator(d, m), m.mc_pg[Top(m)])

\* A branch gets its lowest key back before another node comes before it.
KeyFirst(d, m) ==
  IF PageOf(d, m).leaf \/ KiOf(m) # 0 THEN d
  ELSE UpdateKeyAt(d, [m EXCEPT !.tracked = FALSE], Lowest(d, m.mc_pg[Top(m)]))

MovedNode(d, m) ==
  IF KiOf(m) = 0 /\ ~PageOf(d, m).leaf
  THEN [NodeAt(d, m) EXCEPT !.k = Lowest(d, m.mc_pg[Top(m)])] ELSE NodeAt(d, m)

MoveOther(src, dst, fromleft, m) ==
  LET t == Top(src)
      to(up) == [m EXCEPT !.mc_pg[t] = dst.mc_pg[t], !.mc_ki[t] = dst.mc_ki[t],
                          !.mc_ki[t - 1] = @ + up]
  IN CASE Top(m) < t -> m
       [] Top(m) >= t /\ fromleft ->
            IF m.mc_pg[t] = src.mc_pg[t] /\ m.mc_ki[t] = src.mc_ki[t] THEN to(1) ELSE m
       [] Top(m) >= t /\ ~fromleft ->
            IF m.mc_pg[t] # src.mc_pg[t] THEN m
            ELSE IF m.mc_ki[t] = 0 THEN to(-1) ELSE [m EXCEPT !.mc_ki[t] = @ - 1]

\* With fromleft, the cursors at the destination go up, all but cdst.
BumpOther(src, dst, m) ==
  IF Top(m) >= Top(src) /\ m.mc_pg[Top(src)] = dst.mc_pg[Top(src)] /\ m.mc_ki[Top(src)] >= KiOf(dst)
  THEN [m EXCEPT !.mc_ki[Top(src)] = @ + 1] ELSE m

MoveOthers(d, s, t, fromleft) ==
  LET src == d.mt_cursors[s]
      dst == d.mt_cursors[t]
  IN Others(IF fromleft THEN Others(d, t, LAMBDA m : BumpOther(src, dst, m)) ELSE d,
            s, LAMBDA m : MoveOther(src, dst, fromleft, m))

\* mdb_node_move() from the cursor s to the cursor t.
NodeMove(d, s, t, fromleft) ==
  LET src == d.mt_cursors[s]
      dst == d.mt_cursors[t]
      added == NodeAdd(KeyFirst(d, dst), dst.mc_pg[Top(dst)], KiOf(dst), MovedNode(d, src))
  IN UpdateSeparators(UpdateSeparators(
       MoveOthers(NodeDel(added, src.mc_pg[Top(src)], KiOf(src)), s, t, fromleft), s), t)

MergeOther(src, dst, nkeys, m) ==
  LET t == Top(src)
  IN CASE m.mc_snum < src.mc_snum -> m
       [] m.mc_snum >= src.mc_snum /\ m.mc_pg[t] = src.mc_pg[t] ->
            [m EXCEPT !.mc_pg[t] = dst.mc_pg[t], !.mc_ki[t] = @ + nkeys,
                      !.mc_ki[t - 1] = dst.mc_ki[t - 1]]
       [] OTHER ->
            IF m.mc_pg[t - 1] = src.mc_pg[t - 1] /\ m.mc_ki[t - 1] > src.mc_ki[t - 1]
            THEN [m EXCEPT !.mc_ki[t - 1] = @ - 1] ELSE m

\* All nodes of the source, with a key for the first.
Merged(d, src, dst) ==
  LET from == src.mc_pg[Top(src)]
      nodes == [i \in 1..NumKeys(d.pages[from]) |-> MovedNode(d, [src EXCEPT !.mc_ki[Top(src)] = i - 1])]
  IN [d EXCEPT !.pages[dst.mc_pg[Top(dst)]].nodes = @ \o nodes]

\* The source leaves its parent and is loose.
Unlinked(d, src) ==
  LET up == Pop(src)
      parent == up.mc_pg[Top(up)]
      unlinked == NodeDel(d, parent, KiOf(up))
      leaf == PageOf(d, src).leaf
  IN [PageFree(IF KiOf(up) = 0 THEN EmptyFirst(unlinked, parent) ELSE unlinked, src.mc_pg[Top(src)])
        EXCEPT !.md_leaf_pages = IF leaf THEN @ - 1 ELSE @,
               !.md_branch_pages = IF leaf THEN @ ELSE @ - 1]

\* The parent of the destination is rebalanced, which may lower the tree.
Restack(d, t, snum, depth) ==
  [d EXCEPT !.mt_cursors[t].mc_snum = snum + d.md_depth - depth]

RebalanceParent(d, t) ==
  Restack(Rebalance([d EXCEPT !.mt_cursors[t] = Pop(@)], t),
          t, d.mt_cursors[t].mc_snum, d.md_depth)

\* mdb_page_merge() of the page of the cursor s into that of the cursor t.
PageMerge(d, s, t) ==
  LET src == d.mt_cursors[s]
      dst == d.mt_cursors[t]
      nkeys == NumKeys(PageOf(d, dst))
      merged == Merged(d, src, dst)
  IN IF ~Fits(merged, {dst.mc_pg[Top(dst)]}) THEN Fail(d)
     ELSE RebalanceParent(Others(Unlinked(merged, src), s,
                                 LAMBDA m : MergeOther(src, dst, nkeys, m)), t)

\* A root without keys, and one with a single page below.
Emptied(d, c) ==
  [PageFree(d, d.md_root) EXCEPT !.md_root = 0, !.md_depth = 0, !.md_leaf_pages = 0,
                                 !.mt_cursors[c].mc_snum = 0, !.mt_cursors[c].init = FALSE]

Lowered(m, snum) ==
  [m EXCEPT !.mc_pg = [l \in 0..(MaxDepth - 1) |-> @[l + 1]] @@ @,
            !.mc_ki = [l \in 0..(MaxDepth - 1) |-> @[l + 1]] @@ @,
            !.mc_snum = snum]

Collapsed(d, c) ==
  LET root == d.pages[d.md_root].nodes[1].v
      lowered == Others(d, c, LAMBDA m : IF m.mc_pg[0] = d.md_root THEN Lowered(m, m.mc_snum - 1) ELSE m)
  IN [PageFree(lowered, d.md_root)
        EXCEPT !.md_root = root, !.md_depth = @ - 1, !.md_branch_pages = @ - 1,
               !.mt_cursors[c] = [Lowered(@, @.mc_snum) EXCEPT !.mc_pg[0] = root]]

MinKeys(p) == IF p.leaf THEN 1 ELSE 2
Threshold(p) == IF p.leaf THEN 250 ELSE 1
FullEnough(p) == 1000 * Used(p) >= Threshold(p) * pmax

SetKi(d, c, ki) == [d EXCEPT !.mt_cursors[c].mc_ki[Top(d.mt_cursors[c])] = ki]

\* The neighbour ("mn"): the left one if there is one.
Neighbour(d, m) ==
  LET ptop == Top(m) - 1
      left == m.mc_ki[ptop] # 0
      ki == IF left THEN m.mc_ki[ptop] - 1 ELSE 1
      pgno == d.pages[m.mc_pg[ptop]].nodes[ki + 1].v
  IN [m EXCEPT !.mc_ki[ptop] = ki, !.mc_pg[Top(m)] = pgno,
               !.mc_ki[Top(m)] = IF left THEN NumKeys(d.pages[pgno]) - 1 ELSE 0,
               !.tracked = FALSE]

\* Merge with the left one, whose cursor then becomes that of the call.
MergeLeft(d, c, e) ==
  LET merged == PageMerge([d EXCEPT !.mt_cursors[e].tracked = TRUE,
                                    !.mt_cursors[e].mc_ki[Top(d.mt_cursors[e])] = @ + 1], c, e)
  IN [merged EXCEPT !.mt_cursors[c] = [merged.mt_cursors[e] EXCEPT !.tracked = @]]

\* Take a node from the neighbour, or merge with it.
Balanced(d, c, e, oldki, fromleft) ==
  LET p == PageOf(d, d.mt_cursors[e])
  IN IF FullEnough(p) /\ NumKeys(p) > MinKeys(p)
     THEN SetKi(NodeMove(d, e, c, fromleft), c, IF fromleft THEN oldki + 1 ELSE oldki)
     ELSE IF fromleft THEN SetKi(MergeLeft(d, c, e), c, oldki + NumKeys(p))
     ELSE SetKi(PageMerge(d, e, c), c, oldki)

Rebalance(d, c) ==
  LET m == d.mt_cursors[c]
      p == PageOf(d, m)
      fromleft == m.mc_ki[Top(m) - 1] # 0
  IN IF FullEnough(p) /\ NumKeys(p) >= MinKeys(p) THEN d
     ELSE IF m.mc_snum < 2
     THEN IF NumKeys(p) = 0 THEN Emptied(d, c)
          ELSE IF ~p.leaf /\ NumKeys(p) = 1 THEN Collapsed(d, c) ELSE d
     ELSE PopCursor(Balanced(
            PushCursor(SetKi(d, c, IF fromleft THEN 0 ELSE NumKeys(p)), Neighbour(d, m)),
            c, Len(d.mt_cursors) + 1, KiOf(m), fromleft))

-----------------------------------------------------------------------------
(* The operations.                                                          *)

\* The call's own cursor, on the leaf of the key.
Searched(d, key) ==
  LET m == PageSearch(d, NoCursor, key)
      r == NodeSearch(PageOf(d, m), key)
  IN [m |-> [m EXCEPT !.mc_ki[Top(m)] = r.i, !.tracked = TRUE], exact |-> r.exact]

\* A new database gets a root; a key that exists is replaced.
NewLeaf(d) ==
  [PageNew(d, TRUE) EXCEPT !.md_root = Fresh(d), !.md_depth = @ + 1,
     !.mt_cursors = <<[Push(NoCursor, Fresh(d)) EXCEPT !.init = TRUE, !.tracked = TRUE]>>]

Place(d, n, replace) ==
  LET m == d.mt_cursors[1]
  IN IF SizeLeft(PageOf(d, m)) < NodeSize(TRUE, n) THEN Split(d, 1, n, replace)
     ELSE NodeAdd(d, m.mc_pg[Top(m)], KiOf(m), n)

Counted(d) == [d EXCEPT !.md_entries = @ + 1]

PutAt(d, r, n) ==
  IF ~r.exact THEN Counted(Place(d, n, FALSE))
  ELSE IF NodeAt(d, r.m).v = n.v THEN d
  ELSE Place(NodeDel(d, r.m.mc_pg[Top(r.m)], KiOf(r.m)), n, TRUE)

MdbPut(d, n) ==
  IF d.md_root = 0 THEN Counted(Place(NewLeaf(d), n, FALSE))
  ELSE PutAt([d EXCEPT !.mt_cursors = <<Searched(d, n.k).m>>], Searched(d, n.k), n)

\* The caller writes its data through the pointer that it got.
WriteReserved(d, data) ==
  LET m == d.mt_cursors[1]
  IN [d EXCEPT !.pages[m.mc_pg[Top(m)]].nodes[KiOf(m) + 1].d = data, !.mt_cursors = <<>>]

Put(key, size) ==
  /\ db' = WriteReserved(MdbPut(db, [k |-> key, v |-> size, d |-> Unset]), size)
  /\ contents' = [k \in DOMAIN contents \cup {key} |-> IF k = key THEN size ELSE contents[k]]
  /\ curs' = NoCursor /\ found' = NoSearch

MdbDel(d, m) ==
  Rebalance([NodeDel(d, m.mc_pg[Top(m)], KiOf(m)) EXCEPT !.md_entries = @ - 1,
                                                        !.mt_cursors = <<m>>], 1)

Del(key) ==
  /\ db.md_root # 0 /\ Searched(db, key).exact
  /\ db' = [MdbDel(db, Searched(db, key).m) EXCEPT !.mt_cursors = <<>>]
  /\ contents' = [k \in DOMAIN contents \ {key} |-> contents[k]]
  /\ curs' = NoCursor /\ found' = NoSearch

\* cdb_read_leq(): the first entry that is not less, and else the one before.
Leq(d, r, key) ==
  IF ~r.ok \/ NodeAt(d, r.m).k = key THEN r ELSE Prev(d, r.m)

ReadLeq(key) ==
  LET r == Leq(db, SetRange(db, curs, key), key)
  IN /\ curs' = r.m
     /\ found' = [key |-> key, node |-> IF r.ok THEN NodeAt(db, r.m).k ELSE Nothing]
     /\ UNCHANGED <<db, contents>>

Next ==
  \E key \in Keys :
    \/ \E size \in DSizes[key] : Put(key, size)
    \/ Del(key)
    \/ ReadLeq(key)

Spec == Init /\ [][Next]_vars

-----------------------------------------------------------------------------
(* Properties.                                                              *)

\* The nodes of the leaves below a page, from left to right.
RECURSIVE Entries(_)
Entries(pgno) ==
  LET p == db.pages[pgno]
  IN IF p.leaf THEN p.nodes
     ELSE FoldLeft(LAMBDA s, n : s \o Entries(n.v), <<>>, p.nodes)

\* The database holds exactly what was put and not deleted, in the order of the
\* keys, and every entry has its own data: the place that mdb_put() gives to the
\* caller is that of the key, however the page was split for it.
HoldsContents ==
  LET all == IF db.md_root = 0 THEN <<>> ELSE Entries(db.md_root)
  IN /\ {all[i].k : i \in DOMAIN all} = DOMAIN contents
     /\ \A i \in 2..Len(all) : all[i - 1].k < all[i].k
     /\ \A i \in DOMAIN all : all[i].v = contents[all[i].k] /\ all[i].d = all[i].v
     /\ db.md_entries = Len(all)

\* Is the tree below pgno whole, for keys from low to below high, and n deep?
RECURSIVE Sound(_, _, _, _)
Sound(pgno, low, high, n) ==
  LET p == db.pages[pgno]
      last == Len(p.nodes)
  IN /\ p.leaf <=> n = 1
     /\ SizeLeft(p) >= 0
     /\ last > IF p.leaf THEN 0 ELSE 1
     /\ \A i \in 1..last :
          \/ i = 1 /\ ~p.leaf /\ p.nodes[i].k = 0
          \/ low <= p.nodes[i].k /\ p.nodes[i].k < high /\ (p.leaf \/ low < p.nodes[i].k)
     /\ ~p.leaf =>
          \A i \in 1..last :
            \E from \in {IF i = 1 THEN low ELSE p.nodes[i].k}, to \in {IF i = last THEN high ELSE p.nodes[i + 1].k} :
              Sound(p.nodes[i].v, from, to, n - 1)

\* After every operation the pages are a search tree in which every search ends
\* in the right leaf: no assertion fails and no node misses its room, all leaves
\* are md_depth deep, no branch has less than two children, the separators
\* separate, and the page counters count the pages of the tree, of which none is
\* lost.
TreeSound ==
  /\ ~db.failed
  /\ db.md_root # 0 => Sound(db.md_root, 0, Max(Keys) + 1, db.md_depth)
  /\ db.md_leaf_pages = Cardinality({n \in DOMAIN db.pages : db.pages[n].leaf})
  /\ db.md_branch_pages = Cardinality({n \in DOMAIN db.pages : ~db.pages[n].leaf})
  /\ Cardinality(DOMAIN db.pages) =
       (IF db.md_root = 0 THEN 0 ELSE 1)
       + MapThenSumSet(LAMBDA n : IF db.pages[n].leaf THEN 0 ELSE Len(db.pages[n].nodes), DOMAIN db.pages)

\* "Less-or-equal search": what cdb_read_leq() finds, wherever the search before
\* left its cursor, is the greatest key that is not greater.  (It finds nothing
\* for a key after the last one.)
LeqIsGreatest ==
  found.key # 0 =>
    LET below == {k \in DOMAIN contents : k <= found.key}
        beyond == \A k \in DOMAIN contents : k < found.key
    IN found.node = IF below = {} \/ beyond THEN Nothing ELSE Max(below)
=============================================================================
