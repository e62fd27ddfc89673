-------------------------------- MODULE Trie --------------------------------
(***************************************************************************)
(* The trie of lib/generic/trie.c, which holds the tasks of a session, the *)
(* outgoing queries and the servers of a zone cut.                         *)
(*                                                                         *)
(* A key is a sequence of bytes and a byte two nibbles.  A branch tests    *)
(* one nibble of the byte "index"; its bitmap is the set of the values     *)
(* that occur, plus one, where 0 is the end of the key, and its twigs are  *)
(* the nodes for them.  A pointer to a node is the path of twig numbers,   *)
(* from 0, that leads to it, and the stack of the code is the path to its  *)
(* top.                                                                    *)
(***************************************************************************)
EXTENDS Integers, Sequences, FiniteSets

CONSTANTS
  Keys,         \* sequences of bytes
  Nibble        \* the values of a nibble, 16 in the code

VARIABLES
  root, weight, \* the trie
  contents      \* the keys inserted and not deleted

vars == <<root, weight, contents>>

NULL == <<-1>>
Nowhere == <<-1>>
Leaf(key) == [flags |-> 0, key |-> key, val |-> NULL]
EmptyRoot == [flags |-> 3]

Init == root = EmptyRoot /\ weight = 0 /\ contents = {}

-----------------------------------------------------------------------------
(* Nodes.                                                                   *)

IsBranch(t) == t.flags # 0
Nibbit(k, flags) == 1 + (IF flags = 1 THEN k \div Nibble ELSE k % Nibble)
Twigbit(t, key) == IF t.index >= Len(key) THEN 0 ELSE Nibbit(key[t.index + 1], t.flags)
Hastwig(t, b) == b \in t.bitmap
Twigoff(t, b) == Cardinality({c \in t.bitmap : c < b})
Twig(t, i) == t.twigs[i + 1]

\* The node at a path, and the trie with another one there.
RECURSIVE At(_, _)
At(t, path) == IF path = <<>> THEN t ELSE At(Twig(t, Head(path)), Tail(path))

RECURSIVE Replace(_, _, _)
Replace(t, path, n) ==
  IF path = <<>> THEN n
  ELSE [t EXCEPT !.twigs[Head(path) + 1] = Replace(@, Tail(path), n)]

Node(path) == At(root, path)
Up(path) == SubSeq(path, 1, Len(path) - 1)
Last(path) == path[Len(path)]

-----------------------------------------------------------------------------
(* Searching.                                                               *)

RECURSIVE EqualBelow(_, _)
EqualBelow(path, key) ==
  LET t == Node(path)
      b == Twigbit(t, key)
  IN IF ~IsBranch(t) THEN IF t.key = key THEN path ELSE Nowhere
     ELSE IF ~Hastwig(t, b) THEN Nowhere
     ELSE EqualBelow(Append(path, Twigoff(t, b)), key)

FindEqual(key) == IF weight = 0 THEN Nowhere ELSE EqualBelow(<<>>, key)

RECURSIVE FirstLeaf(_)
FirstLeaf(path) == IF IsBranch(Node(path)) THEN FirstLeaf(Append(path, 0)) ELSE path

RECURSIVE LastLeaf(_)
LastLeaf(path) ==
  IF IsBranch(Node(path)) THEN LastLeaf(Append(path, Cardinality(Node(path).bitmap) - 1)) ELSE path

FindFirst == IF weight = 0 THEN Nowhere ELSE FirstLeaf(<<>>)

\* Some leaf with the longest matching prefix: any twig will do where the key
\* has none.
RECURSIVE SomeLeaf(_, _)
SomeLeaf(path, key) ==
  LET t == Node(path)
      b == Twigbit(t, key)
  IN IF ~IsBranch(t) THEN path
     ELSE SomeLeaf(Append(path, IF Hastwig(t, b) THEN Twigoff(t, b) ELSE 0), key)

Char(key, index) == IF index < Len(key) THEN key[index + 1] ELSE -256

FirstDiffering(k1, k2) ==
  CHOOSE i \in 0..Len(k1) :
    /\ \A j \in 0..(i - 1) : Char(k1, j) = Char(k2, j)
    /\ Char(k1, i) # Char(k2, i) \/ i = Len(k1)

\* Which half of the byte differs; a key that ends differs in the first.
Half(k1, k2) ==
  IF k1 # -256 /\ k2 # -256 /\ k1 \div Nibble = k2 \div Nibble THEN 2 ELSE 1

RECURSIVE GoUp(_, _, _)
GoUp(path, index, flags) ==
  LET t == Node(Up(path))
  IN IF path = <<>> \/ t.index < index \/ (t.index = index /\ t.flags < flags) THEN path
     ELSE GoUp(Up(path), index, flags)

\* The branching point: the node below it, and where the key leaves the trie.
FindBranch(key) ==
  LET leaf == SomeLeaf(<<>>, key)
      lkey == Node(leaf).key
      index == FirstDiffering(key, lkey)
      first == Char(lkey, index)
      flags == IF key = lkey THEN 0 ELSE Half(Char(key, index), first)
  IN [path |-> IF flags = 0 THEN leaf ELSE GoUp(leaf, index, flags),
      index |-> index, flags |-> flags, first |-> first]

\* The assertions at the end of ns_find_branch().
BranchAsserted(bp) ==
  LET t == Node(bp.path)
      p == Node(Up(bp.path))
  IN /\ IsBranch(t) => t.index > bp.index \/ (t.index = bp.index /\ t.flags >= bp.flags)
     /\ bp.path # <<>> =>
          \/ p.index < bp.index
          \/ p.index = bp.index /\ (p.flags < bp.flags \/ (p.flags = 1 /\ bp.flags = 0))

RECURSIVE NextUp(_)
NextUp(path) ==
  IF path = <<>> THEN Nowhere
  ELSE IF Last(path) + 1 < Cardinality(Node(Up(path)).bitmap)
  THEN FirstLeaf(Append(Up(path), Last(path) + 1))
  ELSE NextUp(Up(path))

NextLeaf(path) == IF IsBranch(Node(path)) THEN FirstLeaf(path) ELSE NextUp(path)

RECURSIVE PrevUp(_)
PrevUp(path) ==
  IF path = <<>> THEN Nowhere
  ELSE IF Last(path) > 0 THEN LastLeaf(Append(Up(path), Last(path) - 1))
  ELSE PrevUp(Up(path))

\* A key that is a prefix counts as one before.
PrevLeaf(path) == IF Hastwig(Node(path), 0) THEN Append(path, 0) ELSE PrevUp(path)

Point(t, bp) == IsBranch(t) /\ t.index = bp.index /\ t.flags = bp.flags

\* Mutant: a branch for the key does not make it the one before.
StepLeqSame(path, key, less) ==
  LET t == Node(path)
      b == Twigbit(t, key)
      i == IF Hastwig(t, b) THEN Twigoff(t, b) ELSE Twigoff(t, b) - 1
  IN IF i >= 0 THEN LastLeaf(Append(path, i)) ELSE PrevLeaf(path)

\* The first step that does not match, and the child before it if the key is less.
StepLeq(path, key, less) ==
  LET t == Node(path)
      b == Twigbit(t, key)
      i == Twigoff(t, b) - (IF Hastwig(t, b) /\ ~less THEN 0 ELSE 1)
  IN IF i >= 0 THEN LastLeaf(Append(path, i)) ELSE PrevLeaf(path)

LeqFrom(bp, key) ==
  LET less == Char(key, bp.index) < bp.first
  IN IF bp.flags = 0 THEN bp.path
     ELSE IF Point(Node(bp.path), bp) THEN StepLeq(bp.path, key, less)
     ELSE IF bp.path # <<>> THEN StepLeq(Up(bp.path), key, less)
     ELSE IF less THEN Nowhere ELSE LastLeaf(<<>>)

\* trie_get_leq()
GetLeq(key) == IF weight = 0 THEN Nowhere ELSE LeqFrom(FindBranch(key), key)

-----------------------------------------------------------------------------
(* Operations.                                                              *)

\* A branch gets another leaf.
Insert(t, key) ==
  LET b == Twigbit(t, key)
      s == Twigoff(t, b)
  IN [t EXCEPT !.bitmap = @ \cup {b},
               !.twigs = SubSeq(@, 1, s) \o <<Leaf(key)>> \o SubSeq(@, s + 1, Len(@))]

\* A branch with two twigs comes in place of a node.
Fork(t, key, bp) ==
  LET new == [flags |-> bp.flags, index |-> bp.index, bitmap |-> {}, twigs |-> <<>>]
      b1 == Twigbit(new, key)
      b2 == IF bp.first = -256 THEN 0 ELSE Nibbit(bp.first, bp.flags)
  IN [new EXCEPT !.bitmap = {b1, b2}, !.twigs = IF b1 < b2 THEN <<Leaf(key), t>> ELSE <<t, Leaf(key)>>]

\* trie_get_ins(): a node for the key, in the place of t.
Inserted(t, key, bp) ==
  IF bp.flags = 0 THEN t ELSE IF Point(t, bp) THEN Insert(t, key) ELSE Fork(t, key, bp)

\* The caller stores its value, here the key, in the place that it gets.
Written(t, path, key) == Replace(t, path, [At(t, path) EXCEPT !.val = key])

InsertAt(key, bp) ==
  LET n == Inserted(Node(bp.path), key, bp)
      place == IF bp.flags = 0 THEN bp.path ELSE Append(bp.path, Twigoff(n, Twigbit(n, key)))
  IN /\ root' = Written(Replace(root, bp.path, n), place, key)
     /\ weight' = IF bp.flags = 0 THEN weight ELSE weight + 1

GetIns(key) ==
  /\ IF weight = 0 THEN root' = Written(Leaf(key), <<>>, key) /\ weight' = 1
     ELSE InsertAt(key, FindBranch(key))
  /\ contents' = contents \cup {key}

\* The leaf at a path, whose bit is b, goes; a branch with two twigs becomes the
\* other one.
Without(p, ci, b) ==
  IF Cardinality(p.bitmap) = 2 THEN Twig(p, 1 - ci)
  ELSE [p EXCEPT !.bitmap = @ \ {b}, !.twigs = SubSeq(@, 1, ci) \o SubSeq(@, ci + 2, Len(@))]

DelFound(path, b) ==
  /\ root' = IF path = <<>> THEN EmptyRoot
             ELSE Replace(root, Up(path), Without(Node(Up(path)), Last(path), b))
  /\ weight' = weight - 1

Del(key) ==
  LET path == FindEqual(key)
  IN /\ path # Nowhere
     /\ DelFound(path, IF path = <<>> THEN 0 ELSE Twigbit(Node(Up(path)), key))
     /\ contents' = contents \ {key}

LowestBit(t) == CHOOSE b \in t.bitmap : \A c \in t.bitmap : b <= c

DelFirst ==
  LET path == FindFirst
  IN /\ path # Nowhere
     /\ DelFound(path, IF path = <<>> THEN 0 ELSE LowestBit(Node(Up(path))))
     /\ contents' = contents \ {Node(path).key}

Clear ==
  /\ weight # 0
  /\ root' = EmptyRoot /\ weight' = 0 /\ contents' = {}

Next ==
  \/ \E key \in Keys : GetIns(key) \/ Del(key)
  \/ DelFirst
  \/ Clear

Spec == Init /\ [][Next]_vars

-----------------------------------------------------------------------------
(* Properties.                                                              *)

\* trie_it_begin() and trie_it_next(): the leaves from one on.
RECURSIVE Walk(_)
Walk(path) == IF path = Nowhere THEN <<>> ELSE <<Node(path)>> \o Walk(NextLeaf(path))

\* key_cmp(): the order of memcmp(), a prefix before what it is a prefix of.
Less(k1, k2) ==
  k1 # k2 /\ LET i == FirstDiffering(k1, k2) IN Char(k1, i) < Char(k2, i)

KeyOf(path) == IF path = Nowhere THEN NULL ELSE Node(path).key

Greatest(S) == IF S = {} THEN NULL ELSE CHOOSE k \in S : \A j \in S : ~Less(k, j)

\* The trie is a sorted map, whatever was inserted and deleted before and
\* however the keys share prefixes and nibbles: a search finds exactly the keys
\* inserted and not deleted, each with the value stored in its place, iteration
\* goes through them in order, the search for the less or equal finds the
\* greatest one, and the assertions of ns_find_branch() hold for every key.
TrieIsMap ==
  /\ weight = Cardinality(contents)
  /\ \A k \in Keys :
       /\ KeyOf(FindEqual(k)) = IF k \in contents THEN k ELSE NULL
       /\ KeyOf(GetLeq(k)) = Greatest({j \in contents : ~Less(k, j)})
       /\ weight # 0 => BranchAsserted(FindBranch(k))
  /\ LET all == Walk(FindFirst)
     IN /\ {all[i].key : i \in DOMAIN all} = contents
        /\ \A i \in DOMAIN all : all[i].val = all[i].key
        /\ \A i \in 2..Len(all) : Less(all[i - 1].key, all[i].key)
=============================================================================
