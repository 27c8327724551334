-------------------------------- MODULE Btree -------------------------------
(***************************************************************************)
(* The B+tree of lib/keyvals_btree.c, which holds one bucket of a mapper:  *)
(* insertion of pairs and of whole records, splits that climb to the root, *)
(* iteration along the leaves and the shallow free after a reduce task.    *)
(* A bucket has a single writer, so one call is one step.                  *)
(*                                                                         *)
(* The heap is a sequence of nodes; a node is named by its index and NULL  *)
(* is 0.  keys holds the first nkeys keys of arr; vals holds, in a leaf,   *)
(* the number of values of each key, and in an internal node its           *)
(* Len(keys) + 1 children.                                                 *)
(***************************************************************************)
EXTENDS SortAlgo

CONSTANTS Order,      \* order of pchandler.h
          Key,        \* the keys, integers for their order
          MaxPairs    \* bound: pairs inserted

ASSUME BtreeAssumption == /\ Order \in Nat \ {0} /\ Key \subseteq Int
                          /\ MaxPairs \in Nat

Null == 0

VARIABLES heap,       \* the nodes of the tree
          root, nlevel, nkeys,   \* btree_t
          leaked,     \* nodes of freed trees that are still allocated
          npairs,     \* history: pairs inserted so far
          given       \* history: values inserted per key since the last free

vars == <<heap, root, nlevel, nkeys, leaked, npairs, given>>

Init == /\ heap = <<>> /\ root = Null /\ nlevel = 0 /\ nkeys = 0
        /\ leaked = 0 /\ npairs = 0
        /\ given = [k \in Key |-> 0]

NewNode == [keys |-> <<>>, vals |-> <<>>, parent |-> Null, next |-> Null]

(* s with x inserted at the index pos of the C array.                      *)
PutAt(s, pos, x) == SubSeq(s, 1, pos) \o <<x>> \o SubSeq(s, pos + 1, Len(s))

From(s, pos) == SubSeq(s, pos + 1, Len(s))
UpTo(s, n) == SubSeq(s, 1, n)

-----------------------------------------------------------------------------
(* The functions of the source on a tree t = [heap, root, nlevel, nkeys].  *)

Tree == [heap |-> heap, root |-> root, nlevel |-> nlevel, nkeys |-> nkeys]

(* The leaf for a key: one bsearch_lar per level.                          *)
Descend(t, key) ==
  FoldLeft(LAMBDA n, i :
             At(t.heap[n].vals,
                bsearch_lar(key, t.heap[n].keys, 0, Len(t.heap[n].keys), FALSE)),
           t.root, [i \in 1 .. t.nlevel - 1 |-> i])

(* get_leaf: an empty tree gets its first leaf.                            *)
WithLeaf(t) ==
  IF t.nlevel # 0 THEN t
  ELSE [heap |-> Append(t.heap, NewNode), root |-> Len(t.heap) + 1,
        nlevel |-> 1, nkeys |-> 0]

(* btree_split_internal, and the fix of the moved children's parents.      *)
SplitInternal(t, n) ==
  LET old == t.heap[n]
      new == Len(t.heap) + 1
      moved == From(old.vals, Order + 1)
      sib == [NewNode EXCEPT !.keys = From(old.keys, Order + 1),
                             !.vals = moved]
      cut == [t.heap EXCEPT ![n].keys = UpTo(old.keys, Order),
                            ![n].vals = UpTo(old.vals, Order + 1)]
  IN  [t EXCEPT !.heap =
         Append([m \in DOMAIN cut |->
                   IF m \in Range(moved) THEN [cut[m] EXCEPT !.parent = new]
                                         ELSE cut[m]], sib)]

(* btree_insert_index when left is the root.                               *)
GrowRoot(t, key, left, right) ==
  LET new == Len(t.heap) + 1
      h == Append(t.heap, [NewNode EXCEPT !.keys = <<key>>,
                                          !.vals = <<left, right>>])
  IN  [t EXCEPT !.heap = [h EXCEPT ![left].parent = new, ![right].parent = new],
                !.root = new, !.nlevel = @ + 1]

(* btree_insert_index when left has a parent: the key goes to ikey, the    *)
(* new sibling behind it.                                                  *)
InsertIntoParent(t, key, left, right) ==
  LET p == t.heap[left].parent
      ikey == bsearch_lar(key, t.heap[p].keys, 0, Len(t.heap[p].keys), FALSE)
  IN  [t EXCEPT !.heap[p].keys = PutAt(@, ikey, key),
                !.heap[p].vals = PutAt(@, ikey + 1, right),
                !.heap[right].parent = p]

(* btree_insert_index, one call per level from the leaf's parent up.       *)
InsertIndex(t0, key0, left0, right0) ==
  LET call(acc, i) ==
        IF acc.done THEN acc
        ELSE IF acc.t.heap[acc.left].parent = Null
        THEN [acc EXCEPT !.t = GrowRoot(acc.t, acc.key, acc.left, acc.right),
                         !.done = TRUE]
        ELSE LET t == InsertIntoParent(acc.t, acc.key, acc.left, acc.right)
                 p == t.heap[acc.left].parent
             IN  IF Len(t.heap[p].keys) = 2 * Order + 1
                 THEN [t |-> SplitInternal(t, p), done |-> FALSE,
                       key |-> At(t.heap[p].keys, Order),
                       left |-> p, right |-> Len(t.heap) + 1]
                 ELSE [acc EXCEPT !.t = t, !.done = TRUE]
  IN  FoldLeft(call, [t |-> t0, done |-> FALSE, key |-> key0, left |-> left0,
                      right |-> right0], [i \in 1 .. t0.nlevel |-> i]).t

(* split_leaf: the upper half moves to a new right sibling, which is made  *)
(* known to the parent first and linked into the chain of leaves then.     *)
SplitLeaf(t, n) ==
  LET old == t.heap[n]
      right == Len(t.heap) + 1
      sib == [NewNode EXCEPT !.keys = From(old.keys, Order + 1),
                             !.vals = From(old.vals, Order + 1)]
      h == Append([t.heap EXCEPT ![n].keys = UpTo(old.keys, Order + 1),
                                 ![n].vals = UpTo(old.vals, Order + 1)], sib)
      up == InsertIndex([t EXCEPT !.heap = h], sib.keys[1], n, right)
  IN  [up EXCEPT !.heap[n].next = right, !.heap[right].next = old.next]

(* insert_key and the values, then a split if the leaf is full.            *)
InsertKeyAt(t, n, pos, key, nvals) ==
  LET t1 == [t EXCEPT !.heap[n].keys = PutAt(@, pos, key),
                      !.heap[n].vals = PutAt(@, pos, nvals),
                      !.nkeys = @ + 1]
  IN  IF Len(t1.heap[n].keys) = 2 * Order + 2 THEN SplitLeaf(t1, n) ELSE t1

SetTree(t) == /\ heap' = t.heap /\ root' = t.root
              /\ nlevel' = t.nlevel /\ nkeys' = t.nkeys

-----------------------------------------------------------------------------
(* The operations of the handler                                           *)

(* A pair whose key is new, and one whose key is there already.            *)
pch_insert_kv(key) ==
  /\ npairs < MaxPairs
  /\ LET t == WithLeaf(Tree)
         n == Descend(t, key)
         at == bsearch_eq(key, t.heap[n].keys)
     IN  IF at.found
         THEN SetTree([t EXCEPT !.heap[n].vals[at.pos + 1] = @ + 1])
         ELSE SetTree(InsertKeyAt(t, n, at.pos, key, 1))
  /\ given' = [given EXCEPT ![key] = @ + 1]
  /\ npairs' = npairs + 1
  /\ UNCHANGED leaked

(* A record with its values, as the rehash after sampling inserts it; the  *)
(* key is not there yet.                                                   *)
pch_insert_kvs(key, nvals) ==
  /\ npairs + nvals <= MaxPairs
  /\ LET t == WithLeaf(Tree)
         n == Descend(t, key)
         at == bsearch_eq(key, t.heap[n].keys)
     IN  ~at.found /\ SetTree(InsertKeyAt(t, n, at.pos, key, nvals))
  /\ given' = [given EXCEPT ![key] = nvals]
  /\ npairs' = npairs + nvals
  /\ UNCHANGED leaked

(* btree_delete_level: the node and its first nkeys children, all levels.  *)
Deleted(t) ==
  LET below(S) == UNION {Range(UpTo(t.heap[n].vals, Len(t.heap[n].keys))) : n \in S}
      level == FoldLeft(LAMBDA acc, i : [last |-> below(acc.last),
                                         all |-> acc.all \cup below(acc.last)],
                        [last |-> {t.root}, all |-> {t.root}],
                        [i \in 1 .. t.nlevel - 1 |-> i])
  IN  level.all

(* The tree is gone, with root and nkeys left as they were; what the       *)
(* recursion did not reach stays allocated.                                *)
pch_shallow_free ==
  /\ nlevel # 0
  /\ heap' = <<>>
  /\ leaked' = leaked + Len(heap) - Cardinality(Deleted(Tree))
  /\ nlevel' = 0
  /\ given' = [k \in Key |-> 0]
  /\ UNCHANGED <<root, nkeys, npairs>>

Next == \/ \E key \in Key : pch_insert_kv(key)
        \/ \E key \in Key : pch_insert_kvs(key, 2)
        \/ pch_shallow_free

Spec == Init /\ [][Next]_vars

(* pch_iter_begin: the leftmost leaf.                                      *)
FirstLeaf == FoldLeft(LAMBDA n, i : At(heap[n].vals, 0), root,
                      [i \in 1 .. nlevel - 1 |-> i])

(* pch_copy_kvs and the iterator: the leaves in the order of next.         *)
Chain ==
  LET walk[n \in 0 .. Len(heap)] ==
        IF n = Null THEN <<>> ELSE <<n>> \o walk[heap[n].next]
  IN  IF nlevel = 0 THEN <<>> ELSE walk[FirstLeaf]

CopyKvs ==
  FlattenSeq([j \in 1 .. Len(Chain) |->
                LET n == heap[Chain[j]]
                IN  [i \in 1 .. Len(n.keys) |->
                       [key |-> n.keys[i], nvals |-> n.vals[i]]]])

-----------------------------------------------------------------------------
(* Properties                                                              *)

(* The nodes of each level, from the root down.                            *)
Level ==
  LET lv[d \in 1 .. nlevel] ==
        IF d = 1 THEN {root} ELSE UNION {Range(heap[n].vals) : n \in lv[d - 1]}
  IN  lv

(* The shape of the tree after any sequence of calls: nodes within the     *)
(* capacity of arr and at least half full but for the root, every child    *)
(* points back to its parent and, below a separator, all keys are smaller, *)
(* above it none is; the chain of leaves is the lowest level.              *)
NodeOK(n, leaf) ==
  LET len == Len(heap[n].keys)
  IN  /\ \A i \in 1 .. len - 1 : heap[n].keys[i] < heap[n].keys[i + 1]
      /\ len <= IF leaf THEN 2 * Order + 1 ELSE 2 * Order
      /\ n # root => len >= IF leaf THEN Order + 1 ELSE Order
      /\ Len(heap[n].vals) = IF leaf THEN len ELSE len + 1
      /\ ~leaf => \A i \in 1 .. len + 1 :
           LET c == heap[n].vals[i]
           IN  /\ heap[c].parent = n
               /\ i > 1 => \A k \in Range(heap[c].keys) : k >= heap[n].keys[i - 1]
               /\ i <= len => \A k \in Range(heap[c].keys) : k < heap[n].keys[i]

TreeShape ==
  nlevel # 0 =>
    /\ heap[root].parent = Null
    /\ \A d \in 1 .. nlevel : \A n \in Level[d] : NodeOK(n, d = nlevel)
    /\ Range(Chain) = Level[nlevel]

(* Iterating over a bucket gives every key that was inserted exactly once, *)
(* in ascending order, with all its values, and as many records as the     *)
(* bucket claims to have (the assertion of pch_copy_kvs).                  *)
IterationComplete ==
  LET out == CopyKvs
  IN  /\ \A i \in 1 .. Len(out) - 1 : out[i].key < out[i + 1].key
      /\ \A i \in 1 .. Len(out) : out[i].nvals = given[out[i].key]
      /\ \A k \in Key : given[k] > 0 => \E i \in 1 .. Len(out) : out[i].key = k
      /\ nlevel # 0 => nkeys = Len(out)

(* A key that was inserted is found again from the root, so that its next  *)
(* value joins the others.                                                 *)
LookupFinds ==
  \A k \in Key : given[k] > 0 =>
    bsearch_eq(k, heap[Descend(Tree, k)].keys).found
=============================================================================
