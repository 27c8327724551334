------------------------------ MODULE GapBuild ------------------------------
(***************************************************************************)
(* builder.h: the sequential algorithms that turn a list of edges into     *)
(* compressed adjacency lists, and tc.cc's triangle count over them.  An   *)
(* edge is a pair <<u, v>>; nodes and array positions count from 0, and an *)
(* array is a function on 0 .. size - 1.                                   *)
(***************************************************************************)
EXTENDS Integers, Sequences, FiniteSets, SequencesExt, FiniteSetsExt, Functions

Arr(n, f(_)) == [i \in 0 .. n - 1 |-> f(i)]
Size(a) == Cardinality(DOMAIN a)
SumRange(a, lo, hi) == SumFunctionOnSet(a, lo .. hi - 1)
Listed(S) == FoldSet(LAMBDA x, s : Append(s, x), <<>>, S)
Ascending(S) == SortSeq(Listed(S), LAMBDA a, b : a < b)

PrefixSum(degrees) == [n \in 0 .. Size(degrees) |-> SumRange(degrees, 0, n)]

\* Blocks are summed in parallel, their sums serially, their insides in parallel.
ParallelPrefixSum(degrees, block_size) ==
    LET size == Size(degrees)
        num_blocks == (size + block_size - 1) \div block_size
        block_end(b) == IF (b + 1) * block_size < size THEN (b + 1) * block_size ELSE size
        local_sums == Arr(num_blocks, LAMBDA b : SumRange(degrees, b * block_size, block_end(b)))
        bulk_prefix == [b \in 0 .. num_blocks |-> SumRange(local_sums, 0, b)]
    IN  [i \in 0 .. size |->
            IF i = size THEN bulk_prefix[num_blocks]
            ELSE bulk_prefix[i \div block_size]
                 + SumRange(degrees, (i \div block_size) * block_size, i)]

\* SquishCSR: the list of a node sorted, without duplicates and without itself.
SquishCSR(n, list) == Ascending(Range(list) \ {n})

\* index[n] .. index[n + 1] - 1 of neighs, as a sequence.
Slice(neighs, lo, hi) == [i \in 1 .. hi - lo |-> neighs[lo + i - 1]]

----------------------------------------------------------------------------
(* MakeCSRInPlace for a graph to be symmetrized.  beyond is what the loop  *)
(* at line 250 finds past the end of invs_needed, which it reads once.     *)

SortUnique(el) ==
    SortSeq(Listed({e \in Range(el) : e[1] # e[2]}),
            LAMBDA a, b : a[1] < b[1] \/ (a[1] = b[1] /\ a[2] < b[2]))

Outgoing(el, u) == SelectSeq(el, LAMBDA e : e[1] = u)

\* Step 1: v needs the inverse of u -> v when u is not among its own.
invs_needed(n, el) ==
    Arr(n, LAMBDA v : Cardinality({u \in 0 .. n - 1 :
                        <<u, v>> \in Range(el) /\ <<v, u>> \notin Range(el)}))

\* Step 2: the lists are moved to the end of their larger places, backwards.
SpreadStep(s, n, offsets, needed) ==
    LET len == offsets[n + 1] - (offsets[n] + needed[n])
    IN  [neighs |-> FoldLeft(LAMBDA a, k : [a EXCEPT ![s.tail - (k - 1)] =
                                a[(offsets[n + 1] - k) - s.missing]],
                             s.neighs, [k \in 1 .. len |-> k]),
         tail |-> s.tail - len - needed[n],
         missing |-> s.missing - needed[n]]

\* Step 3: u goes into the free places of each v that lacks it.
AddInverse(s, u, i, offsets) ==
    LET v == s.neighs[i]
        found == \E j \in offsets[v] + s.needed[v] .. offsets[v + 1] - 1 : s.neighs[j] = u
    IN  IF found THEN s
        ELSE [neighs |-> [s.neighs EXCEPT ![offsets[v] + s.needed[v] - 1] = u],
              needed |-> [s.needed EXCEPT ![v] = @ - 1]]

AddInverses(s, u, offsets) ==
    \* the bound offsets[u] + invs_needed[u] is evaluated before the loop over i
    FoldLeft(LAMBDA a, i : AddInverse(a, u, i, offsets), s,
             [k \in 1 .. offsets[u + 1] - (offsets[u] + s.needed[u]) |->
                offsets[u] + s.needed[u] + k - 1])

MakeCSRInPlace(n, edges, beyond) ==
    LET el == SortUnique(edges)
        needed == invs_needed(n, el)
        compact == PrefixSum(Arr(n, LAMBDA u : Len(Outgoing(el, u))))
        offsets == [u \in 0 .. n |-> compact[u] + SumRange(needed, 0, u)]
        missing == SumRange(needed, 0, n) + beyond
        packed == [i \in 0 .. offsets[n] - 1 |-> IF i < Len(el) THEN el[i + 1][2] ELSE n]
        spread == FoldLeft(LAMBDA s, k : SpreadStep(s, n - k, offsets, needed),
                           [neighs |-> packed, tail |-> offsets[n] - 1, missing |-> missing],
                           [k \in 1 .. n |-> k])
        full == FoldLeft(LAMBDA s, k : AddInverses(s, k - 1, offsets),
                         [neighs |-> spread.neighs, needed |-> needed],
                         [k \in 1 .. n |-> k])
    IN  [u \in 0 .. n - 1 |->
            SortSeq(Slice(full.neighs, offsets[u], offsets[u + 1]), LAMBDA a, b : a < b)]

----------------------------------------------------------------------------
\* RelabelByDegree: node ids by decreasing degree, ties by decreasing old id.
RelabelByDegree(adj) ==
    LET N == DOMAIN adj
        order == SortSeq(Listed(N), LAMBDA a, b :
                    Len(adj[a]) > Len(adj[b]) \/ (Len(adj[a]) = Len(adj[b]) /\ a > b))
        new_ids == [u \in N |-> (CHOOSE i \in DOMAIN order : order[i] = u) - 1]
    IN  [m \in N |-> SortSeq([i \in DOMAIN adj[order[m + 1]] |-> new_ids[adj[order[m + 1]][i]]],
                             LAMBDA a, b : a < b)]

\* OrderedCount: for v <= u and w <= v, walk the list of u up to w.  The walk
\* `it' only moves forward, and starts again for each v; it runs past the end
\* of the list of u (stop here) unless w or something larger is in it.
WalkTo(list, it, x) ==
    LET ahead == {i \in it .. Len(list) : list[i] >= x}
    IN  IF ahead = {} THEN Len(list) + 1 ELSE Min(ahead)

CountFrom(adj, u, v) ==
    FoldLeft(LAMBDA s, x : LET it == WalkTo(adj[u], s[1], x)
                           IN  <<it, s[2] + (IF it <= Len(adj[u]) /\ adj[u][it] = x THEN 1 ELSE 0)>>,
             <<1, 0>>, SelectSeq(adj[v], LAMBDA x : x <= v))[2]

OrderedCount(adj) ==
    SumFunction([u \in DOMAIN adj |->
        FoldLeft(LAMBDA s, v : s + CountFrom(adj, u, v), 0,
                 SelectSeq(adj[u], LAMBDA v : v <= u))])
============================================================================
