------------------------------- MODULE MC_Data ------------------------------
(***************************************************************************)
(* The sequential parts of the system against reference definitions: the   *)
(* algorithms of SortAlgo, GapBuild and GapVerify and the applications of  *)
(* Apps on every bounded input; the services of McTools and the            *)
(* collections of Btree and Buckets under every bounded sequence of calls. *)
(* A behaviour picks one of them.                                          *)
(***************************************************************************)
EXTENDS Btree, FiniteSetsExt

CONSTANTS MaxLen,   \* bound: length of an array
          MaxVal,   \* bound: elements are 1 .. MaxVal
          MaxColl,  \* bound: length of a collection or row
          NColls,   \* bound: number of collections or rows
          MaxText,  \* bound: characters of a text
          MaxSplit, \* bound: splits asked for
          MaxNodes, \* bound: nodes of a graph
          MaxCalls, \* bound of Apps
          MaxOps,   \* bound: calls of a service
          NRows, NTotal, NSampled, InitArraySize, CombinerThreshold,
          EstInterval, NKeysPerBkt, SampleTasks, TasksPerCpu, OldEstimates

ASSUME DataBounds ==
  /\ \A c \in {MaxLen, MaxColl, MaxText, MaxNodes, MaxOps} : c \in Nat
  /\ \A c \in {MaxVal, NColls, MaxSplit, MaxCalls, NRows, InitArraySize, CombinerThreshold,
               EstInterval, NKeysPerBkt, SampleTasks, TasksPerCpu} : c \in Nat \ {0}
  /\ NSampled \in 1 .. NTotal /\ OldEstimates \subseteq Nat

VARIABLES in, job, phase, mapper, mapper_bak, map_out, mstate, nkeys_per_mapper, rbkts,
          rehashed, todo, merge_nsplits, merge_ncpus, nmapped, emitted

(* Jobs of each application and manager; only pairs in arrival order can   *)
(* be merged before they are reduced.                                      *)
Jobs ==
  [app : {"reduce", "combiner", "vm", "group"}, mgr : {"array"}, merge : {"psrs"}, tasks : {0, 3}]
  \cup [app : {"reduce", "combiner", "vm", "group"}, mgr : {"append"}, merge : {"rounds"}, tasks : {0, 5}]
  \cup [app : {"combiner"}, mgr : {"array"}, merge : {"rounds"}, tasks : {1, 5}]
  \cup [app : {"combiner", "group"}, mgr : {"append"}, merge : {"first"}, tasks : {0}]
Emissions == {<<>>, <<2, 1, 2>>, <<3, 5, 3, 1>>}

BK == INSTANCE Buckets
A == INSTANCE Apps
G == INSTANCE GapBuild
V == INSTANCE GapVerify WITH kDistInf <- 99, Unit <- 12
T == INSTANCE McTools

-----------------------------------------------------------------------------
(* Inputs                                                                  *)

Val == 1 .. MaxVal
Ascending(s) == \A i, j \in 1 .. Len(s) : i < j => s[i] <= s[j]
Strict(s) == \A i, j \in 1 .. Len(s) : i < j => s[i] < s[j]
Strings(S, n) == UNION {[1 .. k -> S] : k \in 0 .. n}
Arrays(n) == Strings(Val, n)
SortedArrays(n) == {s \in Arrays(n) : Ascending(s)}

(* A mapper's row: ascending keys, each with values that name row and key. *)
RowOf(r, K) ==
  LET keys == SetToSortSeq(K, <)
  IN  [i \in 1 .. Len(keys) |-> [key |-> keys[i], vals |-> <<<<r, keys[i]>>>>]]

Node == 0 .. MaxNodes - 1
Arcs == {e \in Node \X Node : e[1] # e[2]}
Algorithms ==
  [kind : {"search"}, arr : SortedArrays(MaxLen), key : 0 .. MaxVal + 1]
  \cup [kind : {"copy"}, colls : [1 .. NColls -> Arrays(MaxColl)]]
  \cup [kind : {"merge"}, colls : [1 .. NColls -> SortedArrays(MaxColl)]]
  \cup [kind : {"group"}, keys : [1 .. NColls -> SUBSET Val]]
  \cup [kind : {"csr"}, edges : SUBSET (Node \X Node)]
  \cup [kind : {"triangles"}, pairs : SUBSET {p \in SUBSET (0 .. MaxNodes) : Cardinality(p) = 2}]
  \cup [kind : {"prefix"}, degrees : [0 .. MaxNodes -> 0 .. 2], block : 1 .. 3]
  \cup [kind : {"bfs"}, edges : SUBSET Arcs, source : {0}, parent : [Node -> Node \cup {-1}]]
  \cup [kind : {"cc"}, edges : SUBSET Arcs, directed : BOOLEAN, comp : [Node -> Node]]
  \cup [kind : {"sssp"}, weight : [Arcs -> {0, 1, 3}]]     \* 0: no edge
  \cup [kind : {"bc"}, source : {0, 1},
        pairs : SUBSET {p \in SUBSET (0 .. MaxNodes) : Cardinality(p) = 2}]

(* Calls of a service.  A pool's caller frees its oldest or newest object, *)
(* and fails says that malloc or realloc does.  In a window of automove    *)
(* the classes of evicts lose an item.                                     *)
Keys == {<<"a", "b", ":">>, <<"a", ":", "k">>, <<":">>, <<"a">>}
Services ==
  [kind : {"pool"}, ops : Strings([op : {"alloc", "newest", "oldest"}, fails : BOOLEAN], MaxOps)]
  \cup [kind : {"automove"}, pages : [1 .. 3 -> {2, 3}],
        calls : [1 .. 4 -> [wait : {10}, evicts : SUBSET (1 .. 3)]]]
  \cup [kind : {"automove"}, pages : [1 .. 2 -> {3}],
        calls : [1 .. MaxOps -> [wait : {5, 10}, evicts : {{}, {1}, {2}}]]]
  \cup [kind : {"counters"}, chains : {1, 2}, digits : {1, 20},
        ops : Strings([op : {"get", "hit", "set", "delete"}, key : Keys], 3)]

Nsplits == 1 .. MaxSplit
Applications ==
  [kind : {"words"}, text : Strings({"a", "A", "'", " "}, MaxText) \ {<<>>}, n : Nsplits]
  \cup [kind : {"lines"}, n : Nsplits,
        text : {t \in Strings({"a", "b", "n", "r"}, MaxText) \ {<<>>} :
                  \A i \in DOMAIN t : t[i] = "r" => i < Len(t) /\ t[i + 1] = "n"}]
  \cup [kind : {"hist"}, bytes : [1 .. 3 -> 0 .. 1] \cup [1 .. 6 -> 0 .. 1], n : Nsplits]
  \cup [kind : {"lr"}, points : [1 .. 4 -> 1 .. 3] \cup [1 .. 6 -> 1 .. 2], n : Nsplits]
  \cup [kind : {"matrix"}, len : 1 .. 4, block : 1 .. 3, n : Nsplits]
  \cup [kind : {"pca"}, rows : 1 .. 4, n : Nsplits]
  \cup {k \in [kind : {"kmeans"}, npoints : 1 .. 7, grid : 1 .. 5, nmeans : 1 .. 3, n : Nsplits] :
          k.nmeans <= k.npoints}

-----------------------------------------------------------------------------
trees == vars
buckets == <<job, phase, mapper, mapper_bak, map_out, mstate, nkeys_per_mapper, rbkts,
             rehashed, todo, merge_nsplits, merge_ncpus, nmapped, emitted>>

DataInit == /\ in \in Algorithms \cup Services \cup Applications \cup [kind : {"tree", "bucket"}]
            /\ Init /\ BK!BInit
            /\ in.kind # "bucket" => /\ job = (CHOOSE j \in Jobs : TRUE)
                                     /\ nkeys_per_mapper = Min(OldEstimates)

DataNext == /\ UNCHANGED in
            /\ \/ in.kind = "tree" /\ Next /\ UNCHANGED buckets
               \/ in.kind = "bucket" /\ BK!BNext /\ UNCHANGED trees

DataSpec == DataInit /\ [][DataNext]_<<in, trees, buckets>>

-----------------------------------------------------------------------------
(* Properties                                                              *)

Count(s, Test(_)) == Cardinality({i \in 1 .. Len(s) : Test(s[i])})

(* bsearch_lar returns the number of elements that are <= key, that is the *)
(* index of the first element that is larger.                              *)
LarCorrect ==
  in.kind = "search" =>
    bsearch_lar(in.key, in.arr, 0, Len(in.arr), FALSE)
      = Count(in.arr, LAMBDA v : v <= in.key)

(* bsearch_eq finds a key that is there, and otherwise the place to insert *)
(* it; its arrays (B+tree leaves and sorted key arrays) have no duplicates. *)
EqCorrect ==
  in.kind = "search" /\ Strict(in.arr) =>
    LET r == bsearch_eq(in.key, in.arr)
    IN  /\ r.found <=> in.key \in Range(in.arr)
        /\ r.pos = Count(in.arr, LAMBDA v : v < in.key)

(* copy_elems copies the asked part of the concatenation, for the slices   *)
(* that psrs asks for: it never comes up short (its final assertion).      *)
CopyCorrect ==
  in.kind = "copy" =>
    LET all == FlattenSeq(in.colls)
    IN  \A start \in 0 .. Len(all) - 1 : \A end \in start .. Len(all) - 1 :
          copy_elems(in.colls, start, end) = SubSeq(all, start + 1, end + 1)

(* The merge of sorted arrays is the sorted sequence of all their elements. *)
MergeCorrect ==
  in.kind = "merge" =>
    LET all == FlattenSeq(in.colls)
    IN  mergesort(in.colls, [i \in 1 .. NColls |-> 0],
                  [i \in 1 .. NColls |-> Len(in.colls[i])], Len(all))
          = Sort(all)

(* Grouping emits every key once, in ascending order, with the values of   *)
(* all rows that have it, in row order.                                    *)
GroupCorrect ==
  in.kind = "group" =>
    LET rows == [r \in 1 .. NColls |-> RowOf(r, in.keys[r])]
        out == reduce_or_groupkvs(rows)
        all == UNION {in.keys[r] : r \in 1 .. NColls}
    IN  out = [i \in 1 .. Cardinality(all) |->
                 LET k == SetToSortSeq(all, <)[i]
                 IN  [key |-> k,
                      vals |-> SelectSeq([r \in 1 .. NColls |-> <<r, k>>],
                                         LAMBDA v : k \in in.keys[v[1]])]]

(* The graph that MakeCSRInPlace symmetrizes within the memory of the edge *)
(* list has each node's neighbours in both directions, ascending, once.    *)
CsrCorrect ==
  in.kind = "csr" =>
    G!MakeCSRInPlace(MaxNodes, G!Listed(in.edges), 0)
      = [u \in Node |-> G!Ascending({v \in Node : v # u /\ (<<u, v>> \in in.edges
                                                            \/ <<v, u>> \in in.edges)})]

(* After the relabelling by degree, OrderedCount finds each triangle once. *)
TrianglesCorrect ==
  in.kind = "triangles" =>
    LET adj == [u \in 0 .. MaxNodes |-> G!Ascending({v \in 0 .. MaxNodes : {u, v} \in in.pairs})]
        total == Cardinality({t \in SUBSET (0 .. MaxNodes) :
                                Cardinality(t) = 3 /\ \A u, v \in t : u # v => {u, v} \in in.pairs})
    IN  /\ G!OrderedCount(G!RelabelByDegree(adj)) = total
        /\ \A t \in 0 .. total + 1 : V!TCVerifier(adj, t) <=> t = total

(* Block by block, the prefix sums are those of the whole array.           *)
PrefixCorrect ==
  in.kind = "prefix" => G!ParallelPrefixSum(in.degrees, in.block) = G!PrefixSum(in.degrees)

(* Reference: the walks of a graph from s to t that visit no node twice.   *)
Walks(E, N, s, t) ==
  {w \in Strings(N, Cardinality(N)) : /\ w # <<>> /\ w[1] = s /\ w[Len(w)] = t
                                      /\ IsInjective(w)
                                      /\ \A i \in 1 .. Len(w) - 1 : <<w[i], w[i + 1]>> \in E}
Hops(E, N, s, t) ==
  LET lengths == {Len(w) - 1 : w \in Walks(E, N, s, t)}
  IN  IF lengths = {} THEN -1 ELSE Min(lengths)
OutOf(E, N) == [u \in N |-> G!Ascending({v \in N : <<u, v>> \in E})]
InTo(E, N) == [u \in N |-> G!Ascending({v \in N : <<v, u>> \in E})]

(* The verifiers of the kernels accept the right results and no others: a  *)
(* tree of shortest ways, one label per component, the least distances.    *)
VerifiersCorrect ==
  /\ in.kind = "bfs" =>
       LET D(v) == Hops(in.edges, Node, in.source, v)
           P == in.parent
       IN  V!BFSVerifier(OutOf(in.edges, Node), InTo(in.edges, Node), in.source, P)
             <=> \A v \in Node :
                   IF v = in.source THEN P[v] = v
                   ELSE IF D(v) = -1 THEN P[v] = -1
                   ELSE <<P[v], v>> \in in.edges /\ D(P[v]) = D(v) - 1
  /\ in.kind = "cc" =>
       LET either == in.edges \cup {<<e[2], e[1]>> : e \in in.edges}
           E == IF in.directed THEN in.edges ELSE either
       IN  V!CCVerifier(OutOf(E, Node), InTo(E, Node), in.directed, in.comp)
             <=> \A u, v \in Node : in.comp[u] = in.comp[v] <=> Hops(either, Node, u, v) # -1
  /\ in.kind = "sssp" =>
       LET E == {e \in Arcs : in.weight[e] > 0}
           Length(w) == FoldSet(LAMBDA i, a : a + in.weight[<<w[i], w[i + 1]>>], 0, 1 .. Len(w) - 1)
           dist == [v \in Node |-> Min({99} \cup {Length(w) : w \in Walks(E, Node, 0, v)})]
           out == [u \in Node |-> LET list == OutOf(E, Node)[u]
                                  IN  [i \in DOMAIN list |-> <<list[i], in.weight[<<u, list[i]>>]>>]]
       IN  /\ V!SSSPVerifier(out, 0, dist)
           /\ \A v \in Node : ~V!SSSPVerifier(out, 0, [dist EXCEPT ![v] = @ + 1])

(* A node's score is the share of shortest paths through it, over all      *)
(* targets but itself.                                                     *)
ScoresCorrect ==
  in.kind = "bc" =>
    LET N == 0 .. MaxNodes
        E == {<<u, v>> \in N \X N : {u, v} \in in.pairs}
        Shortest(t) == {w \in Walks(E, N, in.source, t) : Len(w) - 1 = Hops(E, N, in.source, t)}
        Share(u, t) == LET all == Shortest(t)
                       IN  IF all = {} THEN 0
                           ELSE (12 * Cardinality({w \in all : u \in Range(w)})) \div Cardinality(all)
    IN  V!BCVerifierScores(OutOf(E, N), in.source)
          = [u \in N |-> FoldSet(LAMBDA t, a : a + Share(u, t), 0, N \ {u})]

(* A page is moved exactly from the first class that is idle, with more    *)
(* than two pages, in three consecutive windows to the one that leads in   *)
(* evictions in all three; calls within 10 seconds of a window do nothing. *)
AutomoveCorrect ==
  in.kind = "automove" =>
    LET n == Len(in.calls)
        class == DOMAIN in.pages
        Now(i) == FoldSet(LAMBDA j, a : a + in.calls[j].wait, 0, 1 .. i)
        Evicted(i) == [c \in class |-> Cardinality({j \in 1 .. i : c \in in.calls[j].evicts})]
        final == FoldLeft(LAMBDA s, i : T!slab_automove_decision(s, Now(i), Evicted(i), in.pages,
                                                                 Max(class) + 1),
                          T!AutomoveStart(class), [i \in 1 .. n |-> i])
        runs[i \in 0 .. n] == IF i = 0 THEN <<0>>
                              ELSE IF i > 1 /\ Now(i) < Now(Last(runs[i - 1])) + 10 THEN runs[i - 1]
                              ELSE Append(runs[i - 1], i)
        W == runs[n]
        Lost(k, c) == Evicted(W[k])[c] - Evicted(W[k - 1])[c]
        last3 == Len(W) - 2 .. Len(W)
        Leads(k, c) == /\ Lost(k, c) > 0
                       /\ \A d \in class : Lost(k, d) < Lost(k, c) \/ (Lost(k, d) = Lost(k, c) /\ c <= d)
        idle == {c \in class : in.pages[c] > 2 /\ \A k \in last3 : Lost(k, c) = 0}
        leader == {c \in class : \A k \in last3 : Leads(k, c)}
    IN  T!slab_maintenance_thread(TRUE, final)
          = IF Last(W) = n /\ Len(W) > 3 /\ idle # {} /\ leader # {}
            THEN <<Min(idle), Min(leader)>> ELSE <<>>

(* The sequential algorithms compute what the parallel ones build on.      *)
AlgorithmsCorrect ==
  /\ LarCorrect /\ EqCorrect /\ CopyCorrect /\ MergeCorrect /\ GroupCorrect
  /\ CsrCorrect /\ TrianglesCorrect /\ PrefixCorrect
  /\ VerifiersCorrect /\ ScoresCorrect /\ AutomoveCorrect

(* Every object that a pool got from malloc is in exactly one place, with  *)
(* a caller, free within the array or given back, also when memory runs    *)
(* out; destroying the pool gives back all but the callers' objects.       *)
PoolOp(c, o) ==
  IF o.op = "alloc" THEN T!cache_alloc(c, o.fails)
  ELSE IF c.used = {} THEN c
  ELSE T!cache_free(c, IF o.op = "newest" THEN Max(c.used) ELSE Min(c.used), o.fails)
PoolSound ==
  in.kind = "pool" =>
    LET c == FoldLeft(PoolOp, T!cache_create(1), in.ops)
        free == Range(c.ptr)
    IN  /\ Cardinality(free) = Len(c.ptr) /\ Len(c.ptr) <= c.freetotal
        /\ c.used \cup free \cup c.freed = 1 .. c.made
        /\ c.used \cap free = {} /\ c.used \cap c.freed = {} /\ free \cap c.freed = {}
        /\ T!cache_destroy(c).freed = 1 .. c.made \ c.used

(* Every prefix has the counts of its own keys, unless one prefix begins   *)
(* with another in the same chain, and what is dumped fits its buffer.     *)
CountersSound ==
  in.kind = "counters" =>
    LET counted == {i \in DOMAIN in.ops : T!HasPrefix(in.ops[i].key)}
        prefixes == {T!PrefixOf(in.ops[i].key) : i \in counted}
        hash == [p \in prefixes |-> Len(p) % in.chains]
        Record(t, o) == IF o.op = "set" THEN T!stats_prefix_record_set(t, hash, o.key)
                        ELSE IF o.op = "delete" THEN T!stats_prefix_record_delete(t, hash, o.key)
                        ELSE T!stats_prefix_record_get(t, hash, o.key, o.op = "hit")
        table == FoldLeft(Record, T!stats_prefix_clear(0 .. in.chains - 1), in.ops)
        entries == UNION {Range(table[h]) : h \in DOMAIN table}
        Times(p, S) == Cardinality({i \in counted : in.ops[i].op \in S /\ T!PrefixOf(in.ops[i].key) = p})
        apart == \A p, q \in prefixes : p # q /\ hash[p] = hash[q] => ~IsPrefix(p, q)
        dump == T!stats_prefix_dump(table, in.digits)
    IN  /\ apart => entries = {[prefix |-> p, num_gets |-> Times(p, {"get", "hit"}),
                                num_sets |-> Times(p, {"set"}), num_deletes |-> Times(p, {"delete"}),
                                num_hits |-> Times(p, {"hit"})] : p \in prefixes}
        /\ dump.lines < dump.size /\ dump.lines + 6 <= dump.size

(* After any sequence of calls the collections of a mapper, trees, sorted  *)
(* arrays or lists of pairs, are well formed and hold what was put into    *)
(* them, through rehashing, reducing and merging; so do pools and counters. *)
CollectionsSound ==
  /\ PoolSound /\ CountersSound
  /\ in.kind = "tree" => TreeShape /\ IterationComplete /\ LookupFinds
  /\ in.kind = "bucket" => BK!InMemory /\ BK!BucketsSorted /\ BK!ValuesKept
(* Reference: the words of a whole text and where they start.  A word is a *)
(* letter that no word covers yet and the letters and apostrophes behind.  *)
InWord(text, i) ==
  \E j \in 1 .. i : A!Letter(text[j]) /\ \A l \in j .. i : A!Letter(text[l]) \/ text[l] = "'"
WordStarts(text) ==
  {i \in DOMAIN text : InWord(text, i) /\ (i > 1 => ~InWord(text, i - 1))}
WordAt(text, i) ==
  LET last == Max({j \in i .. Len(text) : \A l \in i .. j : InWord(text, l)})
  IN  [l \in 1 .. last - i + 1 |-> A!Upper(text[i + l - 1])]

(* However a text is split, wc counts and wr finds every word of it, none  *)
(* cut in two.  The splitter only comes to an end if a split has at least  *)
(* one character or there is no separator to stop at for ever.             *)
WordsCorrect ==
  in.kind = "words" =>
    LET p == A!AllSplits(LAMBDA s : A!wordcount_splitter(in.text, in.n, s), 0)
        found == A!MapAll(p.ma, [s \in Range(p.ma) |-> A!wr_map(in.text, s)])
        counts == A!SumByKey(A!MapAll(p.ma, [s \in Range(p.ma) |-> A!wordcount_map(in.text, s)]))
        starts == WordStarts(in.text)
    IN  /\ p.ended <=> Len(in.text) >= in.n \/ \A i \in DOMAIN in.text : in.text[i] # " "
        /\ p.ended => /\ Len(found) = Cardinality(starts)
                      /\ Range(found) = {<<WordAt(in.text, i), i - 1>> : i \in starts}
                      /\ counts = [w \in {WordAt(in.text, i) : i \in starts} |->
                                    Cardinality({i \in starts : WordAt(in.text, i) = w})]

(* Every line is hashed in exactly one split, whatever ends it.            *)
LinesCorrect ==
  in.kind = "lines" =>
    LET key == A!compute_hashes(<<"a">>)
        p == A!AllSplits(LAMBDA s : A!string_match_splitter(in.text, in.n, s), 0)
        counts == A!SumByKey(A!MapAll(p.ma, [s \in Range(p.ma) |-> A!string_match_map(in.text, s, <<key>>)]))
        N == Len(in.text)
        newlines == Count(in.text, LAMBDA c : c = "n") + (IF in.text[N] # "n" THEN 1 ELSE 0)
        Ends(i) == i = N \/ in.text[i + 1] \in {"n", "r"}
        hits == {i \in 1 .. N : in.text[i] = "a" /\ (i = 1 \/ in.text[i - 1] = "n") /\ Ends(i)}
    IN  p.ended /\ counts[key] = newlines - Cardinality(hits)

(* The sums of the records are those of the whole file; splits of less     *)
(* than a record make the default splitter run for ever.                   *)
RecordsCorrect ==
  LET split(data, align) ==
        A!AllSplits(LAMBDA s : A!defsplitter(Len(data), in.n, align, s), 0)
      Ends(data, align) == Len(data) \div in.n >= align
  IN  /\ in.kind = "hist" =>
           LET p == split(in.bytes, 3)
               sums == A!SumByKey(A!MapAll(p.ma, [s \in Range(p.ma) |-> A!hist_map(A!Piece(in.bytes, s), 0 .. 1)]))
               total(k) == Cardinality({i \in DOMAIN in.bytes : (i - 1) % 3 = k[1] - 1 /\ in.bytes[i] = k[2]})
           IN  /\ p.ended <=> Ends(in.bytes, 3)
               /\ p.ended => /\ DOMAIN sums = {k \in (1 .. 3) \X (0 .. 1) : total(k) > 0}
                             /\ \A k \in DOMAIN sums : sums[k] = total(k)
      /\ in.kind = "lr" =>
           LET p == split(in.points, 2)
               sums == A!SumByKey(A!MapAll(p.ma, [s \in Range(p.ma) |-> A!linear_regression_map(A!Piece(in.points, s))]))
               X == [i \in 1 .. Len(in.points) \div 2 |-> in.points[2 * i - 1]]
               Y == [i \in DOMAIN X |-> in.points[2 * i]]
               S(x, y) == FoldSet(LAMBDA i, a : a + x[i] * y[i], 0, DOMAIN X)
               One == [i \in DOMAIN X |-> 1]
           IN  /\ p.ended <=> Ends(in.points, 2)
               /\ p.ended => /\ sums["SX"] = S(X, One) /\ sums["SXX"] = S(X, X)
                             /\ sums["SY"] = S(Y, One) /\ sums["SYY"] = S(Y, Y)
                             /\ sums["SXY"] = S(X, Y)

(* Every term of every cell of the product is added once, by blocks or by  *)
(* rows; every mean and every pair of rows is computed once.               *)
Once(emits, S) == /\ Len(emits) = Cardinality(S)
                  /\ {emits[i][1] : i \in DOMAIN emits} = S
MatricesCorrect ==
  /\ in.kind = "matrix" =>
       LET terms == (0 .. in.len - 1) \X (0 .. in.len - 1) \X (0 .. in.len - 1)
           blocks == A!AllSplits(LAMBDA s : A!matrixmult_splitter(in.len, in.block, s),
                                        [row |-> 0, col |-> 0])
           rows == A!AllSplits(LAMBDA s : A!matrixmult_splitter2(in.len, in.n, s), 0)
       IN  /\ blocks.ended
           /\ Once(A!MapAll(blocks.ma, [s \in Range(blocks.ma) |-> A!matrixmult_map(in.len, in.block, s)]), terms)
           /\ rows.ended <=> in.len >= in.n
           /\ rows.ended => Once(A!MapAll(rows.ma, [s \in Range(rows.ma) |-> A!matrixmult_map2(in.len, s)]), terms)
  /\ in.kind = "pca" /\ in.rows >= in.n =>
       LET means == A!AllSplits(LAMBDA s : A!pca_mean_splitter(in.rows, in.n, s), 0)
           covs == A!AllSplits(LAMBDA s : A!pca_cov_splitter(in.rows, in.n, s),
                                      [start |-> 0, cov |-> 0])
       IN  /\ means.ended /\ Once(A!MapAll(means.ma, [s \in Range(means.ma) |-> A!pca_mean_map(s)]), 0 .. in.rows - 1)
           /\ covs.ended
           /\ Once(A!MapAll(covs.ma, [s \in Range(covs.ma) |-> A!pca_cov_map(s)]),
                   {[start |-> i, cov |-> j] : i \in 0 .. in.rows - 1, j \in 0 .. in.rows - 1}
                     \cap {q \in [start : 0 .. in.rows - 1, cov : 0 .. in.rows - 1] : q.start <= q.cov})

(* The loop of kmeans ends, with every point in the cluster whose mean is  *)
(* the nearest and every mean the average of its cluster, rounded down.    *)
ClustersCorrect ==
  in.kind = "kmeans" =>
    LET points == A!generate_points(in.npoints, in.grid)
        p == A!AllSplits(LAMBDA s : A!kmeans_splitter(in.npoints, in.n, s), 0)
        k == A!kmeans(points, p.ma, in.nmeans)
        Dist(i, m) == (points[i] - k.means[m]) * (points[i] - k.means[m])
    IN  /\ p.ended <=> in.npoints >= in.n
        /\ p.ended =>
             /\ ~k.modified
             /\ \A i \in DOMAIN points, m \in DOMAIN k.means : Dist(i, k.clusters[i]) <= Dist(i, m)
             /\ \A m \in DOMAIN k.means :
                  LET C == {i \in DOMAIN points : k.clusters[i] = m}
                  IN  C # {} => k.means[m] = FoldSet(LAMBDA i, a : a + points[i], 0, C) \div Cardinality(C)

(* The applications compute, from splits, what their input as a whole has. *)
AppsCorrect ==
  WordsCorrect /\ LinesCorrect /\ RecordsCorrect /\ MatricesCorrect /\ ClustersCorrect
=============================================================================
