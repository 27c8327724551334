-------------------------------- MODULE Gap --------------------------------
(***************************************************************************)
(* The parallel kernels of the GAP benchmark suite, one per run: breadth-  *)
(* first search, betweenness centrality, connected components (Afforest    *)
(* and Shiloach-Vishkin), shortest paths, and the construction of the      *)
(* graph they work on.                                                     *)
(***************************************************************************)
EXTENDS GapBfs, GapBc, GapCC, GapSssp, GapCsr

CONSTANT Runs       \* kernel, graph and parameters, with the reference result

\* What the builder hands to a kernel: lists of neighbours, the in-lists mirror
\* the out-lists, and the graph is symmetric unless it is directed.
IsGraph(g) ==
    /\ g.n \in Nat
    /\ g.out \in [1 .. g.n -> Seq(Nodes(g))] /\ g.in \in [1 .. g.n -> Seq(Nodes(g))]
    /\ \A u, v \in Nodes(g) : Edge(g, u, v) <=> \E i \in DOMAIN in_neigh(g, v) : in_neigh(g, v)[i] = u
    /\ ~g.directed => \A u, v \in Nodes(g) : Edge(g, u, v) => Edge(g, v, u)

\* What makes ref the least node of each node's component: the ends of an edge
\* have the same, and no set without edges to the outside separates v from ref[v].
IsComponents(g, ref) ==
    /\ ref \in [Nodes(g) -> Nodes(g)]
    /\ \A v \in Nodes(g) : ref[v] <= v
    /\ \A u, v \in Nodes(g) : Edge(g, u, v) => ref[u] = ref[v]
    /\ \A S \in SUBSET Nodes(g) :
         (\A u, v \in Nodes(g) : Edge(g, u, v) => (u \in S <=> v \in S))
            => \A v \in S : ref[v] \in S

\* What makes ref the depth of each node, -1 for those s does not reach: only s
\* has depth 0, an edge leads at most one level down, and every other node that
\* has a depth is reached from one a level above.
IsDepths(g, s, ref) ==
    /\ ref \in [Nodes(g) -> Nat \cup {-1}]
    /\ \A v \in Nodes(g) : ref[v] = 0 <=> v = s
    /\ \A u, v \in Nodes(g) : Edge(g, u, v) /\ ref[u] # -1 => ref[v] # -1 /\ ref[v] <= ref[u] + 1
    /\ \A v \in Nodes(g) : ref[v] > 0 =>
         \E u \in Nodes(g) : Edge(g, u, v) /\ ref[v] = ref[u] + 1

\* What makes ref the distance of each node, kDistInf for those s does not reach:
\* an edge is no shortcut, and every other node with a distance ends an edge that
\* leads to it over that distance.
IsDistances(g, s, weight, ref) ==
    /\ ref \in [Nodes(g) -> 0 .. kDistInf]
    /\ ref[s] = 0
    /\ \A u, v \in Nodes(g) : Edge(g, u, v) => ref[v] <= ref[u] + weight[<<u, v>>]
    /\ \A v \in Nodes(g) \ {s} : ref[v] < kDistInf =>
         \E u \in Nodes(g) : Edge(g, u, v) /\ ref[v] = ref[u] + weight[<<u, v>>]

ASSUME RunsAssumption ==
    \A r \in Runs :
        /\ r.kernel \in {"cc", "sv"} =>
             /\ IsGraph(r.g) /\ r.g.directed \in BOOLEAN
             /\ IsComponents(r.g, r.ref)
             /\ r.neighbor_rounds \in Nat
        /\ r.kernel = "bfs" =>
             /\ IsGraph(r.g) /\ r.g.directed \in BOOLEAN
             /\ r.source \in Nodes(r.g) /\ IsDepths(r.g, r.source, r.ref)
        /\ r.kernel = "sssp" =>
             /\ IsGraph(r.g) /\ r.source \in Nodes(r.g)
             /\ r.delta \in Nat \ {0}
             /\ \A u, v \in Nodes(r.g) : Edge(r.g, u, v) => r.weight[<<u, v>>] \in Nat \ {0}
             /\ IsDistances(r.g, r.source, r.weight, r.ref)

\* A chunk of BUStep, 1024 nodes, is a number of whole words of 64 bits.
ASSUME WordsInChunks == BuChunk % kBitsPerWord = 0

FirstPhase == [bfs |-> "bfs_top", bc |-> "bc_level", cc |-> "cc_top", sv |-> "sv_top",
               sssp |-> "ss_top", csr |-> "csr"]

Init ==
    /\ run \in Runs
    /\ phase = FirstPhase[run.kernel]
    /\ todo = {}
    /\ w = [t \in Workers |-> Free]
    /\ mem = CASE run.kernel = "bfs"  -> BfsMem(run)
               [] run.kernel = "bc"   -> BcRound(run, 1)
               [] run.kernel \in {"cc", "sv"} -> CcMem(run)
               [] run.kernel = "sssp" -> SsspMem(run)
               [] run.kernel = "csr"  -> CsrMem(run)

Step(t) == BfsStep(t) \/ BcStep(t) \/ CcStep(t) \/ SsspStep(t) \/ CsrStep(t)
Serial == BfsSerial \/ BcSerial \/ CcSerial \/ SsspSerial \/ CsrSerial
Work == (\E t \in Workers : Step(t)) \/ Serial
Stop == phase = "done" /\ UNCHANGED vars
Next == Work \/ Stop

(* The team runs: as long as some thread can take a step, one does.        *)
Spec == Init /\ [][Next]_vars /\ WF_vars(Work)

----------------------------------------------------------------------------
(* Reference definitions.                                                  *)

Reached(g, s) ==
    LET R[k \in 0 .. g.n] ==
            IF k = 0 THEN {s}
            ELSE R[k - 1] \cup {v \in Nodes(g) : \E u \in R[k - 1] : Edge(g, u, v)}
    IN  R

\* Number of edges on a shortest path from s, -1 if there is none.
Depths(g, s) ==
    LET R == Reached(g, s)
    IN  [v \in Nodes(g) |->
            IF v \notin R[g.n] THEN -1
            ELSE CHOOSE k \in 0 .. g.n : v \in R[k] /\ \A j \in 0 .. k - 1 : v \notin R[j]]

\* Number of shortest paths from s.
PathCounts(g, s) ==
    LET D == Depths(g, s)
        P[k \in 0 .. g.n] ==
            [v \in Nodes(g) |->
                IF k = 0 THEN (IF v = s THEN 1 ELSE 0)
                ELSE SumFunctionOnSet(P[k - 1],
                        {u \in Nodes(g) : Edge(g, u, v) /\ D[u] = k - 1 /\ D[v] = k})]
    IN  [v \in Nodes(g) |-> IF D[v] = -1 THEN 0 ELSE P[D[v]][v]]

\* Weighted distances from s (Bellman-Ford).
Distances(g, s, weight) ==
    LET D[k \in 0 .. g.n] ==
            IF k = 0 THEN [v \in Nodes(g) |-> IF v = s THEN 0 ELSE kDistInf]
            ELSE [v \in Nodes(g) |->
                    LET C == {D[k - 1][v]} \cup
                             {D[k - 1][u] + weight[<<u, v>>] : u \in {u \in Nodes(g) : Edge(g, u, v)}}
                    IN  CHOOSE d \in C : \A e \in C : d <= e]
    IN  D[g.n]

\* The smallest node of each node's (weakly) connected component.
Components(g) ==
    LET C[k \in 0 .. g.n] ==
            IF k = 0 THEN [v \in Nodes(g) |-> v]
            ELSE [v \in Nodes(g) |->
                    LET S == {C[k - 1][u] : u \in {v} \cup
                                {u \in Nodes(g) : Edge(g, u, v) \/ Edge(g, v, u)}}
                    IN  CHOOSE c \in S : \A d \in S : c <= d]
    IN  C[g.n]

\* Reference results of a run, kept in its field ref.
Reference(r) ==
    CASE r.kernel = "bfs"  -> Depths(r.g, r.source)
      [] r.kernel = "bc"   -> [k \in DOMAIN r.sources |->
                                [depth |-> Depths(r.g, r.sources[k]),
                                 paths |-> PathCounts(r.g, r.sources[k])]]
      [] r.kernel \in {"cc", "sv"} -> Components(r.g)
      [] r.kernel = "sssp" -> Distances(r.g, r.source, r.weight)
      [] r.kernel = "csr"  -> <<>>

----------------------------------------------------------------------------
(* What holds while a kernel runs, whatever its threads do.                *)

\* A node enters the queue once and after it got its parent, so the queue
\* never outgrows the array of num_nodes entries; parents are one level up.
BfsInv ==
    /\ IsInjective(mem.queue)
    /\ \A i \in 1 .. Len(mem.queue) : mem.parent[mem.queue[i]] >= 0
    /\ \A v \in Nodes(run.g) : mem.parent[v] >= 0 /\ v # run.source =>
            /\ Edge(run.g, mem.parent[v], v)
            /\ run.ref[v] = run.ref[mem.parent[v]] + 1

\* Depths are final when set; no path is counted twice; a node's dependency is
\* computed after those of its successors.
BcInv ==
    LET ref == run.ref[mem.round]
    IN  /\ IsInjective(mem.queue)
        /\ \A v \in Nodes(run.g) : /\ mem.depths[v] \in {-1, ref.depth[v]}
                                   /\ mem.path_counts[v] <= ref.paths[v]
        /\ \A e \in mem.succ : e[1] \in mem.deltas => out_neigh(run.g, e[1])[e[2]] \in mem.deltas

\* Trees point to smaller nodes (so they have no cycle) of the same component.
CcInv ==
    \A v \in Nodes(run.g) : mem.comp[v] <= v /\ run.ref[mem.comp[v]] = run.ref[v]

\* Distances are those of real paths, and those below the current bin are
\* settled: a node that has been improved is not passed over.
SsspInv ==
    /\ \A v \in Nodes(run.g) : mem.dist[v] >= run.ref[v]
    /\ phase = "ss_top" /\ CurrBin # kMaxBin =>
        \A v \in Nodes(run.g) : run.ref[v] < run.delta * CurrBin => mem.dist[v] = run.ref[v]

\* Each node fills its own part of neighs only.
CsrInv ==
    phase = "fill" => \A u \in 0 .. run.n - 1 :
        mem.offsets[u] \in mem.index[u] .. mem.index[u + 1]

\* The invariant of the kernel that runs.
KernelInv ==
    CASE run.kernel = "bfs" -> BfsInv [] run.kernel = "bc" -> BcInv
      [] run.kernel \in {"cc", "sv"} -> CcInv [] run.kernel = "sssp" -> SsspInv
      [] run.kernel = "csr" -> CsrInv

\* What the kernel returns is right: every reachable node has a parent one level
\* up, paths and successor edges are those of the shortest-path graph, two nodes
\* have one label exactly when they are connected, distances are shortest, and
\* adjacency lists are the sorted sets of neighbours (the verifiers of the suite).
ResultCorrect ==
    phase = "done" =>
        CASE run.kernel = "bfs" -> \A v \in Nodes(run.g) : (mem.parent[v] = -1) = (run.ref[v] = -1)
          [] run.kernel = "bc" ->
                LET ref == run.ref[mem.round]
                IN  /\ mem.depths = ref.depth /\ mem.path_counts = ref.paths
                    /\ mem.deltas = {v \in Nodes(run.g) : ref.depth[v] # -1}
                    /\ mem.succ = {e \in Nodes(run.g) \X (1 .. run.g.n) :
                                    /\ e[2] <= out_degree(run.g, e[1])
                                    /\ ref.depth[e[1]] # -1
                                    /\ ref.depth[out_neigh(run.g, e[1])[e[2]]] = ref.depth[e[1]] + 1}
          [] run.kernel \in {"cc", "sv"} -> mem.comp = run.ref
          [] run.kernel = "sssp" -> mem.dist = run.ref
          [] run.kernel = "csr" ->
                \A u \in 0 .. run.n - 1 :
                    LET el == Range(run.el)
                        succs == {v \in 0 .. run.n - 1 : <<u, v>> \in el}
                        preds == {v \in 0 .. run.n - 1 : <<v, u>> \in el}
                        both == succs \cup preds
                    IN  IF run.symmetrize THEN mem.out[u] = B!Ascending(both \ {u})
                        ELSE /\ mem.out[u] = B!Ascending(succs \ {u})
                             /\ mem.in[u] = B!Ascending(preds \ {u})

\* Every kernel ends: no compare-and-swap loop, bottom-up loop, hooking round or
\* bin keeps the team busy for ever.
KernelEnds == <>(phase = "done")
=============================================================================
