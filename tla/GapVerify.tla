------------------------------ MODULE GapVerify ------------------------------
(***************************************************************************)
(* The verifiers of the GAP kernels: the serial algorithms that decide     *)
(* whether the result of a parallel kernel is right.  out and inn are the  *)
(* adjacency lists of the graph, functions from nodes to sequences.        *)
(***************************************************************************)
EXTENDS Integers, Sequences, FiniteSets, SequencesExt, FiniteSetsExt, Functions

CONSTANTS kDistInf,     \* the distance of nodes that are not reached
          Unit          \* scores are integers, this many of them to 1.0

\* A serial search: nodes in the order they are found, and how deep they are.
Visit(neigh, b, i) ==
    IF i > Len(b.to_visit) THEN b
    ELSE LET u == b.to_visit[i]
         IN  FoldLeft(LAMBDA a, v : IF a.depth[v] # -1 THEN a
                                ELSE [to_visit |-> Append(a.to_visit, v),
                                      depth |-> [a.depth EXCEPT ![v] = b.depth[u] + 1]],
                  b, neigh[u])

Search(neigh, source) ==
    FoldLeft(LAMBDA b, i : Visit(neigh, b, i),
         [to_visit |-> <<source>>, depth |-> [n \in DOMAIN neigh |-> IF n = source THEN 0 ELSE -1]],
         [i \in 1 .. Cardinality(DOMAIN neigh) |-> i])

----------------------------------------------------------------------------
BFSVerifier(out, inn, source, parent) ==
    LET depth == Search(out, source).depth
        Reached(u) == depth[u] # -1 /\ parent[u] # -1
        ParentFound(u) == /\ parent[u] \in Range(inn[u])
                          /\ depth[parent[u]] = depth[u] - 1
    IN  \A u \in DOMAIN out :
           IF ~Reached(u) THEN depth[u] = parent[u]
           ELSE IF u = source THEN parent[u] = u /\ depth[u] = 0
           ELSE ParentFound(u)

\* One search per label, from the last node that has it.
CCVerifier(out, inn, directed, comp) ==
    LET node == DOMAIN out
        neigh == [u \in node |-> IF directed THEN out[u] \o inn[u] ELSE out[u]]
        label_to_source(label) == Max({n \in node : comp[n] = label})
        frontier(label) == Range(Search(neigh, label_to_source(label)).to_visit)
        labels == Range(comp)
    IN  /\ \A label \in labels : \A u \in frontier(label) :
              \A v \in Range(neigh[u]) : comp[v] = label
        /\ \A n \in node : \E label \in labels : n \in frontier(label)

----------------------------------------------------------------------------
(* SSSPVerifier: Dijkstra's algorithm; an edge is <<v, w>>, with weight w, *)
(* and an entry of the queue <<td, u>>.                                    *)

Relax(d, td, edge) ==
    LET v == edge[1]
        dist == td + edge[2]
    IN  IF dist < d.oracle_dist[v]
        THEN [oracle_dist |-> [d.oracle_dist EXCEPT ![v] = dist], mq |-> d.mq \cup {<<dist, v>>}]
        ELSE d

Top(mq) == CHOOSE e \in mq : \A f \in mq : e[1] < f[1] \/ (e[1] = f[1] /\ e[2] <= f[2])

RECURSIVE Dijkstra(_, _)
Dijkstra(out, d) ==
    IF d.mq = {} THEN d.oracle_dist
    ELSE LET td == Top(d.mq)[1]
             u == Top(d.mq)[2]
             popped == [d EXCEPT !.mq = @ \ {Top(@)}]
         IN  Dijkstra(out, IF td = d.oracle_dist[u]
                           THEN FoldLeft(LAMBDA a, edge : Relax(a, td, edge), popped, out[u])
                           ELSE popped)

SSSPVerifier(out, source, dist_to_test) ==
    dist_to_test = Dijkstra(out, [oracle_dist |-> [n \in DOMAIN out |-> IF n = source THEN 0 ELSE kDistInf],
                                  mq |-> {<<0, source>>}])

----------------------------------------------------------------------------
(* BCVerifier, for one source and before the scores are normalized: the    *)
(* number of shortest paths to every node, then the dependencies from the  *)
(* farthest nodes to the closest.                                          *)

PathCounts(out, b, source) ==
    FoldLeft(LAMBDA c, u : FoldLeft(LAMBDA a, v : IF b.depth[v] = b.depth[u] + 1 THEN [a EXCEPT ![v] = @ + a[u]] ELSE a,
                            c, out[u]),
         [n \in DOMAIN out |-> IF n = source THEN 1 ELSE 0], b.to_visit)

BCVerifierScores(out, source) ==
    LET b == Search(out, source)
        path_counts == PathCounts(out, b, source)
        Delta(deltas, u) ==
            FoldLeft(LAMBDA d, v : IF b.depth[v] # b.depth[u] + 1 THEN d
                               ELSE d + (path_counts[u] * (Unit + deltas[v])) \div path_counts[v],
                 0, out[u])
    IN  FoldLeft(LAMBDA deltas, u : [deltas EXCEPT ![u] = Delta(deltas, u)],
             [n \in DOMAIN out |-> 0], Reverse(b.to_visit))

----------------------------------------------------------------------------
TCVerifier(out, test_total) ==
    LET common(u) == FoldLeft(LAMBDA n, v : n + Cardinality(Range(out[u]) \cap Range(out[v])), 0, out[u])
    IN  SumFunction([u \in DOMAIN out |-> common(u)]) \div 6 = test_total
==============================================================================
