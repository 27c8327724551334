------------------------------- MODULE MC_Gap -------------------------------
(***************************************************************************)
(* Small graphs for the GAP kernels.                                       *)
(***************************************************************************)
EXTENDS Gap

CONSTANTS t1, t2

\* A graph from its set of directed edges; lists ascending, as the builder leaves them.
Digraph(n, E) ==
    [n |-> n, directed |-> TRUE,
     out |-> [i \in 1 .. n |-> B!Ascending({e[2] : e \in {e \in E : e[1] = i - 1}})],
     in  |-> [i \in 1 .. n |-> B!Ascending({e[1] : e \in {e \in E : e[2] = i - 1}})]]
Both(E) == E \cup {<<e[2], e[1]>> : e \in E}
Undirected(n, E) == [Digraph(n, Both(E)) EXCEPT !.directed = FALSE]

Diamond == {<<0, 1>>, <<0, 2>>, <<1, 3>>, <<2, 3>>}
Tree == {<<0, 1>>, <<0, 2>>, <<1, 3>>, <<2, 4>>}
Tied == {<<0, 3>>, <<1, 2>>, <<2, 3>>}

With(r) == [r EXCEPT !.ref = Reference(r)]
Bfs(g, s, alpha, beta) ==
    With([kernel |-> "bfs", g |-> g, source |-> s, alpha |-> alpha, beta |-> beta, ref |-> <<>>])
Bc(g, s) == With([kernel |-> "bc", g |-> g, sources |-> s, ref |-> <<>>])
Cc(k, g, r) == With([kernel |-> k, g |-> g, neighbor_rounds |-> r, ref |-> <<>>])
Sssp(g, s, delta, wt) ==
    With([kernel |-> "sssp", g |-> g, source |-> s, delta |-> delta, weight |-> wt, ref |-> <<>>])
Csr(n, el, sym) ==
    [kernel |-> "csr", n |-> n, el |-> el, symmetrize |-> sym, block_size |-> 2, ref |-> <<>>]

Weights == (<<0, 1>> :> 3) @@ (<<0, 2>> :> 1) @@ (<<2, 1>> :> 1) @@ (<<1, 3>> :> 1) @@ (<<2, 3>> :> 3)
Weighted == Digraph(4, DOMAIN Weights)
Rivals == (<<0, 1>> :> 1) @@ (<<0, 2>> :> 2) @@ (<<1, 3>> :> 5) @@ (<<2, 3>> :> 1) @@ (<<3, 4>> :> 1)

PassingRuns == {
    Bfs(Undirected(5, Diamond), 0, 15, 18),
    Bfs(Undirected(6, Tree \cup {<<3, 5>>}), 0, 2, 2),
    Bfs(Digraph(5, Diamond \cup {<<3, 0>>, <<4, 3>>}), 0, 1, 2),
    Bfs(Undirected(6, {<<0, 2>>, <<0, 3>>, <<2, 4>>, <<3, 5>>}), 0, 3, 2),
    Bc(Undirected(5, Diamond), <<0, 3>>),
    Bc(Digraph(4, Diamond), <<0>>),
    Cc("cc", Undirected(4, Tied), 1),
    Cc("cc", Digraph(4, Tied), 1),
    Cc("sv", Undirected(4, Tied), 0),
    Cc("sv", Digraph(5, Tied), 0),
    Sssp(Weighted, 0, 2, Weights),
    Sssp(Weighted, 0, 1, Weights),
    Sssp(Digraph(5, DOMAIN Rivals), 0, 4, Rivals),
    Csr(3, <<<<0, 1>>, <<1, 0>>, <<0, 2>>, <<2, 2>>>>, TRUE),
    Csr(3, <<<<0, 1>>, <<0, 2>>, <<2, 1>>, <<0, 1>>>>, FALSE)}
=============================================================================
