------------------------------ MODULE GapBfs ------------------------------
(***************************************************************************)
(* bfs.cc: direction-optimizing breadth-first search.  Top-down steps      *)
(* (TDStep) push the frontier's neighbours through a queue and claim them  *)
(* by compare-and-swap on parent; bottom-up steps (BUStep) let every node  *)
(* without a parent look for one in a bitmap of the frontier.  alpha and   *)
(* beta decide when to change direction.                                   *)
(***************************************************************************)
EXTENDS GapThreads

BfsMem(r) ==
    LET q == Queue(<<r.source>>) IN
    [queue |-> q.queue, start |-> q.start, end |-> q.end,
     parent |-> [n \in Nodes(r.g) |->
        IF n = r.source THEN n
        ELSE IF out_degree(r.g, n) # 0 THEN - out_degree(r.g, n) ELSE -1],
     lq |-> [t \in Workers |-> <<>>],
     front |-> {}, curr |-> {},
     edges_to_check |-> num_edges_directed(r.g),
     scout_count |-> out_degree(r.g, r.source),
     awake_count |-> 0, old_awake_count |-> 0]

\* The loop of DOBFS: stop, go bottom-up, or take a top-down step.
DOBFS ==
    /\ phase = "bfs_top"
    /\ IF QueueEmpty(mem)
       THEN /\ mem' = [mem EXCEPT !.parent = [n \in DOMAIN @ |-> IF @[n] < -1 THEN -1 ELSE @[n]]]
            /\ StartLoop("done", {})
       ELSE IF mem.scout_count > mem.edges_to_check \div run.alpha
       THEN StartLoop("q2b", Window(mem)) /\ UNCHANGED mem
       ELSE /\ mem' = [mem EXCEPT !.edges_to_check = @ - mem.scout_count, !.scout_count = 0]
            /\ StartLoop("td", Window(mem))

TDGrab(t) == phase = "td" /\ Grab(t, "edge", [u \in todo |-> out_neigh(run.g, u)])

\* curr_val = parent[v]
TDRead(t) ==
    /\ phase = "td" /\ w[t].pc = "edge"
    /\ IF w[t].nb = <<>> THEN Go(t, "grab")
       ELSE LET val == mem.parent[Head(w[t].nb)]
            IN  IF val >= 0 THEN Advance(t, "edge")
                ELSE w' = [w EXCEPT ![t].pc = "cas", ![t].x = val]
    /\ UNCHANGED <<run, phase, todo, mem>>

\* Mutant: the parent is stored without a compare-and-swap.
TDCasBlind(t) ==
    /\ phase = "td" /\ w[t].pc = "cas"
    /\ LET v == Head(w[t].nb)
       IN  mem' = [push_back(mem, t, v) EXCEPT !.parent[v] = w[t].u, !.scout_count = @ - w[t].x]
    /\ Advance(t, "edge")
    /\ UNCHANGED <<run, phase, todo>>

TDCas(t) ==
    /\ phase = "td" /\ w[t].pc = "cas"
    /\ LET v == Head(w[t].nb)
       IN  mem' = IF mem.parent[v] # w[t].x THEN mem
                  ELSE [push_back(mem, t, v) EXCEPT
                            !.parent[v] = w[t].u, !.scout_count = @ - w[t].x]
    /\ Advance(t, "edge")
    /\ UNCHANGED <<run, phase, todo>>

TDEnd == phase = "td" /\ AllEnd /\ mem' = slide_window(mem) /\ StartLoop("bfs_top", {})

\* QueueToBitmap: set_bit_atomic reads the word and swaps it in, or retries.
Q2BGrab(t) == phase = "q2b" /\ Grab(t, "bit", [u \in todo |-> <<>>])

Q2BRead(t) ==
    /\ phase = "q2b" /\ w[t].pc = "bit"
    /\ w' = [w EXCEPT ![t].pc = "bitcas", ![t].x = mem.front \cap Word(run.g, w[t].u)]
    /\ UNCHANGED <<run, phase, todo, mem>>

Q2BCas(t) ==
    /\ phase = "q2b" /\ w[t].pc = "bitcas"
    /\ IF mem.front \cap Word(run.g, w[t].u) = w[t].x
       THEN /\ mem' = [mem EXCEPT !.front = @ \cup {w[t].u}]
            /\ w' = [w EXCEPT ![t] = Free]
       ELSE Go(t, "bit") /\ UNCHANGED mem
    /\ UNCHANGED <<run, phase, todo>>

Chunks(g) == {k \in Nodes(g) : k % BuChunk = 0}

\* Into BUStep: next.reset(), one chunk of nodes per iteration.
EnterBU(m) ==
    /\ mem' = [m EXCEPT !.old_awake_count = m.awake_count, !.awake_count = 0, !.curr = {}]
    /\ StartLoop("bu", Chunks(run.g))

Q2BEnd ==
    /\ phase = "q2b" /\ AllEnd
    /\ EnterBU([slide_window(mem) EXCEPT !.awake_count = mem.end - mem.start])

ChunkNodes(k) == SetToSeq({u \in Nodes(run.g) : u \div BuChunk = k \div BuChunk})

BUGrab(t) == phase = "bu" /\ Grab(t, "node", [c \in todo |-> ChunkNodes(c)])

\* One node of a chunk: the first neighbour in the frontier becomes its parent,
\* and set_bit begins by reading the word of its bit.
BUNode(t) ==
    /\ phase = "bu" /\ w[t].pc = "node"
    /\ IF w[t].nb = <<>> THEN w' = [w EXCEPT ![t] = Free] /\ UNCHANGED mem
       ELSE LET u == Head(w[t].nb)
                in == in_neigh(run.g, u)
                found == {i \in DOMAIN in : in[i] \in mem.front}
            IN  IF mem.parent[u] >= 0 \/ found = {}
                THEN Advance(t, "node") /\ UNCHANGED mem
                ELSE /\ mem' = [mem EXCEPT !.parent[u] = in[Min(found)], !.awake_count = @ + 1]
                     /\ w' = [w EXCEPT ![t].pc = "store", ![t].x = mem.curr \cap Word(run.g, u)]
    /\ UNCHANGED <<run, phase, todo>>

\* ... and ends by storing it, whatever the word has become meanwhile.
BUStore(t) ==
    /\ phase = "bu" /\ w[t].pc = "store"
    /\ LET u == Head(w[t].nb)
       IN  mem' = [mem EXCEPT !.curr = (@ \ Word(run.g, u)) \cup w[t].x \cup {u}]
    /\ Advance(t, "node")
    /\ UNCHANGED <<run, phase, todo>>

\* front.swap(curr), and another bottom-up step while the frontier is large.
BUEnd ==
    /\ phase = "bu" /\ AllEnd
    /\ LET m == [mem EXCEPT !.front = mem.curr, !.curr = mem.front]
       IN  IF m.awake_count >= m.old_awake_count \/ m.awake_count > run.g.n \div run.beta
           THEN EnterBU(m)
           ELSE mem' = m /\ StartLoop("b2q", Nodes(run.g))

\* BitmapToQueue
B2QNode(t) ==
    /\ phase = "b2q" /\ w[t].pc = "grab"
    /\ \E n \in todo :
         /\ todo' = todo \ {n}
         /\ mem' = IF n \in mem.front THEN push_back(mem, t, n) ELSE mem
    /\ UNCHANGED <<run, phase, w>>

B2QEnd ==
    /\ phase = "b2q" /\ AllEnd
    /\ mem' = [slide_window(mem) EXCEPT !.scout_count = 1]
    /\ StartLoop("bfs_top", {})

BfsStep(t) ==
    \/ TDGrab(t) \/ TDRead(t) \/ TDCas(t) \/ Q2BGrab(t) \/ Q2BRead(t) \/ Q2BCas(t)
    \/ BUGrab(t) \/ BUNode(t) \/ BUStore(t) \/ B2QNode(t)
    \/ phase \in {"td", "b2q"} /\ FlushAtEnd(t)
    \/ phase \in {"q2b", "bu"} /\ EndLoop(t)

BfsSerial == DOBFS \/ TDEnd \/ Q2BEnd \/ BUEnd \/ B2QEnd
============================================================================
