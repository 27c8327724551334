------------------------------- MODULE GapBc -------------------------------
(***************************************************************************)
(* bc.cc: Brandes' betweenness centrality.  PBFS counts shortest paths     *)
(* from a source and marks the edges they use (succ); then the levels are  *)
(* processed from the deepest up, each node from its successors.  Scores   *)
(* are floating-point sums and are left out: what is kept of a node's      *)
(* dependency (deltas[u]) is whether it has been computed.                 *)
(***************************************************************************)
EXTENDS GapThreads

\* One round of Brandes for the k-th source: every array is reset.
BcRound(r, k) ==
    Queue(<<r.sources[k]>>) @@
    [round |-> k,
     depths |-> [n \in Nodes(r.g) |-> IF n = r.sources[k] THEN 0 ELSE -1],
     path_counts |-> [n \in Nodes(r.g) |-> IF n = r.sources[k] THEN 1 ELSE 0],
     succ |-> {},
     lq |-> [t \in Workers |-> <<>>],
     depth |-> 0,
     depth_index |-> <<0>>,
     level |-> 0,
     deltas |-> {}]

\* Into the loop over the window, or past the last level.
PBFSLevel ==
    /\ phase = "bc_level"
    /\ IF QueueEmpty(mem)
       THEN /\ mem' = [mem EXCEPT !.depth_index = Append(@, mem.start),
                                  !.level = Len(mem.depth_index)]
            /\ StartLoop("bc_up", {})
       ELSE mem' = [mem EXCEPT !.depth = @ + 1] /\ StartLoop("bc", Window(mem))

BcGrab(t) ==
    /\ phase = "bc"
    /\ Grab(t, "edge", [u \in todo |-> [i \in 1 .. out_degree(run.g, u) |-> i]])

Dest(t) == out_neigh(run.g, w[t].u)[Head(w[t].nb)]

\* depths[v] == -1 ?
BcRead(t) ==
    /\ phase = "bc" /\ w[t].pc = "edge"
    /\ IF w[t].nb = <<>> THEN w' = [w EXCEPT ![t] = Free]
       ELSE Go(t, IF mem.depths[Dest(t)] = -1 THEN "cas" ELSE "same")
    /\ UNCHANGED <<run, phase, todo, mem>>

BcCas(t) ==
    /\ phase = "bc" /\ w[t].pc = "cas"
    /\ mem' = IF mem.depths[Dest(t)] # -1 THEN mem
              ELSE [push_back(mem, t, Dest(t)) EXCEPT !.depths[Dest(t)] = mem.depth]
    /\ Go(t, "same")
    /\ UNCHANGED <<run, phase, todo>>

\* depths[v] == depth: the edge leads one level down.
BcSucc(t) ==
    /\ phase = "bc" /\ w[t].pc = "same"
    /\ IF mem.depths[Dest(t)] = mem.depth
       THEN mem' = [mem EXCEPT !.succ = @ \cup {<<w[t].u, Head(w[t].nb)>>}] /\ Go(t, "count")
       ELSE UNCHANGED mem /\ Advance(t, "edge")
    /\ UNCHANGED <<run, phase, todo>>

BcCount(t) ==
    /\ phase = "bc" /\ w[t].pc = "count"
    /\ mem' = [mem EXCEPT !.path_counts[Dest(t)] = @ + mem.path_counts[w[t].u]]
    /\ Advance(t, "edge")
    /\ UNCHANGED <<run, phase, todo>>

\* omp single after the barrier.
BcLevelEnd ==
    /\ phase = "bc" /\ AllEnd
    /\ mem' = slide_window([mem EXCEPT !.depth_index = Append(@, mem.start)])
    /\ StartLoop("bc_level", {})

\* Back up, one level after the other; then the next source.
BcUp ==
    /\ phase = "bc_up"
    /\ IF mem.level >= 1
       THEN LET d == mem.depth_index
            IN  /\ mem' = [mem EXCEPT !.level = @ - 1]
                /\ StartLoop("bc_back",
                     {mem.queue[i] : i \in d[mem.level] + 1 .. d[mem.level + 1]})
       ELSE IF mem.round < Len(run.sources)
       THEN mem' = BcRound(run, mem.round + 1) /\ StartLoop("bc_level", {})
       ELSE UNCHANGED mem /\ StartLoop("done", {})

BcBack(t) ==
    /\ phase = "bc_back" /\ w[t].pc = "grab"
    /\ \E u \in todo : todo' = todo \ {u} /\ mem' = [mem EXCEPT !.deltas = @ \cup {u}]
    /\ UNCHANGED <<run, phase, w>>

BcBackEnd == phase = "bc_back" /\ AllEnd /\ UNCHANGED mem /\ StartLoop("bc_up", {})

BcStep(t) ==
    \/ BcGrab(t) \/ BcRead(t) \/ BcCas(t) \/ BcSucc(t) \/ BcCount(t) \/ BcBack(t)
    \/ phase = "bc" /\ FlushAtEnd(t)
    \/ phase = "bc_back" /\ EndLoop(t)

BcSerial == PBFSLevel \/ BcLevelEnd \/ BcUp \/ BcBackEnd
============================================================================
