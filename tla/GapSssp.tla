------------------------------ MODULE GapSssp ------------------------------
(***************************************************************************)
(* sssp.cc: delta-stepping shortest paths with bucket fusion.  Threads     *)
(* relax edges with compare-and-swap on dist and put improved nodes into   *)
(* bins of their own; after a barrier the lowest non-empty bins of all     *)
(* threads become the next frontier.  Two copies of the bin index and of   *)
(* the frontier's length alternate between iterations.                     *)
(***************************************************************************)
EXTENDS GapThreads

CONSTANTS
    kBinSizeThreshold,  \* bins of fewer nodes are fused
    kDistInf,           \* the distance of a node not reached yet
    kMaxBin             \* the index that stands for no bin

ASSUME SsspAssumption ==
    /\ {kBinSizeThreshold, kDistInf} \subseteq Nat \ {0}
    /\ kMaxBin \in Nat /\ kDistInf <= kMaxBin

SsspMem(r) ==
    [dist |-> [n \in Nodes(r.g) |-> IF n = r.source THEN 0 ELSE kDistInf],
     frontier |-> <<r.source>>,
     shared_indexes |-> <<0, kMaxBin>>,
     frontier_tails |-> <<1, 0>>,
     iter |-> 0,
     local_bins |-> [t \in Workers |-> <<>>],
     curr_bin_copy |-> [t \in Workers |-> <<>>]]

\* iter&1 and (iter+1)&1 select the current and the next copy.
Curr == mem.iter + 1
Nxt == 2 - mem.iter
CurrBin == mem.shared_indexes[Curr]
NextBin == mem.shared_indexes[Nxt]
Bin(t, b) == IF b < Len(mem.local_bins[t]) THEN mem.local_bins[t][b + 1] ELSE <<>>

SsspTop ==
    /\ phase = "ss_top"
    /\ UNCHANGED mem
    /\ IF CurrBin = kMaxBin THEN StartLoop("done", {})
       ELSE StartLoop("relax", 0 .. mem.frontier_tails[Curr] - 1)

\* Stale entries, settled in an earlier bin, are skipped.
SsspGrab(t) ==
    /\ phase = "relax" /\ w[t].pc = "grab"
    /\ \E i \in todo :
         LET u == mem.frontier[i + 1]
         IN  /\ todo' = todo \ {i}
             /\ w' = [w EXCEPT ![t] = [@ EXCEPT !.pc = "old", !.u = u,
                        !.nb = IF mem.dist[u] >= run.delta * CurrBin
                               THEN out_neigh(run.g, u) ELSE <<>>]]
    /\ UNCHANGED <<run, phase, mem>>

\* RelaxEdges: old_dist = dist[v]; at the end of the edges, the next node of a
\* fused bin, if there is one (those are not compared with the bin again).
RelaxOld(t) ==
    /\ phase = "relax" /\ w[t].pc = "old"
    /\ IF w[t].nb # <<>>
       THEN /\ w' = [w EXCEPT ![t].pc = "new", ![t].x = mem.dist[Head(w[t].nb)]]
            /\ UNCHANGED mem
       ELSE IF mem.curr_bin_copy[t] # <<>>
       THEN LET u == Head(mem.curr_bin_copy[t])
            IN  /\ w' = [w EXCEPT ![t].u = u, ![t].nb = out_neigh(run.g, u)]
                /\ mem' = [mem EXCEPT !.curr_bin_copy[t] = Tail(@)]
       ELSE w' = [w EXCEPT ![t] = Free] /\ UNCHANGED mem
    /\ UNCHANGED <<run, phase, todo>>

\* new_dist = dist[u] + w
RelaxNew(t) ==
    /\ phase = "relax" /\ w[t].pc = "new"
    /\ LET new == mem.dist[w[t].u] + run.weight[<<w[t].u, Head(w[t].nb)>>]
       IN  IF new < w[t].x THEN w' = [w EXCEPT ![t].pc = "cas", ![t].y = new]
           ELSE Advance(t, "old")
    /\ UNCHANGED <<run, phase, todo, mem>>

PutInBin(bins, b, v) ==
    LET size == IF b >= Len(bins) THEN b + 1 ELSE Len(bins)
    IN  [i \in 1 .. size |-> (IF i <= Len(bins) THEN bins[i] ELSE <<>>)
                             \o (IF i = b + 1 THEN <<v>> ELSE <<>>)]

\* Mutant: a failed swap is not tried again.
RelaxCasOnce(t) ==
    /\ phase = "relax" /\ w[t].pc = "cas"
    /\ LET v == Head(w[t].nb)
       IN  mem' = IF mem.dist[v] # w[t].x THEN mem
                  ELSE [mem EXCEPT !.dist[v] = w[t].y,
                            !.local_bins[t] = PutInBin(@, w[t].y \div run.delta, v)]
    /\ Advance(t, "old")
    /\ UNCHANGED <<run, phase, todo>>

RelaxCas(t) ==
    /\ phase = "relax" /\ w[t].pc = "cas"
    /\ LET v == Head(w[t].nb)
       IN  IF mem.dist[v] = w[t].x
           THEN /\ mem' = [mem EXCEPT !.dist[v] = w[t].y,
                            !.local_bins[t] = PutInBin(@, w[t].y \div run.delta, v)]
                /\ Advance(t, "old")
           ELSE UNCHANGED mem /\ Go(t, "reread")
    /\ UNCHANGED <<run, phase, todo>>

\* Swap failed: recheck the distance and retry.
RelaxReread(t) ==
    /\ phase = "relax" /\ w[t].pc = "reread"
    /\ LET old == mem.dist[Head(w[t].nb)]
       IN  IF w[t].y < old THEN w' = [w EXCEPT ![t].pc = "cas", ![t].x = old]
           ELSE Advance(t, "old")
    /\ UNCHANGED <<run, phase, todo, mem>>

\* No frontier left: process the own bin of the same index, while small, ...
FuseBin(t) ==
    /\ phase = "relax" /\ LoopEnd(t)
    /\ Bin(t, CurrBin) # <<>>
    /\ Len(Bin(t, CurrBin)) < kBinSizeThreshold
    /\ mem' = [mem EXCEPT !.curr_bin_copy[t] = Bin(t, CurrBin),
                          !.local_bins[t][CurrBin + 1] = <<>>]
    /\ Go(t, "old")
    /\ UNCHANGED <<run, phase, todo>>

\* ... then propose the lowest bin that is not empty (omp critical).
ProposeBin(t) ==
    /\ phase = "relax" /\ LoopEnd(t)
    /\ Bin(t, CurrBin) = <<>> \/ Len(Bin(t, CurrBin)) >= kBinSizeThreshold
    /\ LET nonEmpty == {b \in CurrBin .. Len(mem.local_bins[t]) - 1 : Bin(t, b) # <<>>}
       IN  mem' = IF nonEmpty = {} THEN mem
                  ELSE LET lowest == CHOOSE b \in nonEmpty : \A c \in nonEmpty : b <= c
                       IN  [mem EXCEPT !.shared_indexes[Nxt] = IF lowest < @ THEN lowest ELSE @]
    /\ Go(t, "end")
    /\ UNCHANGED <<run, phase, todo>>

\* Barrier; omp single clears the current copies for the iteration after next.
RelaxEnd ==
    /\ phase = "relax" /\ AllEnd
    /\ mem' = [mem EXCEPT !.shared_indexes[Curr] = kMaxBin, !.frontier_tails[Curr] = 0]
    /\ StartLoop("copy", {})

\* copy_start = fetch_and_add(next_frontier_tail, size), then copy.
CopyBin(t) ==
    /\ phase = "copy" /\ w[t].pc = "grab"
    /\ LET b == Bin(t, NextBin)
           start == mem.frontier_tails[Nxt]
       IN  mem' = IF NextBin >= Len(mem.local_bins[t]) THEN mem
                  ELSE [mem EXCEPT !.frontier_tails[Nxt] = @ + Len(b),
                            !.frontier = SubSeq(@, 1, start) \o b \o SubSeq(@, start + Len(b) + 1, Len(@)),
                            !.local_bins[t][NextBin + 1] = <<>>]
    /\ Go(t, "end")
    /\ UNCHANGED <<run, phase, todo>>

CopyEnd ==
    /\ phase = "copy" /\ AllEnd
    /\ mem' = [mem EXCEPT !.iter = 1 - @]
    /\ StartLoop("ss_top", {})

SsspStep(t) ==
    \/ SsspGrab(t) \/ RelaxOld(t) \/ RelaxNew(t) \/ RelaxCas(t) \/ RelaxReread(t)
    \/ FuseBin(t) \/ ProposeBin(t) \/ CopyBin(t)

SsspSerial == SsspTop \/ RelaxEnd \/ CopyEnd
============================================================================
