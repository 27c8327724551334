------------------------------- MODULE GapCC -------------------------------
(***************************************************************************)
(* cc.cc (Afforest) and cc_sv.cc (Shiloach-Vishkin): connected components  *)
(* by hooking trees of comp onto each other, with threads reading and      *)
(* writing comp at the same time.                                          *)
(***************************************************************************)
EXTENDS GapThreads

CcMem(r) == [comp |-> [n \in Nodes(r.g) |-> n], c |-> -1, round |-> 0, change |-> FALSE]

Hi(a, b) == IF a > b THEN a ELSE b
Lo(a, b) == IF a > b THEN b ELSE a

CcPhases == {"link", "link_rest", "hook", "compress"}

(* Afforest: neighbor_rounds of linking one neighbour per node, each       *)
(* followed by Compress; then the rest, without the largest component.     *)
AfforestNext ==
    /\ phase = "cc_top"
    /\ IF mem.round < run.neighbor_rounds
       THEN UNCHANGED mem /\ StartLoop("link", Nodes(run.g))
       ELSE /\ \E c \in Range(mem.comp) : mem' = [mem EXCEPT !.c = c]  \* SampleFrequentElement
            /\ StartLoop("link_rest", Nodes(run.g))

\* The r-th neighbour only.
LinkGrab(t) ==
    /\ phase = "link"
    /\ Grab(t, "p1", [u \in todo |->
           SubSeq(out_neigh(run.g, u), mem.round + 1, Lo(mem.round + 1, out_degree(run.g, u)))])

\* comp[u] == c: skip; else the remaining neighbours, and in a directed graph
\* all those of the reverse graph.
LinkRestGrab(t) ==
    /\ phase = "link_rest"
    /\ Grab(t, "p1", [u \in todo |->
            IF mem.comp[u] = mem.c THEN <<>>
            ELSE SubSeq(out_neigh(run.g, u), run.neighbor_rounds + 1, out_degree(run.g, u))
                 \o (IF run.g.directed THEN in_neigh(run.g, u) ELSE <<>>)])

Linking(t, pc) == phase \in {"link", "link_rest"} /\ w[t].pc = pc

\* Link(u, v): p1 = comp[u]; p2 = comp[v]
LinkP1(t) ==
    /\ Linking(t, "p1")
    /\ IF w[t].nb = <<>> THEN w' = [w EXCEPT ![t] = Free]
       ELSE w' = [w EXCEPT ![t].pc = "p2", ![t].x = mem.comp[w[t].u]]
    /\ UNCHANGED <<run, phase, todo, mem>>

LinkP2(t) ==
    /\ Linking(t, "p2")
    /\ w' = [w EXCEPT ![t].pc = "high", ![t].y = mem.comp[Head(w[t].nb)]]
    /\ UNCHANGED <<run, phase, todo, mem>>

\* while (p1 != p2): read comp[high], and decide.
LinkHigh(t) ==
    /\ Linking(t, "high")
    /\ LET high == Hi(w[t].x, w[t].y)
           low == Lo(w[t].x, w[t].y)
       IN  IF w[t].x = w[t].y \/ mem.comp[high] = low THEN Advance(t, "p1")
           ELSE Go(t, IF mem.comp[high] = high THEN "cas" ELSE "up")
    /\ UNCHANGED <<run, phase, todo, mem>>

LinkCas(t) ==
    /\ Linking(t, "cas")
    /\ LET high == Hi(w[t].x, w[t].y)
       IN  IF mem.comp[high] = high
           THEN mem' = [mem EXCEPT !.comp[high] = Lo(w[t].x, w[t].y)] /\ Advance(t, "p1")
           ELSE UNCHANGED mem /\ Go(t, "up")
    /\ UNCHANGED <<run, phase, todo>>

\* p1 = comp[comp[high]]; p2 = comp[low]: three reads, in two steps (comp[high]
\* no longer is its own root, and changes no more in this loop).
LinkUp(t) ==
    /\ Linking(t, "up")
    /\ LET high == Hi(w[t].x, w[t].y)
       IN  w' = [w EXCEPT ![t].pc = "up2", ![t].x = mem.comp[mem.comp[high]],
                          ![t].y = Lo(w[t].x, w[t].y)]
    /\ UNCHANGED <<run, phase, todo, mem>>

LinkUp2(t) ==
    /\ Linking(t, "up2")
    /\ w' = [w EXCEPT ![t].pc = "high", ![t].y = mem.comp[w[t].y]]
    /\ UNCHANGED <<run, phase, todo, mem>>

LinkEnd ==
    /\ phase \in {"link", "link_rest"} /\ AllEnd
    /\ mem' = [mem EXCEPT !.round = @ + 1]
    /\ StartLoop("compress", Nodes(run.g))

(* Shiloach-Vishkin: hook roots without compare-and-swap, as long as some  *)
(* thread did.                                                             *)
\* Mutant: change is not reset at the start of a round.
SvNextKeep == phase = "sv_top" /\ UNCHANGED mem /\ StartLoop("hook", Nodes(run.g))

SvNext ==
    /\ phase = "sv_top"
    /\ mem' = [mem EXCEPT !.change = FALSE]
    /\ StartLoop("hook", Nodes(run.g))

HookGrab(t) == phase = "hook" /\ Grab(t, "hu", [u \in todo |-> out_neigh(run.g, u)])

HookU(t) ==
    /\ phase = "hook" /\ w[t].pc = "hu"
    /\ IF w[t].nb = <<>> THEN w' = [w EXCEPT ![t] = Free]
       ELSE w' = [w EXCEPT ![t].pc = "hv", ![t].x = mem.comp[w[t].u]]
    /\ UNCHANGED <<run, phase, todo, mem>>

HookV(t) ==
    /\ phase = "hook" /\ w[t].pc = "hv"
    /\ LET comp_v == mem.comp[Head(w[t].nb)]
       IN  IF comp_v = w[t].x THEN Advance(t, "hu")
           ELSE w' = [w EXCEPT ![t].pc = "root", ![t].y = comp_v]
    /\ UNCHANGED <<run, phase, todo, mem>>

\* high_comp == comp[high_comp] ?
HookRoot(t) ==
    /\ phase = "hook" /\ w[t].pc = "root"
    /\ LET high == Hi(w[t].x, w[t].y)
       IN  IF mem.comp[high] = high THEN Go(t, "set") ELSE Advance(t, "hu")
    /\ UNCHANGED <<run, phase, todo, mem>>

HookSet(t) ==
    /\ phase = "hook" /\ w[t].pc = "set"
    /\ mem' = [mem EXCEPT !.change = TRUE, !.comp[Hi(w[t].x, w[t].y)] = Lo(w[t].x, w[t].y)]
    /\ Advance(t, "hu")
    /\ UNCHANGED <<run, phase, todo>>

HookEnd == phase = "hook" /\ AllEnd /\ UNCHANGED mem /\ StartLoop("compress", Nodes(run.g))

(* Compress: while (comp[n] != comp[comp[n]]) comp[n] = comp[comp[n]].     *)
(* Only the thread that has n writes comp[n]; comp[comp[n]] may change     *)
(* between the comparison and the assignment.                              *)
CompressGrab(t) == phase = "compress" /\ Grab(t, "cmp", [n \in todo |-> <<>>])

CompressTest(t) ==
    /\ phase = "compress" /\ w[t].pc = "cmp"
    /\ LET n == w[t].u
       IN  IF mem.comp[n] = mem.comp[mem.comp[n]] THEN w' = [w EXCEPT ![t] = Free]
           ELSE Go(t, "jump")
    /\ UNCHANGED <<run, phase, todo, mem>>

CompressJump(t) ==
    /\ phase = "compress" /\ w[t].pc = "jump"
    /\ mem' = [mem EXCEPT !.comp[w[t].u] = mem.comp[mem.comp[w[t].u]]]
    /\ Go(t, "cmp")
    /\ UNCHANGED <<run, phase, todo>>

CompressEnd ==
    /\ phase = "compress" /\ AllEnd
    /\ UNCHANGED mem
    /\ StartLoop(IF run.kernel = "cc"
                 THEN IF mem.round <= run.neighbor_rounds THEN "cc_top" ELSE "done"
                 ELSE IF mem.change THEN "sv_top" ELSE "done", {})

CcStep(t) ==
    \/ LinkGrab(t) \/ LinkRestGrab(t) \/ LinkP1(t) \/ LinkP2(t) \/ LinkHigh(t) \/ LinkCas(t)
    \/ LinkUp(t) \/ LinkUp2(t)
    \/ HookGrab(t) \/ HookU(t) \/ HookV(t) \/ HookRoot(t) \/ HookSet(t)
    \/ CompressGrab(t) \/ CompressTest(t) \/ CompressJump(t)
    \/ phase \in CcPhases /\ EndLoop(t)

CcSerial == AfforestNext \/ LinkEnd \/ SvNext \/ HookEnd \/ CompressEnd
============================================================================
