------------------------------- MODULE GapCsr -------------------------------
(***************************************************************************)
(* builder.h: MakeCSR.  Threads count the degrees of the edges' ends, then *)
(* place each edge at a position taken by fetch_and_add on the offset of   *)
(* its node; SquishGraph then cleans every list.  A directed graph is      *)
(* built twice, the second time transposed.                                *)
(***************************************************************************)
EXTENDS GapThreads

B == INSTANCE GapBuild

CsrPass(r, transpose) ==
    [transpose |-> transpose,
     degrees |-> B!Arr(r.n, LAMBDA u : 0),
     offsets |-> B!Arr(r.n + 1, LAMBDA u : 0),
     index |-> B!Arr(r.n + 1, LAMBDA u : 0),
     neighs |-> B!Arr(0, LAMBDA i : 0)]

CsrMem(r) == CsrPass(r, FALSE) @@ [out |-> <<>>, in |-> <<>>]

\* The ends of an edge that get an entry in this pass, with the other end.
Entries(e) ==
    (IF run.symmetrize \/ ~mem.transpose THEN <<<<e[1], e[2]>>>> ELSE <<>>)
    \o (IF run.symmetrize \/ mem.transpose THEN <<<<e[2], e[1]>>>> ELSE <<>>)

CsrStart == phase = "csr" /\ UNCHANGED mem /\ StartLoop("count", DOMAIN run.el)

CountGrab(t) == phase = "count" /\ Grab(t, "add", [i \in todo |-> Entries(run.el[i])])

CountAdd(t) ==
    /\ phase = "count" /\ w[t].pc = "add"
    /\ IF w[t].nb = <<>> THEN w' = [w EXCEPT ![t] = Free] /\ UNCHANGED mem
       ELSE /\ mem' = [mem EXCEPT !.degrees[Head(w[t].nb)[1]] = @ + 1]
            /\ Advance(t, "add")
    /\ UNCHANGED <<run, phase, todo>>

CountEnd ==
    /\ phase = "count" /\ AllEnd
    /\ LET offsets == B!ParallelPrefixSum(mem.degrees, run.block_size)
       IN  mem' = [mem EXCEPT !.offsets = offsets, !.index = offsets,
                              !.neighs = B!Arr(offsets[run.n], LAMBDA i : -1)]
    /\ StartLoop("fill", DOMAIN run.el)

FillGrab(t) == phase = "fill" /\ Grab(t, "take", [i \in todo |-> Entries(run.el[i])])

FillTake(t) ==
    /\ phase = "fill" /\ w[t].pc = "take"
    /\ IF w[t].nb = <<>> THEN w' = [w EXCEPT ![t] = Free] /\ UNCHANGED mem
       ELSE /\ mem' = [mem EXCEPT !.offsets[Head(w[t].nb)[1]] = @ + 1]
            /\ w' = [w EXCEPT ![t].pc = "put", ![t].x = mem.offsets[Head(w[t].nb)[1]]]
    /\ UNCHANGED <<run, phase, todo>>

FillPut(t) ==
    /\ phase = "fill" /\ w[t].pc = "put"
    /\ mem' = [mem EXCEPT !.neighs[w[t].x] = Head(w[t].nb)[2]]
    /\ Advance(t, "take")
    /\ UNCHANGED <<run, phase, todo>>

Squished ==
    [n \in 0 .. run.n - 1 |->
        B!SquishCSR(n, B!Slice(mem.neighs, mem.index[n], mem.index[n + 1]))]

FillEnd ==
    /\ phase = "fill" /\ AllEnd
    /\ IF ~run.symmetrize /\ ~mem.transpose
       THEN /\ mem' = CsrPass(run, TRUE) @@ [out |-> Squished, in |-> <<>>]
            /\ StartLoop("csr", {})
       ELSE /\ mem' = IF mem.transpose THEN [mem EXCEPT !.in = Squished]
                      ELSE [mem EXCEPT !.out = Squished, !.in = Squished]
            /\ StartLoop("done", {})

CsrStep(t) ==
    \/ CountGrab(t) \/ CountAdd(t) \/ FillGrab(t) \/ FillTake(t) \/ FillPut(t)
    \/ phase \in {"count", "fill"} /\ EndLoop(t)

CsrSerial == CsrStart \/ CountEnd \/ FillEnd
============================================================================
