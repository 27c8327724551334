---------------------------- MODULE GapThreads ----------------------------
(***************************************************************************)
(* The frame of the GAP kernels: a team of OpenMP threads that share the   *)
(* iterations of a parallel for, between serial steps of the kernel.       *)
(*                                                                         *)
(* todo holds the iterations (or chunks of iterations) nobody has taken.   *)
(* Any thread may take any of them: that covers the static and the dynamic *)
(* schedules.  A thread that finds none left ends the loop; when all have, *)
(* the kernel takes its next serial step.  mem is the shared memory of the *)
(* kernel that runs, a record whose fields are its arrays and scalars.     *)
(*                                                                         *)
(* A thread's record w[t] keeps where it is (pc), the iteration it works   *)
(* on (u), what of it is left (nb) and values it has read (x, y).          *)
(***************************************************************************)
EXTENDS Integers, Sequences, FiniteSets, SequencesExt, Functions

CONSTANTS
    Workers,        \* the threads of the team
    kBitsPerWord,   \* bits in a word of a Bitmap
    BuChunk,        \* consecutive nodes per chunk of BUStep (1024 in the code)
    local_size      \* capacity of a QueueBuffer

ASSUME GapAssumption ==
    /\ Workers # {} /\ IsFiniteSet(Workers)
    /\ {kBitsPerWord, BuChunk, local_size} \subseteq Nat \ {0}

VARIABLES run, phase, todo, w, mem
vars == <<run, phase, todo, w, mem>>

Nodes(g) == 0 .. g.n - 1
out_neigh(g, u) == g.out[u + 1]
in_neigh(g, u) == g.in[u + 1]
out_degree(g, u) == Len(out_neigh(g, u))
num_edges_directed(g) == SumFunctionOnSet([u \in Nodes(g) |-> out_degree(g, u)], Nodes(g))
Edge(g, u, v) == \E i \in 1 .. out_degree(g, u) : out_neigh(g, u)[i] = v

Free == [pc |-> "grab", u |-> 0, nb |-> <<>>, x |-> 0, y |-> 0]

\* Thread t takes an iteration and goes to pc with rest[i] left to do.
Grab(t, pc, rest) ==
    /\ w[t].pc = "grab"
    /\ \E i \in todo :
         /\ todo' = todo \ {i}
         /\ w' = [w EXCEPT ![t] = [@ EXCEPT !.pc = pc, !.u = i, !.nb = rest[i]]]
    /\ UNCHANGED <<run, phase, mem>>

\* Thread t goes on with its iteration, or with the next one.
Go(t, pc) == w' = [w EXCEPT ![t].pc = pc]
Advance(t, pc) == w' = [w EXCEPT ![t].nb = Tail(@), ![t].pc = pc]

LoopEnd(t) == w[t].pc = "grab" /\ todo = {}
AllEnd == todo = {} /\ \A t \in Workers : w[t].pc = "end"

\* A loop without anything to do at its end.
EndLoop(t) == LoopEnd(t) /\ Go(t, "end") /\ UNCHANGED <<run, phase, todo, mem>>

\* The serial step after a loop: next phase, its iterations, the team free.
StartLoop(p, items) ==
    /\ phase' = p
    /\ todo' = items
    /\ w' = [t \in Workers |-> Free]
    /\ UNCHANGED run

----------------------------------------------------------------------------
(* SlidingQueue: an array filled at the end, a window [start, end) of it   *)
(* being processed.  QueueBuffer: a thread's own buffer in front of it.    *)
Queue(s) == [queue |-> s, start |-> 0, end |-> Len(s)]
Window(m) == {m.queue[i] : i \in m.start + 1 .. m.end}
QueueEmpty(m) == m.start = m.end
slide_window(m) == [m EXCEPT !.start = m.end, !.end = Len(m.queue)]

flush(m, t) == [m EXCEPT !.queue = @ \o m.lq[t], !.lq[t] = <<>>]
push_back(m, t, v) ==
    LET f == IF Len(m.lq[t]) = local_size THEN flush(m, t) ELSE m
    IN  [f EXCEPT !.lq[t] = Append(@, v)]

\* lqueue.flush() at the end of a loop.
FlushAtEnd(t) ==
    /\ LoopEnd(t)
    /\ mem' = flush(mem, t)
    /\ Go(t, "end")
    /\ UNCHANGED <<run, phase, todo>>

\* Bitmaps are sets of nodes; Word(g, u) is the word of the bit of u.
Word(g, u) == {v \in Nodes(g) : v \div kBitsPerWord = u \div kBitsPerWord}
============================================================================
