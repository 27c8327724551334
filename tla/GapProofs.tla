----------------------------- MODULE GapProofs -----------------------------
(***************************************************************************)
(* Theorems about the GAP kernels, for every graph, every team of threads  *)
(* and every schedule.                                                     *)
(***************************************************************************)
EXTENDS Gap, SequenceTheorems, FiniteSetTheorems, WellFoundedInduction, TLAPS

----------------------------------------------------------------------------
(* Connected components: Afforest (cc) and Shiloach-Vishkin (sv).          *)

N == Nodes(run.g)
CcRun == run.kernel \in {"cc", "sv"}

CcPhase ==
  IF run.kernel = "cc" THEN {"cc_top", "link", "link_rest", "compress", "done"}
  ELSE {"sv_top", "hook", "compress", "done"}

LinkPcs == {"p1", "p2", "high", "cas", "up", "up2"}
HookPcs == {"hu", "hv", "root", "set"}
SweepPcs == {"cmp", "jump"}
AllPcs == {"grab", "end"} \cup LinkPcs \cup HookPcs \cup SweepPcs
Pcs == {"grab", "end"} \cup (IF phase \in {"link", "link_rest"} THEN LinkPcs
                             ELSE IF phase = "hook" THEN HookPcs
                             ELSE IF phase = "compress" THEN SweepPcs ELSE {})

CcType ==
  /\ run \in Runs /\ CcRun /\ phase \in CcPhase /\ todo \subseteq N
  /\ w \in [Workers -> [pc : AllPcs, u : Int, nb : Seq(Int), x : Int, y : Int]]
  /\ \A t \in Workers : w[t].pc \in Pcs
  /\ mem \in [comp : [N -> N], c : Int, round : Nat, change : BOOLEAN]

Joined(u, v) == v \in N /\ (Edge(run.g, u, v) \/ Edge(run.g, v, u))

\* A thread between two accesses: what it has read belongs to the component of
\* the edge it works on; whoever is about to shorten a path is not at a root.
CcThread(t) ==
  /\ w[t].pc \notin {"grab", "end"} =>
       w[t].u \in N /\ \A i \in DOMAIN w[t].nb : Joined(w[t].u, w[t].nb[i])
  /\ w[t].pc \in {"p2", "high", "cas", "up", "up2", "hv", "root", "set"} =>
       w[t].nb # <<>> /\ w[t].x \in N /\ run.ref[w[t].x] = run.ref[w[t].u]
  /\ w[t].pc \in {"high", "cas", "up", "up2", "root", "set"} =>
       w[t].y \in N /\ run.ref[w[t].y] = run.ref[w[t].u]
  /\ w[t].pc \in {"root", "set"} => w[t].x # w[t].y
  /\ w[t].pc = "jump" => mem.comp[w[t].u] # w[t].u

\* Nodes in one tree of comp: no set that comp does not lead out of or into
\* separates them.
Whole(S) == \A v \in N : v \in S <=> mem.comp[v] \in S
Linked(u, v) == \A S \in SUBSET N : Whole(S) => (u \in S <=> v \in S)

Flat == \A v \in N : mem.comp[mem.comp[v]] = mem.comp[v]
Agreed == \A u, v \in N : Edge(run.g, u, v) => mem.comp[u] = mem.comp[v]

\* A thread is still to treat the neighbour v of u.
Pending(u, v) == \E t \in Workers : /\ w[t].pc \notin {"grab", "end"} /\ w[t].u = u
                                    /\ \E i \in DOMAIN w[t].nb : w[t].nb[i] = v

\* Link(u, v): the two trees the thread stands on are those of u and of v.
Standing(t) ==
  LET u == w[t].u
      v == Head(w[t].nb)
      x == w[t].x
      y == w[t].y
  IN  /\ w[t].pc = "p2" => Linked(u, x)
      /\ w[t].pc \in {"high", "cas", "up", "up2"} =>
           (Linked(u, x) /\ Linked(v, y)) \/ (Linked(u, y) /\ Linked(v, x))

\* The neighbours that u is linked with in this loop.
Due(u) ==
  LET out == out_neigh(run.g, u)
      in == in_neigh(run.g, u)
  IN  IF phase = "link" THEN {out[i] : i \in {i \in DOMAIN out : i = mem.round + 1}}
      ELSE {out[i] : i \in {i \in DOMAIN out : i > run.neighbor_rounds}}
           \cup (IF run.g.directed THEN {in[i] : i \in DOMAIN in} ELSE {})

\* The first rounds' neighbours are in one tree with their nodes.
RoundsDone ==
  \A u \in N : \A i \in DOMAIN out_neigh(run.g, u) :
    i <= mem.round => Linked(u, out_neigh(run.g, u)[i])

AfforestInv ==
  /\ phase \in {"cc_top", "link", "link_rest"} =>
       RoundsDone /\ mem.round <= run.neighbor_rounds
  /\ phase = "link" => mem.round < run.neighbor_rounds
  /\ phase = "link_rest" => mem.round = run.neighbor_rounds
  /\ phase \in {"link", "link_rest"} =>
       /\ \A t \in Workers : Standing(t)
       /\ \A u \in N \ todo : \/ phase = "link_rest" /\ Linked(u, mem.c)
                              \/ \A v \in Due(u) : Linked(u, v) \/ Pending(u, v)
  /\ phase = "compress" =>
       IF mem.round <= run.neighbor_rounds THEN RoundsDone
       ELSE \A u, v \in N : Edge(run.g, u, v) => Linked(u, v)

\* What a hooking thread has read is what comp still says.
Current(t) ==
  /\ w[t].pc \in {"hv", "root", "set"} => w[t].x = mem.comp[w[t].u]
  /\ w[t].pc \in {"root", "set"} => w[t].y = mem.comp[Head(w[t].nb)]

\* A round of hooking that has not changed anything so far has seen every edge
\* it treated between nodes of the same root.
HookInv ==
  /\ phase = "sv_top" => Flat
  /\ phase = "hook" /\ ~mem.change =>
       /\ Flat
       /\ \A t \in Workers : Current(t)
       /\ \A u \in N \ todo : \A v \in N :
            Edge(run.g, u, v) => mem.comp[u] = mem.comp[v] \/ Pending(u, v)
  /\ phase = "compress" /\ ~mem.change => Flat /\ Agreed

\* A node that Compress is through with points to a root.
SweepInv ==
  phase = "compress" => \A n \in N \ todo :
    \/ mem.comp[mem.comp[n]] = mem.comp[n]
    \/ \E t \in Workers : w[t].pc \in SweepPcs /\ w[t].u = n

ComponentsInv ==
  /\ CcType /\ CcInv
  /\ \A t \in Workers : CcThread(t)
  /\ run.kernel = "cc" => AfforestInv
  /\ run.kernel = "sv" => HookInv
  /\ SweepInv
  /\ phase = "done" => Agreed

\* What the assumption on the runs says of the one at hand.
LEMMA TheRun ==
  ASSUME CcType
  PROVE  /\ IsGraph(run.g) /\ IsComponents(run.g, run.ref)
         /\ run.neighbor_rounds \in Nat /\ run.g.directed \in BOOLEAN
         /\ run.kernel \in {"cc", "sv"} /\ N \subseteq Nat
<1>1. run \in Runs /\ run.kernel \in {"cc", "sv"}
  BY DEF CcType, CcRun
<1>2. /\ IsGraph(run.g) /\ IsComponents(run.g, run.ref)
      /\ run.neighbor_rounds \in Nat /\ run.g.directed \in BOOLEAN
  BY <1>1, RunsAssumption
<1>3. run.g.n \in Nat
  BY <1>2 DEF IsGraph
<1>4. N \subseteq Nat
  BY <1>3 DEF N, Nodes
<1> QED
  BY <1>1, <1>2, <1>4

\* The kernels have phases of their own.
LEMMA OnlyComponents ==
  ASSUME CcType, Next
  PROVE  \/ \E t \in Workers : CcStep(t)
         \/ CcSerial \/ Stop
<1>1. phase \in {"cc_top", "link", "link_rest", "compress", "done", "sv_top", "hook"}
  BY DEF CcType, CcPhase
<1>2. ~BfsSerial
  BY <1>1 DEF BfsSerial, DOBFS, TDEnd, Q2BEnd, BUEnd, B2QEnd
<1>3. ~BcSerial
  BY <1>1 DEF BcSerial, PBFSLevel, BcLevelEnd, BcUp, BcBackEnd
<1>4. ~SsspSerial
  BY <1>1 DEF SsspSerial, SsspTop, RelaxEnd, CopyEnd
<1>5. ~CsrSerial
  BY <1>1 DEF CsrSerial, CsrStart, CountEnd, FillEnd
<1>6. ASSUME NEW t \in Workers PROVE ~BfsStep(t)
  BY <1>1 DEF BfsStep, TDGrab, TDRead, TDCas, Q2BGrab, Q2BRead, Q2BCas, BUGrab, BUNode, BUStore, B2QNode
<1>7. ASSUME NEW t \in Workers PROVE ~BcStep(t)
  BY <1>1 DEF BcStep, BcGrab, BcRead, BcCas, BcSucc, BcCount, BcBack
<1>8. ASSUME NEW t \in Workers PROVE ~SsspStep(t)
  BY <1>1 DEF SsspStep, SsspGrab, RelaxOld, RelaxNew, RelaxCas, RelaxReread, FuseBin, ProposeBin, CopyBin
<1>9. ASSUME NEW t \in Workers PROVE ~CsrStep(t)
  BY <1>1 DEF CsrStep, CountGrab, CountAdd, FillGrab, FillTake, FillPut
<1> QED
  BY <1>2, <1>3, <1>4, <1>5, <1>6, <1>7, <1>8, <1>9 DEF Next, Work, Serial, Step

----------------------------------------------------------------------------
(* Trees.                                                                  *)

\* Being in one tree is an equivalence, and a node is in one with its parent.
LEMMA LinkedFacts ==
  ASSUME mem.comp \in [N -> N]
  PROVE  /\ \A u : Linked(u, u)
         /\ \A u, v : Linked(u, v) => Linked(v, u)
         /\ \A u, v, x : Linked(u, v) /\ Linked(v, x) => Linked(u, x)
         /\ \A v \in N : Linked(v, mem.comp[v])
BY DEF Linked, Whole

\* A step after which fewer sets are whole tears no tree apart.
LEMMA LinkedStays ==
  ASSUME run' = run, \A S \in SUBSET N : Whole(S)' => Whole(S)
  PROVE  \A u, v : Linked(u, v) => Linked(u, v)'
BY DEF Linked, N

\* Hooking a root, as compare-and-swap does it, tears no tree apart ...
LEMMA HookKeeps ==
  ASSUME run' = run, mem.comp \in [N -> N], NEW h \in N, NEW l \in N, mem.comp[h] = h,
         mem'.comp = [mem.comp EXCEPT ![h] = l]
  PROVE  \A u, v : Linked(u, v) => Linked(u, v)'
<1>1. ASSUME NEW S \in SUBSET N, Whole(S)'
      PROVE  Whole(S)
  <2> SUFFICES ASSUME NEW v \in N PROVE v \in S <=> mem.comp[v] \in S
    BY DEF Whole
  <2>1. CASE v = h
    BY <2>1
  <2>2. CASE v # h
    BY <1>1, <2>2 DEF Whole, N
  <2> QED
    BY <2>1, <2>2
<1> QED
  BY <1>1, LinkedStays

\* ... nor does shortening a path.
LEMMA JumpKeeps ==
  ASSUME run' = run, mem.comp \in [N -> N], NEW n \in N,
         mem'.comp = [mem.comp EXCEPT ![n] = mem.comp[mem.comp[n]]]
  PROVE  \A u, v : Linked(u, v) => Linked(u, v)'
<1> DEFINE p == mem.comp[n]
<1>1. ASSUME NEW S \in SUBSET N, Whole(S)'
      PROVE  Whole(S)
  <2> SUFFICES ASSUME NEW v \in N PROVE v \in S <=> mem.comp[v] \in S
    BY DEF Whole
  <2>0. \A x \in N : x \in S <=> mem'.comp[x] \in S
    BY <1>1 DEF Whole, N
  <2>1. CASE v # n
    BY <2>0, <2>1
  <2>2. CASE v = n /\ p = n
    BY <2>2
  <2>3. CASE v = n /\ p # n
    <3>1. p \in N /\ mem'.comp[p] = mem.comp[p] /\ mem'.comp[n] = mem.comp[p]
      BY <2>3
    <3> QED
      BY <2>0, <2>3, <3>1
  <2> QED
    BY <2>1, <2>2, <2>3
<1> QED
  BY <1>1, LinkedStays

\* If every node points to its root, two nodes of a tree point to the same one.
LEMMA FlatTrees ==
  ASSUME mem.comp \in [N -> N], Flat, NEW u \in N, NEW v \in N, Linked(u, v)
  PROVE  mem.comp[u] = mem.comp[v]
<1> DEFINE S == {x \in N : mem.comp[x] = mem.comp[u]}
<1>1. Whole(S)
  BY DEF Whole, Flat
<1> QED
  BY <1>1 DEF Linked

----------------------------------------------------------------------------
(* The steps of a thread.                                                  *)

CcRecord == [pc : AllPcs, u : Int, nb : Seq(Int), x : Int, y : Int]

Others(t) == \A s \in Workers \ {t} : w'[s] = w[s]

\* Thread t goes on to pc with what it has.
LEMMA Went ==
  ASSUME CcType, NEW t \in Workers, NEW pc \in AllPcs, Go(t, pc)
  PROVE  /\ w' \in [Workers -> CcRecord] /\ Others(t)
         /\ w'[t] = [w[t] EXCEPT !.pc = pc]
         /\ w'[t].pc = pc /\ w'[t].u = w[t].u /\ w'[t].nb = w[t].nb
         /\ w'[t].x = w[t].x /\ w'[t].y = w[t].y
BY DEF CcType, CcRecord, Go, Others

\* Thread t is through with the first of its neighbours.
LEMMA Advanced ==
  ASSUME CcType, NEW t \in Workers, NEW pc \in AllPcs, w[t].nb # <<>>, Advance(t, pc)
  PROVE  /\ w' \in [Workers -> CcRecord] /\ Others(t)
         /\ w'[t].pc = pc /\ w'[t].u = w[t].u
         /\ w'[t].x = w[t].x /\ w'[t].y = w[t].y
         /\ w'[t].nb = Tail(w[t].nb)
         /\ \A i \in DOMAIN w'[t].nb : i + 1 \in DOMAIN w[t].nb /\ w'[t].nb[i] = w[t].nb[i + 1]
         /\ \A i \in DOMAIN w[t].nb : i # 1 => i - 1 \in DOMAIN w'[t].nb
         /\ 1 \in DOMAIN w[t].nb /\ Head(w[t].nb) = w[t].nb[1]
<1>1. w[t] \in CcRecord /\ w[t].nb \in Seq(Int)
  BY DEF CcType, CcRecord
<1>2. Tail(w[t].nb) \in Seq(Int) /\ Len(Tail(w[t].nb)) = Len(w[t].nb) - 1 /\ Len(w[t].nb) \in Nat \ {0}
      /\ \A i \in 1 .. Len(Tail(w[t].nb)) : Tail(w[t].nb)[i] = w[t].nb[i + 1]
  BY <1>1, HeadTailProperties, EmptySeq, LenProperties
<1>3. /\ w' \in [Workers -> CcRecord] /\ Others(t)
      /\ w'[t].pc = pc /\ w'[t].u = w[t].u
      /\ w'[t].x = w[t].x /\ w'[t].y = w[t].y
      /\ w'[t].nb = Tail(w[t].nb)
  BY <1>1, <1>2 DEF CcType, CcRecord, Advance, Others
<1>4. DOMAIN w[t].nb = 1 .. Len(w[t].nb) /\ DOMAIN w'[t].nb = 1 .. Len(w[t].nb) - 1
  BY <1>1, <1>2, <1>3, LenProperties
<1>5. Head(w[t].nb) = w[t].nb[1]
  BY <1>1, HeadTailProperties
<1> QED
  BY <1>2, <1>3, <1>4, <1>5

\* What a free thread has is a record of the right type.
LEMMA FreeRecord == Free \in CcRecord
BY EmptySeq DEF Free, CcRecord, AllPcs

\* Thread t is free again.
LEMMA Freed ==
  ASSUME CcType, NEW t \in Workers, w' = [w EXCEPT ![t] = Free]
  PROVE  w' \in [Workers -> CcRecord] /\ Others(t) /\ w'[t] = Free /\ w'[t].pc = "grab"
<1> QED
  BY FreeRecord DEF CcType, Others, Free, CcRecord

\* Thread t takes an iteration.
LEMMA Grabbed ==
  ASSUME CcType, NEW t \in Workers, NEW pc \in AllPcs, NEW rest \in [todo -> Seq(N)], Grab(t, pc, rest)
  PROVE  \E i \in todo :
           /\ todo' = todo \ {i} /\ w[t].pc = "grab"
           /\ UNCHANGED <<run, phase, mem>>
           /\ w' \in [Workers -> CcRecord] /\ Others(t)
           /\ w'[t].pc = pc /\ w'[t].u = i /\ w'[t].nb = rest[i]
<1>1. PICK i \in todo :
        /\ todo' = todo \ {i} /\ w[t].pc = "grab" /\ UNCHANGED <<run, phase, mem>>
        /\ w' = [w EXCEPT ![t] = [@ EXCEPT !.pc = pc, !.u = i, !.nb = rest[i]]]
  BY DEF Grab
<1>2. N \subseteq Int /\ i \in Int
  BY TheRun DEF CcType
<1>3. rest[i] \in Seq(Int)
  BY <1>2, SeqMonotonic
<1>4. w[t] \in CcRecord
  BY DEF CcType, CcRecord
<1>5. [w[t] EXCEPT !.pc = pc, !.u = i, !.nb = rest[i]] \in CcRecord
  BY <1>2, <1>3, <1>4 DEF CcRecord
<1> QED
  BY <1>1, <1>4, <1>5 DEF CcType, Others, CcRecord

\* The lists of a node hold nodes it is joined to by an edge, all of them.
LEMMA Neighbours ==
  ASSUME CcType, NEW u \in N
  PROVE  LET out == out_neigh(run.g, u)
             in == in_neigh(run.g, u)
         IN  /\ out \in Seq(N) /\ in \in Seq(N)
             /\ Len(out) \in Nat /\ DOMAIN out = 1 .. Len(out)
             /\ Len(in) \in Nat /\ DOMAIN in = 1 .. Len(in)
             /\ \A i \in DOMAIN out : Joined(u, out[i]) /\ Edge(run.g, u, out[i])
             /\ \A i \in DOMAIN in : Joined(u, in[i]) /\ Edge(run.g, in[i], u)
             /\ \A v \in N : Edge(run.g, u, v) => \E i \in DOMAIN out : out[i] = v
             /\ \A v \in N : Edge(run.g, v, u) => \E i \in DOMAIN in : in[i] = v
<1> DEFINE out == out_neigh(run.g, u)
           in == in_neigh(run.g, u)
<1>1. IsGraph(run.g)
  BY TheRun
<1>2. u + 1 \in 1 .. run.g.n
  BY <1>1 DEF IsGraph, N, Nodes
<1>3. out \in Seq(N) /\ in \in Seq(N)
  BY <1>1, <1>2 DEF IsGraph, out_neigh, in_neigh, N
<1>4. /\ Len(out) \in Nat /\ DOMAIN out = 1 .. Len(out)
      /\ Len(in) \in Nat /\ DOMAIN in = 1 .. Len(in)
  BY <1>3, LenProperties
<1>5. \A v : Edge(run.g, u, v) <=> \E i \in DOMAIN out : out[i] = v
  BY <1>4 DEF Edge, out_degree
<1>6. \A v \in N : Edge(run.g, v, u) <=> \E i \in DOMAIN in : in[i] = v
  BY <1>1 DEF IsGraph, N
<1>7. \A i \in DOMAIN out : out[i] \in N
  BY <1>3, <1>4, ElementOfSeq
<1>8. \A i \in DOMAIN in : in[i] \in N
  BY <1>3, <1>4, ElementOfSeq
<1> QED
  BY <1>3, <1>4, <1>5, <1>6, <1>7, <1>8 DEF Joined

\* What LinkGrab gives a thread to do.
LEMMA RoundList ==
  ASSUME CcType, NEW u \in N, phase = "link"
  PROVE  LET s == SubSeq(out_neigh(run.g, u), mem.round + 1,
                         Lo(mem.round + 1, out_degree(run.g, u)))
         IN  /\ s \in Seq(N)
             /\ \A i \in DOMAIN s : s[i] \in Due(u)
             /\ \A v \in Due(u) : \E i \in DOMAIN s : s[i] = v
<1> DEFINE out == out_neigh(run.g, u)
           m == mem.round + 1
           n == Lo(m, Len(out))
           s == SubSeq(out, m, n)
<1>1. /\ out \in Seq(N) /\ Len(out) \in Nat /\ DOMAIN out = 1 .. Len(out)
      /\ \A i \in 1 .. Len(out) : out[i] \in N
  BY Neighbours, ElementOfSeq
<1>2. m \in Nat \ {0} /\ n \in Int /\ n <= Len(out) /\ (n = m \/ n < m)
      /\ (n = m <=> m <= Len(out))
  BY <1>1 DEF CcType, Lo
<1>3. Due(u) = {out[i] : i \in {i \in DOMAIN out : i = m}}
  BY DEF Due
<1> HIDE DEF m, n, out
<1>4. \A i \in m .. n : out[i] \in N
  BY <1>1, <1>2
<1>5. /\ s \in Seq(N) /\ Len(s) = (IF m <= n THEN n - m + 1 ELSE 0)
      /\ \A i \in 1 .. n - m + 1 : s[i] = out[m + i - 1]
  <2>1. m \in Int /\ n \in Int
    BY <1>2
  <2> QED
    BY <1>4, <2>1, SubSeqProperties
<1> HIDE DEF s
<1>6. DOMAIN s = 1 .. Len(s)
  BY <1>5, LenProperties
<1>7. \A i \in DOMAIN s : i = 1 /\ n = m /\ s[i] = out[m] /\ m \in DOMAIN out
  BY <1>1, <1>2, <1>5, <1>6
<1>8. ASSUME m \in DOMAIN out PROVE 1 \in DOMAIN s /\ s[1] = out[m]
  BY <1>1, <1>2, <1>5, <1>6, <1>8
<1> QED
  BY <1>3, <1>5, <1>7, <1>8 DEF s, n, m, out, out_degree

\* What LinkRestGrab gives a thread that does not skip the node.
LEMMA RestList ==
  ASSUME CcType, NEW u \in N, phase = "link_rest"
  PROVE  LET s == SubSeq(out_neigh(run.g, u), run.neighbor_rounds + 1, out_degree(run.g, u))
                  \o (IF run.g.directed THEN in_neigh(run.g, u) ELSE <<>>)
         IN  /\ s \in Seq(N)
             /\ \A i \in DOMAIN s : s[i] \in Due(u)
             /\ \A v \in Due(u) : \E i \in DOMAIN s : s[i] = v
<1> DEFINE out == out_neigh(run.g, u)
           in == in_neigh(run.g, u)
           m == run.neighbor_rounds + 1
           a == SubSeq(out, m, Len(out))
           b == IF run.g.directed THEN in ELSE <<>>
           s == a \o b
<1>1. /\ out \in Seq(N) /\ Len(out) \in Nat /\ DOMAIN out = 1 .. Len(out)
      /\ \A i \in 1 .. Len(out) : out[i] \in N
      /\ in \in Seq(N) /\ Len(in) \in Nat /\ DOMAIN in = 1 .. Len(in)
  BY Neighbours, ElementOfSeq
<1>2. m \in Nat \ {0} /\ \A i \in Int : i > run.neighbor_rounds <=> i >= m
  BY TheRun
<1>3. Due(u) = {out[i] : i \in {i \in DOMAIN out : i >= m}}
               \cup (IF run.g.directed THEN {in[i] : i \in DOMAIN in} ELSE {})
  <2>1. {i \in DOMAIN out : i >= m} = {i \in DOMAIN out : i > run.neighbor_rounds}
    BY <1>1, <1>2
  <2> QED
    BY <2>1 DEF Due
<1>4. b \in Seq(N) /\ Len(b) \in Nat /\ DOMAIN b = 1 .. Len(b)
      /\ {b[i] : i \in DOMAIN b} = IF run.g.directed THEN {in[i] : i \in DOMAIN in} ELSE {}
  <2>1. <<>> \in Seq(N) /\ Len(<<>>) = 0 /\ DOMAIN <<>> = {}
    BY EmptySeq
  <2> QED
    BY <1>1, <2>1, LenProperties
<1> HIDE DEF m, out, in, b
<1>5. \A i \in m .. Len(out) : out[i] \in N
  BY <1>1, <1>2
<1>6. /\ a \in Seq(N) /\ Len(a) = (IF m <= Len(out) THEN Len(out) - m + 1 ELSE 0)
      /\ \A i \in 1 .. Len(out) - m + 1 : a[i] = out[m + i - 1]
  BY <1>1, <1>2, <1>5, SubSeqProperties
<1> HIDE DEF a
<1>7. s \in Seq(N) /\ Len(s) = Len(a) + Len(b)
      /\ \A i \in 1 .. Len(a) + Len(b) : s[i] = IF i <= Len(a) THEN a[i] ELSE b[i - Len(a)]
  BY <1>4, <1>6, ConcatProperties
<1> HIDE DEF s
<1>8. DOMAIN s = 1 .. Len(a) + Len(b) /\ Len(a) \in Nat
  BY <1>1, <1>2, <1>6, <1>7, LenProperties
<1>9. ASSUME NEW i \in DOMAIN s PROVE s[i] \in Due(u)
  <2>1. CASE i <= Len(a)
    <3>0. i \in Nat \ {0} /\ s[i] = a[i]
      BY <1>4, <1>7, <1>8, <1>9, <2>1
    <3>1. i \in 1 .. Len(out) - m + 1 /\ s[i] = a[i] /\ i \in Nat
      BY <1>1, <1>2, <1>6, <2>1, <3>0
    <3>2. m + i - 1 \in 1 .. Len(out) /\ m + i - 1 >= m
      BY <1>1, <1>2, <3>1
    <3>3. a[i] = out[m + i - 1]
      BY <1>6, <3>1
    <3> QED
      BY <1>1, <1>3, <3>1, <3>2, <3>3
  <2>2. CASE ~(i <= Len(a))
    <3>1. i - Len(a) \in DOMAIN b /\ s[i] = b[i - Len(a)]
      BY <1>4, <1>7, <1>8, <1>9, <2>2
    <3> QED
      BY <1>3, <1>4, <3>1
  <2> QED
    BY <2>1, <2>2
<1>10. ASSUME NEW v \in Due(u) PROVE \E i \in DOMAIN s : s[i] = v
  <2>1. (\E i \in DOMAIN out : i >= m /\ v = out[i]) \/ (\E i \in DOMAIN b : v = b[i])
    BY <1>3, <1>4
  <2>2. ASSUME NEW i \in DOMAIN out, i >= m, v = out[i] PROVE \E j \in DOMAIN s : s[j] = v
    <3>1. i - m + 1 \in 1 .. Len(a) /\ a[i - m + 1] = out[i]
      BY <1>1, <1>2, <1>6, <2>2
    <3>2. i - m + 1 \in DOMAIN s /\ s[i - m + 1] = v
      BY <1>4, <1>7, <1>8, <2>2, <3>1
    <3> QED
      BY <3>2
  <2>3. ASSUME NEW i \in DOMAIN b, v = b[i] PROVE \E j \in DOMAIN s : s[j] = v
    <3>1. Len(a) + i \in DOMAIN s /\ s[Len(a) + i] = v
      BY <1>4, <1>7, <1>8, <2>3
    <3> QED
      BY <3>1
  <2> QED
    BY <2>1, <2>2, <2>3
<1> QED
  BY <1>7, <1>9, <1>10 DEF s, a, b, m, out, in, out_degree

----------------------------------------------------------------------------
(* Types, trees, and what threads have read.                               *)

\* What a thread's step leaves in order.
Sound(t) ==
  /\ CcType' /\ CcInv' /\ CcThread(t)' /\ Others(t)
  /\ run' = run /\ phase' = phase /\ mem'.c = mem.c /\ mem'.round = mem.round
  /\ \A v \in N : mem.comp[v] # v => mem'.comp[v] # v

\* A step that changes at most the thread and the iterations left.
LEMMA SoundHere ==
  ASSUME CcType, CcInv, NEW t \in Workers, UNCHANGED <<run, phase, mem>>, todo' \subseteq todo,
         w' \in [Workers -> CcRecord], Others(t), w'[t].pc \in Pcs, CcThread(t)'
  PROVE  Sound(t)
<1>1. \A s \in Workers : w'[s].pc \in Pcs
  BY DEF Others, CcType
<1>2. CcType'
  BY <1>1 DEF CcType, CcRun, CcPhase, N, Pcs, CcRecord
<1>3. CcInv'
  BY DEF CcInv
<1> QED
  BY <1>2, <1>3 DEF Sound

\* A step that also hooks h to a smaller node of the same component.
LEMMA SoundHook ==
  ASSUME CcType, CcInv, NEW t \in Workers, UNCHANGED <<run, phase, todo>>,
         NEW h \in N, NEW l \in N, l <= h, run.ref[l] = run.ref[h],
         mem.comp[h] # h => l # h,
         mem' \in [comp : [N -> N], c : Int, round : Nat, change : BOOLEAN],
         mem'.comp = [mem.comp EXCEPT ![h] = l], mem'.c = mem.c, mem'.round = mem.round,
         w' \in [Workers -> CcRecord], Others(t), w'[t].pc \in Pcs, CcThread(t)'
  PROVE  Sound(t)
<1>1. \A s \in Workers : w'[s].pc \in Pcs
  BY DEF Others, CcType
<1>2. CcType'
  BY <1>1 DEF CcType, CcRun, CcPhase, N, Pcs, CcRecord
<1>3. mem.comp \in [N -> N]
  BY DEF CcType
<1>4. CcInv'
  BY <1>3 DEF CcInv, N
<1>5. \A v \in N : mem.comp[v] # v => mem'.comp[v] # v
  BY <1>3
<1> QED
  BY <1>2, <1>4, <1>5 DEF Sound

\* A thread that has done with the first of its neighbours.
LEMMA AdvanceSound ==
  ASSUME CcType, NEW t \in Workers, CcThread(t), NEW pc \in {"p1", "hu"},
         w[t].pc \notin {"grab", "end"}, w[t].nb # <<>>, Advance(t, pc), run' = run
  PROVE  w' \in [Workers -> CcRecord] /\ Others(t) /\ w'[t].pc = pc /\ CcThread(t)'
<1>1. pc \in AllPcs
  BY DEF AllPcs, LinkPcs, HookPcs
<1>2. /\ w' \in [Workers -> CcRecord] /\ Others(t) /\ w'[t].pc = pc /\ w'[t].u = w[t].u
      /\ \A i \in DOMAIN w'[t].nb : i + 1 \in DOMAIN w[t].nb /\ w'[t].nb[i] = w[t].nb[i + 1]
  BY <1>1, Advanced
<1>3. CcThread(t)'
  BY <1>2 DEF CcThread, Joined, N
<1> QED
  BY <1>2, <1>3

\* A thread that goes on with what it has.
LEMMA GoSound ==
  ASSUME CcType, NEW t \in Workers, CcThread(t), NEW pc \in AllPcs, Go(t, pc), UNCHANGED <<run, mem>>,
         \/ pc = "end"
         \/ w[t].pc \in {"high", "cas"} /\ pc \in {"cas", "up"}
         \/ w[t].pc = "root" /\ pc = "set"
         \/ w[t].pc = "cmp" /\ pc = "jump" /\ mem.comp[w[t].u] # w[t].u
         \/ w[t].pc = "jump" /\ pc = "cmp"
  PROVE  w' \in [Workers -> CcRecord] /\ Others(t) /\ w'[t].pc = pc /\ CcThread(t)'
<1>1. /\ w' \in [Workers -> CcRecord] /\ Others(t) /\ w'[t].pc = pc
      /\ w'[t].pc = pc /\ w'[t].u = w[t].u /\ w'[t].nb = w[t].nb
      /\ w'[t].x = w[t].x /\ w'[t].y = w[t].y
  BY Went
<1>2. CcThread(t)'
  BY <1>1 DEF CcThread, Joined, N
<1> QED
  BY <1>1, <1>2

\* A thread that has taken a node and a list of nodes joined to it.
LEMMA GrabSound ==
  ASSUME CcType, CcInv, NEW t \in Workers, NEW pc \in Pcs \cap {"p1", "hu", "cmp"},
         NEW rest \in [todo -> Seq(N)], Grab(t, pc, rest),
         \A u \in todo : \A i \in DOMAIN rest[u] : Joined(u, rest[u][i])
  PROVE  Sound(t)
<1>1. pc \in AllPcs
  BY DEF AllPcs, LinkPcs, HookPcs, SweepPcs
<1>2. PICK i \in todo :
           /\ todo' = todo \ {i} /\ UNCHANGED <<run, phase, mem>>
           /\ w' \in [Workers -> CcRecord] /\ Others(t)
           /\ w'[t].pc = pc /\ w'[t].u = i /\ w'[t].nb = rest[i]
  BY <1>1, Grabbed
<1>3. CcThread(t)'
  BY <1>2 DEF CcThread, Joined, N, CcType
<1> QED
  BY <1>2, <1>3, SoundHere

\* A thread that is free again.
LEMMA FreeSound ==
  ASSUME CcType, CcInv, NEW t \in Workers, UNCHANGED <<run, phase, todo, mem>>,
         w' = [w EXCEPT ![t] = Free]
  PROVE  Sound(t)
<1>1. w' \in [Workers -> CcRecord] /\ Others(t) /\ w'[t].pc = "grab"
  BY Freed
<1>2. CcThread(t)' /\ "grab" \in Pcs
  BY <1>1 DEF CcThread, Pcs
<1> QED
  BY <1>1, <1>2, SoundHere

\* Facts about a thread that is at work.
LEMMA AtWork ==
  ASSUME CcType, CcInv, NEW t \in Workers, CcThread(t), w[t].pc \notin {"grab", "end"}
  PROVE  LET r == w[t]
         IN  /\ r.u \in N /\ run.ref[mem.comp[r.u]] = run.ref[r.u] /\ mem.comp[r.u] \in N
             /\ r.nb # <<>> => /\ Head(r.nb) \in N /\ Joined(r.u, Head(r.nb))
                               /\ run.ref[Head(r.nb)] = run.ref[r.u]
                               /\ run.ref[mem.comp[Head(r.nb)]] = run.ref[r.u]
                               /\ mem.comp[Head(r.nb)] \in N
             /\ r.x \in Int /\ r.y \in Int
             /\ r.x \in N /\ r.y \in N =>
                  /\ {Hi(r.x, r.y), Lo(r.x, r.y)} = {r.x, r.y} /\ Lo(r.x, r.y) <= Hi(r.x, r.y)
                  /\ r.x # r.y => Lo(r.x, r.y) # Hi(r.x, r.y)
<1> DEFINE r == w[t]
<1>1. IsComponents(run.g, run.ref) /\ mem.comp \in [N -> N]
  BY TheRun DEF CcType
<1>2. r.u \in N /\ run.ref[mem.comp[r.u]] = run.ref[r.u] /\ mem.comp[r.u] \in N
  BY <1>1 DEF CcThread, CcInv, N
<1>3. r \in CcRecord /\ r.nb \in Seq(Int) /\ r.x \in Int /\ r.y \in Int
  BY DEF CcType, CcRecord
<1>4. ASSUME r.nb # <<>>
      PROVE  /\ Head(r.nb) \in N /\ Joined(r.u, Head(r.nb))
             /\ run.ref[Head(r.nb)] = run.ref[r.u]
             /\ run.ref[mem.comp[Head(r.nb)]] = run.ref[r.u]
             /\ mem.comp[Head(r.nb)] \in N
  <2>1. Head(r.nb) = r.nb[1] /\ 1 \in DOMAIN r.nb
    BY <1>3, <1>4, EmptySeq, LenProperties
  <2>2. Joined(r.u, Head(r.nb)) /\ Head(r.nb) \in N
    BY <2>1 DEF CcThread, Joined
  <2>3. run.ref[Head(r.nb)] = run.ref[r.u]
    BY <1>1, <1>2, <2>2 DEF Joined, IsComponents, N
  <2>4. run.ref[mem.comp[Head(r.nb)]] = run.ref[r.u] /\ mem.comp[Head(r.nb)] \in N
    BY <1>1, <2>2, <2>3 DEF CcInv, N
  <2> QED
    BY <2>2, <2>3, <2>4
<1>5. r.x \in N /\ r.y \in N =>
        /\ {Hi(r.x, r.y), Lo(r.x, r.y)} = {r.x, r.y} /\ Lo(r.x, r.y) <= Hi(r.x, r.y)
        /\ r.x # r.y => Lo(r.x, r.y) # Hi(r.x, r.y)
  BY <1>3 DEF Hi, Lo
<1> QED
  BY <1>2, <1>3, <1>4, <1>5

\* Link: reading the two parents, and deciding.
LEMMA LinkSound ==
  ASSUME CcType, CcInv, NEW t \in Workers, CcThread(t),
         LinkGrab(t) \/ LinkRestGrab(t) \/ LinkP1(t) \/ LinkP2(t) \/ LinkHigh(t) \/ LinkCas(t)
           \/ LinkUp(t) \/ LinkUp2(t)
  PROVE  Sound(t)
<1> DEFINE r == w[t]
<1>0. /\ mem.comp \in [N -> N] /\ r \in CcRecord /\ DOMAIN w = Workers
      /\ \A v \in N : run.ref[mem.comp[v]] = run.ref[v]
      /\ N \subseteq Int
  BY TheRun DEF CcType, CcInv, CcRecord, N
<1>1. phase \in {"link", "link_rest"} /\ Pcs = {"grab", "end"} \cup LinkPcs
  BY DEF LinkGrab, LinkRestGrab, LinkP1, LinkP2, LinkHigh, LinkCas, LinkUp, LinkUp2, Linking, Pcs
<1>2. CASE LinkGrab(t)
  <2> DEFINE rest == [u \in todo |-> SubSeq(out_neigh(run.g, u), mem.round + 1,
                                            Lo(mem.round + 1, out_degree(run.g, u)))]
  <2>1. phase = "link" /\ Grab(t, "p1", rest) /\ todo \subseteq N
    BY <1>2 DEF LinkGrab, CcType
  <2>2. \A u \in todo : rest[u] \in Seq(N) /\ \A i \in DOMAIN rest[u] : rest[u][i] \in Due(u)
    BY <2>1, RoundList
  <2>3. \A u \in todo : \A v \in Due(u) : Joined(u, v)
    BY <2>1, Neighbours DEF Due
  <2> HIDE DEF rest
  <2>4. rest \in [todo -> Seq(N)]
    BY <2>2 DEF rest
  <2> QED
    BY <1>1, <2>1, <2>2, <2>3, <2>4, GrabSound DEF LinkPcs
<1>3. CASE LinkRestGrab(t)
  <2> DEFINE s(u) == SubSeq(out_neigh(run.g, u), run.neighbor_rounds + 1, out_degree(run.g, u))
                       \o (IF run.g.directed THEN in_neigh(run.g, u) ELSE <<>>)
             rest == [u \in todo |-> IF mem.comp[u] = mem.c THEN <<>> ELSE s(u)]
  <2>1. phase = "link_rest" /\ Grab(t, "p1", rest) /\ todo \subseteq N
    BY <1>3 DEF LinkRestGrab, CcType
  <2>2. \A u \in todo : s(u) \in Seq(N) /\ \A i \in DOMAIN s(u) : s(u)[i] \in Due(u)
    BY <2>1, RestList
  <2>3. \A u \in todo : \A v \in Due(u) : Joined(u, v)
    BY <2>1, Neighbours DEF Due
  <2>4. <<>> \in Seq(N) /\ DOMAIN <<>> = {}
    BY EmptySeq
  <2> HIDE DEF s
  <2>5. \A u \in todo : rest[u] \in Seq(N) /\ \A i \in DOMAIN rest[u] : rest[u][i] \in Due(u)
    BY <2>2, <2>4
  <2>6. rest \in [todo -> Seq(N)]
    BY <2>5
  <2> HIDE DEF rest
  <2> QED
    BY <1>1, <2>1, <2>3, <2>5, <2>6, GrabSound DEF LinkPcs
<1>4. CASE LinkP1(t)
  <2>1. CASE r.nb = <<>>
    BY <1>4, <2>1, FreeSound DEF LinkP1
  <2>2. CASE r.nb # <<>>
    <3> DEFINE e == [r EXCEPT !.pc = "p2", !.x = mem.comp[r.u]]
    <3>1. w' = [w EXCEPT ![t] = e] /\ UNCHANGED <<run, phase, todo, mem>> /\ r.pc = "p1"
      BY <1>4, <2>2 DEF LinkP1, Linking
    <3>2. r.u \in N /\ run.ref[mem.comp[r.u]] = run.ref[r.u] /\ mem.comp[r.u] \in N
      BY <3>1, AtWork
    <3>3. e \in CcRecord /\ e.pc = "p2" /\ e.u = r.u /\ e.nb = r.nb /\ e.x = mem.comp[r.u]
      BY <1>0, <3>2 DEF CcRecord, AllPcs, LinkPcs
    <3> HIDE DEF e
    <3>4. w' \in [Workers -> CcRecord] /\ Others(t) /\ w'[t] = e
      BY <3>1, <3>3 DEF CcType, CcRecord, Others
    <3>5. CcThread(t)'
      BY <2>2, <3>1, <3>2, <3>3, <3>4 DEF CcThread, Joined, N
    <3> QED
      BY <1>1, <3>1, <3>3, <3>4, <3>5, SoundHere DEF LinkPcs
  <2> QED
    BY <2>1, <2>2
<1>5. CASE LinkP2(t)
  <2> DEFINE e == [r EXCEPT !.pc = "high", !.y = mem.comp[Head(r.nb)]]
  <2>1. w' = [w EXCEPT ![t] = e] /\ UNCHANGED <<run, phase, todo, mem>> /\ r.pc = "p2"
    BY <1>5 DEF LinkP2, Linking
  <2>2. /\ r.nb # <<>> /\ r.u \in N /\ r.x \in N /\ run.ref[r.x] = run.ref[r.u]
        /\ mem.comp[Head(r.nb)] \in N /\ run.ref[mem.comp[Head(r.nb)]] = run.ref[r.u]
    BY <2>1, AtWork DEF CcThread
  <2>3. /\ e \in CcRecord /\ e.pc = "high" /\ e.u = r.u /\ e.nb = r.nb /\ e.x = r.x
        /\ e.y = mem.comp[Head(r.nb)]
    BY <1>0, <2>2 DEF CcRecord, AllPcs, LinkPcs
  <2> HIDE DEF e
  <2>4. w' \in [Workers -> CcRecord] /\ Others(t) /\ w'[t] = e
    BY <2>1, <2>3 DEF CcType, CcRecord, Others
  <2>5. CcThread(t)'
    BY <2>1, <2>2, <2>3, <2>4 DEF CcThread, Joined, N
  <2> QED
    BY <1>1, <2>1, <2>3, <2>4, <2>5, SoundHere DEF LinkPcs
<1>6. CASE LinkHigh(t)
  <2>1. UNCHANGED <<run, phase, todo, mem>> /\ r.pc = "high" /\ r.nb # <<>>
    BY <1>6 DEF LinkHigh, Linking, CcThread
  <2>2. Advance(t, "p1") \/ Go(t, "cas") \/ Go(t, "up")
    BY <1>6 DEF LinkHigh
  <2>3. "cas" \in AllPcs /\ "up" \in AllPcs /\ {"cas", "up", "p1"} \subseteq Pcs
    BY <1>1 DEF AllPcs, LinkPcs
  <2>4. w' \in [Workers -> CcRecord] /\ Others(t) /\ w'[t].pc \in Pcs /\ CcThread(t)'
    BY <2>1, <2>2, <2>3, AdvanceSound, GoSound
  <2> QED
    BY <2>1, <2>4, SoundHere
<1>7. CASE LinkCas(t)
  <2> DEFINE h == Hi(r.x, r.y)
             l == Lo(r.x, r.y)
  <2>1. UNCHANGED <<run, phase, todo>> /\ r.pc = "cas" /\ r.nb # <<>>
    BY <1>7 DEF LinkCas, Linking, CcThread
  <2>2. r.x \in N /\ r.y \in N /\ run.ref[r.x] = run.ref[r.u] /\ run.ref[r.y] = run.ref[r.u]
    BY <2>1 DEF CcThread
  <2>3. h \in N /\ l \in N /\ l <= h /\ run.ref[l] = run.ref[h]
    BY <2>1, <2>2, AtWork
  <2>4. "up" \in AllPcs /\ {"up", "p1"} \subseteq Pcs
    BY <1>1 DEF AllPcs, LinkPcs
  <2>5. CASE mem.comp[h] = h
    <3>1. mem' = [mem EXCEPT !.comp[h] = l] /\ Advance(t, "p1")
      BY <1>7, <2>5 DEF LinkCas
    <3> HIDE DEF h, l
    <3>2. /\ mem' \in [comp : [N -> N], c : Int, round : Nat, change : BOOLEAN]
          /\ mem'.comp = [mem.comp EXCEPT ![h] = l] /\ mem'.c = mem.c /\ mem'.round = mem.round
      BY <2>3, <3>1 DEF CcType
    <3>3. w' \in [Workers -> CcRecord] /\ Others(t) /\ w'[t].pc \in Pcs /\ CcThread(t)'
      BY <2>1, <2>4, <3>1, AdvanceSound
    <3> QED
      BY <2>1, <2>3, <2>5, <3>2, <3>3, SoundHook
  <2>6. CASE mem.comp[h] # h
    <3>1. UNCHANGED mem /\ Go(t, "up")
      BY <1>7, <2>6 DEF LinkCas
    <3>2. w' \in [Workers -> CcRecord] /\ Others(t) /\ w'[t].pc \in Pcs /\ CcThread(t)'
      BY <2>1, <2>4, <3>1, GoSound
    <3> QED
      BY <2>1, <3>1, <3>2, SoundHere
  <2> QED
    BY <2>5, <2>6
<1>8. CASE LinkUp(t)
  <2> DEFINE h == Hi(r.x, r.y)
             l == Lo(r.x, r.y)
             e == [r EXCEPT !.pc = "up2", !.x = mem.comp[mem.comp[h]], !.y = l]
  <2>1. w' = [w EXCEPT ![t] = e] /\ UNCHANGED <<run, phase, todo, mem>> /\ r.pc = "up"
    BY <1>8 DEF LinkUp, Linking
  <2>2. /\ r.nb # <<>> /\ r.u \in N /\ r.x \in N /\ r.y \in N
        /\ run.ref[r.x] = run.ref[r.u] /\ run.ref[r.y] = run.ref[r.u]
    BY <2>1, AtWork DEF CcThread
  <2>3. h \in N /\ l \in N /\ run.ref[l] = run.ref[r.u] /\ run.ref[h] = run.ref[r.u]
    BY <2>1, <2>2, AtWork
  <2>4. mem.comp[mem.comp[h]] \in N /\ run.ref[mem.comp[mem.comp[h]]] = run.ref[r.u]
    BY <1>0, <2>3
  <2> HIDE DEF h, l
  <2>5. /\ e \in CcRecord /\ e.pc = "up2" /\ e.u = r.u /\ e.nb = r.nb
        /\ e.x = mem.comp[mem.comp[h]] /\ e.y = l
    BY <1>0, <2>3, <2>4 DEF CcRecord, AllPcs, LinkPcs
  <2> HIDE DEF e
  <2>6. w' \in [Workers -> CcRecord] /\ Others(t) /\ w'[t] = e
    BY <2>1, <2>5 DEF CcType, CcRecord, Others
  <2>7. CcThread(t)'
    BY <2>1, <2>2, <2>3, <2>4, <2>5, <2>6 DEF CcThread, Joined, N
  <2> QED
    BY <1>1, <2>1, <2>5, <2>6, <2>7, SoundHere DEF LinkPcs
<1>9. CASE LinkUp2(t)
  <2> DEFINE e == [r EXCEPT !.pc = "high", !.y = mem.comp[r.y]]
  <2>1. w' = [w EXCEPT ![t] = e] /\ UNCHANGED <<run, phase, todo, mem>> /\ r.pc = "up2"
    BY <1>9 DEF LinkUp2, Linking
  <2>2. /\ r.nb # <<>> /\ r.u \in N /\ r.x \in N /\ r.y \in N
        /\ run.ref[r.x] = run.ref[r.u] /\ run.ref[r.y] = run.ref[r.u]
    BY <2>1, AtWork DEF CcThread
  <2>3. mem.comp[r.y] \in N /\ run.ref[mem.comp[r.y]] = run.ref[r.u]
    BY <1>0, <2>2
  <2>4. /\ e \in CcRecord /\ e.pc = "high" /\ e.u = r.u /\ e.nb = r.nb /\ e.x = r.x
        /\ e.y = mem.comp[r.y]
    BY <1>0, <2>3 DEF CcRecord, AllPcs, LinkPcs
  <2> HIDE DEF e
  <2>5. w' \in [Workers -> CcRecord] /\ Others(t) /\ w'[t] = e
    BY <2>1, <2>4 DEF CcType, CcRecord, Others
  <2>6. CcThread(t)'
    BY <2>1, <2>2, <2>3, <2>4, <2>5 DEF CcThread, Joined, N
  <2> QED
    BY <1>1, <2>1, <2>4, <2>5, <2>6, SoundHere DEF LinkPcs
<1> QED
  BY <1>2, <1>3, <1>4, <1>5, <1>6, <1>7, <1>8, <1>9

\* Shiloach and Vishkin's hooking.
LEMMA HookSound ==
  ASSUME CcType, CcInv, NEW t \in Workers, CcThread(t),
         HookGrab(t) \/ HookU(t) \/ HookV(t) \/ HookRoot(t) \/ HookSet(t)
  PROVE  Sound(t)
<1> DEFINE r == w[t]
<1>0. /\ mem.comp \in [N -> N] /\ r \in CcRecord /\ DOMAIN w = Workers
      /\ \A v \in N : run.ref[mem.comp[v]] = run.ref[v]
      /\ N \subseteq Int
  BY TheRun DEF CcType, CcInv, CcRecord, N
<1>1. phase = "hook" /\ Pcs = {"grab", "end"} \cup HookPcs
  BY DEF HookGrab, HookU, HookV, HookRoot, HookSet, Pcs
<1>2. CASE HookGrab(t)
  <2> DEFINE rest == [u \in todo |-> out_neigh(run.g, u)]
  <2>1. Grab(t, "hu", rest) /\ todo \subseteq N
    BY <1>2 DEF HookGrab, CcType
  <2>2. \A u \in todo : rest[u] \in Seq(N) /\ \A i \in DOMAIN rest[u] : Joined(u, rest[u][i])
    BY <2>1, Neighbours
  <2>3. rest \in [todo -> Seq(N)]
    BY <2>2
  <2> HIDE DEF rest
  <2> QED
    BY <1>1, <2>1, <2>2, <2>3, GrabSound DEF HookPcs
<1>3. CASE HookU(t)
  <2>1. CASE r.nb = <<>>
    BY <1>3, <2>1, FreeSound DEF HookU
  <2>2. CASE r.nb # <<>>
    <3> DEFINE e == [r EXCEPT !.pc = "hv", !.x = mem.comp[r.u]]
    <3>1. w' = [w EXCEPT ![t] = e] /\ UNCHANGED <<run, phase, todo, mem>> /\ r.pc = "hu"
      BY <1>3, <2>2 DEF HookU
    <3>2. r.u \in N /\ run.ref[mem.comp[r.u]] = run.ref[r.u] /\ mem.comp[r.u] \in N
      BY <3>1, AtWork
    <3>3. e \in CcRecord /\ e.pc = "hv" /\ e.u = r.u /\ e.nb = r.nb /\ e.x = mem.comp[r.u]
      BY <1>0, <3>2 DEF CcRecord, AllPcs, HookPcs
    <3> HIDE DEF e
    <3>4. w' \in [Workers -> CcRecord] /\ Others(t) /\ w'[t] = e
      BY <3>1, <3>3 DEF CcType, CcRecord, Others
    <3>5. CcThread(t)'
      BY <2>2, <3>1, <3>2, <3>3, <3>4 DEF CcThread, Joined, N
    <3> QED
      BY <1>1, <3>1, <3>3, <3>4, <3>5, SoundHere DEF HookPcs
  <2> QED
    BY <2>1, <2>2
<1>4. CASE HookV(t)
  <2> DEFINE v == mem.comp[Head(r.nb)]
             e == [r EXCEPT !.pc = "root", !.y = v]
  <2>1. UNCHANGED <<run, phase, todo, mem>> /\ r.pc = "hv"
    BY <1>4 DEF HookV
  <2>2. /\ r.nb # <<>> /\ r.u \in N /\ r.x \in N /\ run.ref[r.x] = run.ref[r.u]
        /\ v \in N /\ run.ref[v] = run.ref[r.u]
    BY <2>1, AtWork DEF CcThread
  <2>3. CASE v = r.x
    <3>1. Advance(t, "hu")
      BY <1>4, <2>3 DEF HookV
    <3>2. w' \in [Workers -> CcRecord] /\ Others(t) /\ w'[t].pc \in Pcs /\ CcThread(t)'
      BY <1>1, <2>1, <2>2, <3>1, AdvanceSound DEF HookPcs
    <3> QED
      BY <2>1, <3>2, SoundHere
  <2>4. CASE v # r.x
    <3>1. w' = [w EXCEPT ![t] = e]
      BY <1>4, <2>4 DEF HookV
    <3> HIDE DEF v
    <3>2. e \in CcRecord /\ e.pc = "root" /\ e.u = r.u /\ e.nb = r.nb /\ e.x = r.x /\ e.y = v
      BY <1>0, <2>2 DEF CcRecord, AllPcs, HookPcs
    <3> HIDE DEF e
    <3>3. w' \in [Workers -> CcRecord] /\ Others(t) /\ w'[t] = e
      BY <3>1, <3>2 DEF CcType, CcRecord, Others
    <3>4. CcThread(t)'
      BY <2>1, <2>2, <2>4, <3>2, <3>3 DEF CcThread, Joined, N
    <3> QED
      BY <1>1, <2>1, <3>2, <3>3, <3>4, SoundHere DEF HookPcs
  <2> QED
    BY <2>3, <2>4
<1>5. CASE HookRoot(t)
  <2>1. UNCHANGED <<run, phase, todo, mem>> /\ r.pc = "root" /\ r.nb # <<>>
    BY <1>5 DEF HookRoot, CcThread
  <2>2. Advance(t, "hu") \/ Go(t, "set")
    BY <1>5 DEF HookRoot
  <2>3. "set" \in AllPcs /\ {"set", "hu"} \subseteq Pcs
    BY <1>1 DEF AllPcs, HookPcs
  <2>4. w' \in [Workers -> CcRecord] /\ Others(t) /\ w'[t].pc \in Pcs /\ CcThread(t)'
    BY <2>1, <2>2, <2>3, AdvanceSound, GoSound
  <2> QED
    BY <2>1, <2>4, SoundHere
<1>6. CASE HookSet(t)
  <2> DEFINE h == Hi(r.x, r.y)
             l == Lo(r.x, r.y)
  <2>1. /\ UNCHANGED <<run, phase, todo>> /\ r.pc = "set" /\ r.nb # <<>>
        /\ mem' = [mem EXCEPT !.change = TRUE, !.comp[h] = l] /\ Advance(t, "hu")
    BY <1>6 DEF HookSet, CcThread
  <2>2. /\ r.x \in N /\ r.y \in N /\ run.ref[r.x] = run.ref[r.u] /\ run.ref[r.y] = run.ref[r.u]
        /\ r.x # r.y
    BY <2>1 DEF CcThread
  <2>3. h \in N /\ l \in N /\ l <= h /\ run.ref[l] = run.ref[h] /\ l # h
    BY <2>1, <2>2, AtWork
  <2> HIDE DEF h, l
  <2>4. /\ mem' \in [comp : [N -> N], c : Int, round : Nat, change : BOOLEAN]
        /\ mem'.comp = [mem.comp EXCEPT ![h] = l] /\ mem'.c = mem.c /\ mem'.round = mem.round
    BY <2>1, <2>3 DEF CcType
  <2>5. w' \in [Workers -> CcRecord] /\ Others(t) /\ w'[t].pc \in Pcs /\ CcThread(t)'
    BY <1>1, <2>1, AdvanceSound DEF HookPcs
  <2> QED
    BY <2>1, <2>3, <2>4, <2>5, SoundHook
<1> QED
  BY <1>2, <1>3, <1>4, <1>5, <1>6

\* Compress, and the end of any of the loops.
LEMMA SweepSound ==
  ASSUME CcType, CcInv, NEW t \in Workers, CcThread(t),
         CompressGrab(t) \/ CompressTest(t) \/ CompressJump(t)
           \/ (phase \in CcPhases /\ EndLoop(t))
  PROVE  Sound(t)
<1> DEFINE r == w[t]
<1>0. /\ mem.comp \in [N -> N] /\ r \in CcRecord /\ DOMAIN w = Workers
      /\ \A v \in N : run.ref[mem.comp[v]] = run.ref[v] /\ mem.comp[v] <= v
      /\ N \subseteq Int
  BY TheRun DEF CcType, CcInv, CcRecord, N
<1>1. CASE CompressGrab(t)
  <2> DEFINE rest == [n \in todo |-> <<>>]
  <2>1. phase = "compress" /\ Grab(t, "cmp", rest)
    BY <1>1 DEF CompressGrab
  <2>2. <<>> \in Seq(N) /\ DOMAIN <<>> = {}
    BY EmptySeq
  <2>3. rest \in [todo -> Seq(N)] /\ \A u \in todo : DOMAIN rest[u] = {}
    BY <2>2
  <2> HIDE DEF rest
  <2>4. "cmp" \in Pcs \cap {"p1", "hu", "cmp"}
    BY <2>1 DEF Pcs, SweepPcs
  <2>5. \A u \in todo : \A i \in DOMAIN rest[u] : Joined(u, rest[u][i])
    BY <2>3
  <2> QED
    BY <2>1, <2>3, <2>4, <2>5, GrabSound
<1>2. CASE CompressTest(t)
  <2>1. UNCHANGED <<run, phase, todo, mem>> /\ r.pc = "cmp" /\ phase = "compress"
    BY <1>2 DEF CompressTest
  <2>2. CASE mem.comp[r.u] = mem.comp[mem.comp[r.u]]
    BY <1>2, <2>1, <2>2, FreeSound DEF CompressTest
  <2>3. CASE mem.comp[r.u] # mem.comp[mem.comp[r.u]]
    <3>1. Go(t, "jump") /\ mem.comp[r.u] # r.u
      BY <1>2, <2>3 DEF CompressTest
    <3>2. w' \in [Workers -> CcRecord] /\ Others(t) /\ w'[t].pc = "jump" /\ CcThread(t)'
      BY <2>1, <3>1, GoSound DEF AllPcs, SweepPcs
    <3> QED
      BY <2>1, <3>2, SoundHere DEF Pcs, SweepPcs
  <2> QED
    BY <2>2, <2>3
<1>3. CASE CompressJump(t)
  <2> DEFINE h == r.u
             l == mem.comp[mem.comp[h]]
  <2>1. /\ UNCHANGED <<run, phase, todo>> /\ r.pc = "jump" /\ phase = "compress"
        /\ mem' = [mem EXCEPT !.comp[h] = l] /\ Go(t, "cmp")
    BY <1>3 DEF CompressJump
  <2>2. h \in N /\ mem.comp[h] \in N /\ l \in N /\ mem.comp[h] # h
    BY <1>0, <2>1, AtWork DEF CcThread
  <2>3. l <= h /\ run.ref[l] = run.ref[h] /\ l # h
    <3>1. l <= mem.comp[h] /\ mem.comp[h] <= h /\ {l, h, mem.comp[h]} \subseteq Int
      BY <1>0, <2>2
    <3>2. run.ref[l] = run.ref[h]
      BY <1>0, <2>2
    <3> HIDE DEF h, l
    <3> QED
      BY <2>2, <3>1, <3>2
  <2>4. /\ w' \in [Workers -> CcRecord] /\ Others(t) /\ w'[t].pc = "cmp" /\ w'[t].u = h
        /\ w'[t].nb = r.nb
    BY <2>1, Went DEF AllPcs, SweepPcs
  <2>5. CcThread(t)'
    BY <2>1, <2>4 DEF CcThread, Joined, N
  <2>6. "cmp" \in Pcs
    BY <2>1 DEF Pcs, SweepPcs
  <2> HIDE DEF h, l
  <2>7. /\ mem' \in [comp : [N -> N], c : Int, round : Nat, change : BOOLEAN]
        /\ mem'.comp = [mem.comp EXCEPT ![h] = l] /\ mem'.c = mem.c /\ mem'.round = mem.round
    BY <2>1, <2>2 DEF CcType
  <2>8. UNCHANGED <<run, phase, todo>> /\ w'[t].pc \in Pcs /\ w' \in [Workers -> CcRecord] /\ Others(t)
    BY <2>1, <2>4, <2>6
  <2> QED
    BY <2>2, <2>3, <2>5, <2>7, <2>8, SoundHook
<1>4. CASE phase \in CcPhases /\ EndLoop(t)
  <2>1. UNCHANGED <<run, phase, todo, mem>> /\ Go(t, "end")
    BY <1>4 DEF EndLoop
  <2>2. w' \in [Workers -> CcRecord] /\ Others(t) /\ w'[t].pc = "end" /\ CcThread(t)'
    BY <2>1, GoSound DEF AllPcs
  <2> QED
    BY <2>1, <2>2, SoundHere DEF Pcs
<1> QED
  BY <1>1, <1>2, <1>3, <1>4

\* So every step of a thread keeps the types, the trees, and what all threads
\* have read.
LEMMA StepSound ==
  ASSUME CcType, CcInv, \A s \in Workers : CcThread(s), NEW t \in Workers, CcStep(t)
  PROVE  Sound(t) /\ \A s \in Workers : CcThread(s)'
<1>0. CcThread(t)
  OBVIOUS
<1>1. Sound(t)
  <2>1. CASE LinkGrab(t) \/ LinkRestGrab(t) \/ LinkP1(t) \/ LinkP2(t) \/ LinkHigh(t) \/ LinkCas(t)
               \/ LinkUp(t) \/ LinkUp2(t)
    BY ONLY CcType, CcInv, t \in Workers, <1>0, <2>1, LinkSound
  <2>2. CASE HookGrab(t) \/ HookU(t) \/ HookV(t) \/ HookRoot(t) \/ HookSet(t)
    BY ONLY CcType, CcInv, t \in Workers, <1>0, <2>2, HookSound
  <2>3. CASE CompressGrab(t) \/ CompressTest(t) \/ CompressJump(t)
               \/ (phase \in CcPhases /\ EndLoop(t))
    BY ONLY CcType, CcInv, t \in Workers, <1>0, <2>3, SweepSound
  <2> QED
    BY <2>1, <2>2, <2>3 DEF CcStep
<1>2. ASSUME NEW s \in Workers, s # t
      PROVE  CcThread(s)'
  <2>1. w'[s] = w[s] /\ run' = run
    BY <1>1, <1>2 DEF Sound, Others
  <2>2. w[s].pc = "jump" => mem'.comp[w[s].u] # w[s].u
    BY <1>1 DEF Sound, CcThread
  <2> QED
    BY <2>1, <2>2 DEF CcThread, Joined, N
<1> QED
  BY <1>1, <1>2 DEF Sound

----------------------------------------------------------------------------
(* Afforest: nodes get into one tree and stay there.                       *)

\* Outside of Shiloach and Vishkin's hooking no step tears a tree apart.
LEMMA StepLinks ==
  ASSUME CcType, CcInv, \A s \in Workers : CcThread(s), NEW t \in Workers, CcStep(t), phase # "hook"
  PROVE  \A u, v : Linked(u, v) => Linked(u, v)'
<1> DEFINE r == w[t]
<1>0. CcThread(t) /\ mem.comp \in [N -> N] /\ mem \in [comp : [N -> N], c : Int, round : Nat, change : BOOLEAN]
  BY DEF CcType
<1>1. CASE UNCHANGED <<run, mem>>
  BY <1>1, LinkedStays DEF Whole, N
<1>2. CASE LinkCas(t)
  <2> DEFINE h == Hi(r.x, r.y)
             l == Lo(r.x, r.y)
  <2>1. h \in N /\ l \in N /\ run' = run
    <3>1. r.pc = "cas" /\ run' = run /\ r.x \in N /\ r.y \in N
      BY <1>0, <1>2 DEF LinkCas, Linking, CcThread
    <3> QED
      BY <1>0, <3>1, AtWork
  <2>2. CASE mem.comp[h] = h
    <3>1. mem' = [mem EXCEPT !.comp[h] = l]
      BY <1>2, <2>2 DEF LinkCas
    <3> HIDE DEF h, l
    <3>2. mem'.comp = [mem.comp EXCEPT ![h] = l]
      BY <1>0, <3>1
    <3> QED
      BY <1>0, <2>1, <2>2, <3>2, HookKeeps
  <2>3. CASE mem.comp[h] # h
    BY <1>1, <1>2, <2>3 DEF LinkCas
  <2> QED
    BY <2>2, <2>3
<1>3. CASE CompressJump(t)
  <2>1. r.u \in N /\ run' = run /\ mem' = [mem EXCEPT !.comp[r.u] = mem.comp[mem.comp[r.u]]]
    BY <1>0, <1>3, AtWork DEF CompressJump
  <2>2. mem'.comp = [mem.comp EXCEPT ![r.u] = mem.comp[mem.comp[r.u]]]
    BY <1>0, <2>1
  <2> QED
    BY <1>0, <2>1, <2>2, JumpKeeps
<1>4. UNCHANGED <<run, mem>> \/ LinkCas(t) \/ CompressJump(t)
  BY DEF CcStep, LinkGrab, LinkRestGrab, LinkP1, LinkP2, LinkHigh, LinkUp, LinkUp2, HookGrab, HookU,
         HookV, HookRoot, HookSet, CompressGrab, CompressTest, EndLoop, Grab
<1> QED
  BY <1>1, <1>2, <1>3, <1>4

\* What was pending stays pending when a thread takes a node, goes on with its
\* neighbour, or has no neighbour left ...
LEMMA PendingStays ==
  ASSUME NEW t \in Workers, Others(t),
         \/ w[t].pc \in {"grab", "end"}
         \/ DOMAIN w[t].nb = {}
         \/ w'[t].u = w[t].u /\ w'[t].nb = w[t].nb /\ w'[t].pc \notin {"grab", "end"}
  PROVE  \A u, v : Pending(u, v) => Pending(u, v)'
<1> SUFFICES ASSUME NEW u, NEW v, Pending(u, v) PROVE Pending(u, v)'
  OBVIOUS
<1>1. PICK s \in Workers : /\ w[s].pc \notin {"grab", "end"} /\ w[s].u = u
                           /\ \E i \in DOMAIN w[s].nb : w[s].nb[i] = v
  BY DEF Pending
<1>2. CASE s # t
  <2>1. w'[s] = w[s]
    BY <1>2 DEF Others
  <2> QED
    BY <1>1, <2>1 DEF Pending
<1>3. CASE s = t
  <2>1. w'[t].u = w[t].u /\ w'[t].nb = w[t].nb /\ w'[t].pc \notin {"grab", "end"}
    BY <1>1, <1>3
  <2> QED
    BY <1>1, <1>3, <2>1 DEF Pending
<1> QED
  BY <1>2, <1>3

\* ... and all but the one neighbour when it is through with that.
LEMMA PendingAdvances ==
  ASSUME CcType, NEW t \in Workers, NEW pc \in {"p1", "hu"}, w[t].nb # <<>>, Advance(t, pc)
  PROVE  \A u, v : Pending(u, v) => Pending(u, v)' \/ (u = w[t].u /\ v = Head(w[t].nb))
<1> SUFFICES ASSUME NEW u, NEW v, Pending(u, v), ~(u = w[t].u /\ v = Head(w[t].nb))
             PROVE  Pending(u, v)'
  OBVIOUS
<1>0. pc \in AllPcs /\ pc \notin {"grab", "end"}
  BY DEF AllPcs, LinkPcs, HookPcs
<1>1. PICK s \in Workers : /\ w[s].pc \notin {"grab", "end"} /\ w[s].u = u
                           /\ \E i \in DOMAIN w[s].nb : w[s].nb[i] = v
  BY DEF Pending
<1>2. /\ Others(t) /\ w'[t].pc = pc /\ w'[t].u = w[t].u
      /\ \A i \in DOMAIN w'[t].nb : w'[t].nb[i] = w[t].nb[i + 1]
      /\ \A i \in DOMAIN w[t].nb : i # 1 => i - 1 \in DOMAIN w'[t].nb
      /\ Head(w[t].nb) = w[t].nb[1] /\ w[t].nb \in Seq(Int)
  BY <1>0, Advanced DEF CcType
<1>3. CASE s # t
  <2>1. w'[s] = w[s]
    BY <1>2, <1>3 DEF Others
  <2> QED
    BY <1>1, <2>1 DEF Pending
<1>4. CASE s = t
  <2>1. PICK i \in DOMAIN w[t].nb : w[t].nb[i] = v
    BY <1>1, <1>4
  <2>2. i # 1 /\ i \in Int
    BY <1>1, <1>2, <1>4, <2>1, LenProperties
  <2>3. i - 1 \in DOMAIN w'[t].nb /\ w'[t].nb[i - 1] = w[t].nb[(i - 1) + 1] /\ (i - 1) + 1 = i
    BY <1>2, <2>2
  <2> QED
    BY <1>0, <1>1, <1>2, <1>4, <2>1, <2>3 DEF Pending
<1> QED
  BY <1>3, <1>4

\* Where the thread stands, in terms of values.
StandsOn(pc, u, v, x, y) ==
  /\ pc = "p2" => Linked(u, x)
  /\ pc \in {"high", "cas", "up", "up2"} =>
       (Linked(u, x) /\ Linked(v, y)) \/ (Linked(u, y) /\ Linked(v, x))

\* StandsOn says what Standing says.
LEMMA StandingOn ==
  ASSUME NEW t \in Workers
  PROVE  /\ Standing(t) <=> StandsOn(w[t].pc, w[t].u, Head(w[t].nb), w[t].x, w[t].y)
         /\ \A pc, u, v, x, y :
              /\ pc = w'[t].pc /\ u = w'[t].u /\ v = Head(w'[t].nb) /\ x = w'[t].x /\ y = w'[t].y
              /\ StandsOn(pc, u, v, x, y)'
              => Standing(t)'
BY DEF Standing, StandsOn

\* It stays true as long as no tree is torn apart.
LEMMA StandsStill ==
  ASSUME \A u, v : Linked(u, v) => Linked(u, v)'
  PROVE  \A pc, u, v, x, y : StandsOn(pc, u, v, x, y) => StandsOn(pc, u, v, x, y)'
BY DEF StandsOn

\* What a step of a linking thread achieves: it stands on the trees of its edge,
\* no neighbour is dropped before it is linked, and a node that is taken has its
\* neighbours pending unless it is skipped.
LinkStep(t) ==
  /\ Standing(t)'
  /\ \A u, v : Pending(u, v) => Pending(u, v)' \/ Linked(u, v)'
  /\ \A u \in todo \ todo' : \/ phase = "link_rest" /\ Linked(u, mem.c)
                             \/ \A v \in Due(u) : Pending(u, v)'

\* A thread that takes a node has the neighbours due pending.
LEMMA LinkGrabs ==
  ASSUME CcType, NEW t \in Workers, LinkGrab(t) \/ LinkRestGrab(t)
  PROVE  LinkStep(t)
<1>0. "p1" \in AllPcs /\ todo \subseteq N /\ mem.comp \in [N -> N]
  BY DEF AllPcs, LinkPcs, CcType
<1>1. PICK rest \in [todo -> Seq(N)] :
        /\ Grab(t, "p1", rest)
        /\ \A u \in todo : \/ phase = "link_rest" /\ mem.comp[u] = mem.c
                           \/ \A v \in Due(u) : \E i \in DOMAIN rest[u] : rest[u][i] = v
  <2>1. CASE LinkGrab(t)
    <3> DEFINE rest == [u \in todo |-> SubSeq(out_neigh(run.g, u), mem.round + 1,
                                              Lo(mem.round + 1, out_degree(run.g, u)))]
    <3>1. phase = "link" /\ Grab(t, "p1", rest)
      BY <2>1 DEF LinkGrab
    <3>2. \A u \in todo : rest[u] \in Seq(N) /\ \A v \in Due(u) : \E i \in DOMAIN rest[u] : rest[u][i] = v
      BY <1>0, <3>1, RoundList
    <3> HIDE DEF rest
    <3>3. rest \in [todo -> Seq(N)]
      BY <3>2 DEF rest
    <3> QED
      BY <3>1, <3>2, <3>3
  <2>2. CASE LinkRestGrab(t)
    <3> DEFINE s(u) == SubSeq(out_neigh(run.g, u), run.neighbor_rounds + 1, out_degree(run.g, u))
                         \o (IF run.g.directed THEN in_neigh(run.g, u) ELSE <<>>)
               rest == [u \in todo |-> IF mem.comp[u] = mem.c THEN <<>> ELSE s(u)]
    <3>1. phase = "link_rest" /\ Grab(t, "p1", rest)
      BY <2>2 DEF LinkRestGrab
    <3>2. \A u \in todo : s(u) \in Seq(N) /\ \A v \in Due(u) : \E i \in DOMAIN s(u) : s(u)[i] = v
      BY <1>0, <3>1, RestList
    <3>3. <<>> \in Seq(N)
      BY EmptySeq
    <3> HIDE DEF s
    <3>4. rest \in [todo -> Seq(N)]
      BY <3>2, <3>3
    <3>5. ASSUME NEW u \in todo, mem.comp[u] # mem.c
          PROVE  \A v \in Due(u) : \E i \in DOMAIN rest[u] : rest[u][i] = v
      <4>1. rest[u] = s(u)
        BY <3>5
      <4> QED
        BY <3>2, <4>1
    <3> HIDE DEF rest
    <3> QED
      BY <3>1, <3>4, <3>5
  <2> QED
    BY <2>1, <2>2
<1>2. PICK i \in todo :
        /\ todo' = todo \ {i} /\ w[t].pc = "grab" /\ UNCHANGED <<run, phase, mem>>
        /\ Others(t) /\ w'[t].pc = "p1" /\ w'[t].u = i /\ w'[t].nb = rest[i]
  BY <1>0, <1>1, Grabbed
<1>3. Standing(t)'
  BY <1>2 DEF Standing
<1>4. \A u, v : Pending(u, v) => Pending(u, v)'
  BY <1>2, PendingStays
<1>5. \A v : (\E k \in DOMAIN rest[i] : rest[i][k] = v) => Pending(i, v)'
  BY <1>2 DEF Pending
<1>6. mem.comp[i] = mem.c => Linked(i, mem.c)
  BY <1>0, LinkedFacts
<1>7. todo \ todo' = {i}
  BY <1>2
<1> QED
  BY <1>1, <1>3, <1>4, <1>5, <1>6, <1>7 DEF LinkStep

\* Steps that read and decide; v is the neighbour at hand.
LEMMA LinkReads ==
  ASSUME CcType, CcInv, \A s \in Workers : CcThread(s), NEW t \in Workers, Standing(t),
         LinkP1(t) \/ LinkP2(t) \/ LinkHigh(t) \/ LinkCas(t) \/ LinkUp(t) \/ LinkUp2(t)
  PROVE  LinkStep(t)
<1> DEFINE r == w[t]
<1>p. PICK u, v, x, y, h, l :
        /\ u = r.u /\ v = Head(r.nb) /\ x = r.x /\ y = r.y /\ h = Hi(r.x, r.y) /\ l = Lo(r.x, r.y)
  OBVIOUS
<1>0. /\ CcThread(t) /\ mem.comp \in [N -> N] /\ r \in CcRecord /\ DOMAIN w = Workers
      /\ N \subseteq Int /\ todo' = todo /\ phase # "hook" /\ CcStep(t)
  <2>1. todo' = todo /\ phase # "hook"
    BY DEF LinkP1, LinkP2, LinkHigh, LinkCas, LinkUp, LinkUp2, Linking
  <2>2. CcStep(t)
    BY DEF CcStep
  <2> QED
    BY <2>1, <2>2, TheRun DEF CcType, CcRecord
<1>1. \A a, b : Linked(a, b) => Linked(a, b)'
  BY <1>0, StepLinks
<1>2. \A a, b : Linked(a, b) => Linked(b, a)
  BY <1>p, <1>0, LinkedFacts
<1>3. \A a, b, c : Linked(a, b) /\ Linked(b, c) => Linked(a, c)
  BY <1>p, <1>0, LinkedFacts
<1>4. \A a \in N : Linked(a, mem.comp[a])
  BY <1>p, <1>0, LinkedFacts
<1>5. r.pc \in LinkPcs /\ r.pc \notin {"grab", "end"}
  BY DEF LinkP1, LinkP2, LinkHigh, LinkCas, LinkUp, LinkUp2, Linking, LinkPcs
<1>6. x \in N /\ y \in N => (h = x /\ l = y) \/ (h = y /\ l = x)
  BY <1>p, <1>0 DEF Hi, Lo
<1>7. u \in N /\ (r.nb # <<>> => v \in N)
  BY <1>p, <1>0, <1>5, AtWork
<1>8. ASSUME Advance(t, "p1"), r.nb # <<>>, Linked(u, v)'
      PROVE  LinkStep(t)
  <2>1. w'[t].pc = "p1"
    BY <1>p, <1>8, Advanced DEF AllPcs, LinkPcs
  <2>2. Standing(t)'
    BY <2>1 DEF Standing
  <2>3. \A a, b : Pending(a, b) => Pending(a, b)' \/ (a = u /\ b = v)
    BY <1>p, <1>8, PendingAdvances
  <2> QED
    BY <1>p, <1>0, <1>8, <2>2, <2>3 DEF LinkStep
<1>9. ASSUME Others(t), w'[t].u = u, w'[t].nb = r.nb, w'[t].pc \notin {"grab", "end"}, Standing(t)'
      PROVE  LinkStep(t)
  BY <1>p, <1>0, <1>9, PendingStays DEF LinkStep
<1>10. CASE LinkP1(t)
  <2>1. CASE r.nb = <<>>
    <3>1. Others(t) /\ w'[t].pc = "grab"
      BY <1>p, <1>10, <2>1, Freed DEF LinkP1
    <3>2. DOMAIN r.nb = {}
      BY <2>1, EmptySeq
    <3>3. Standing(t)'
      BY <3>1 DEF Standing
    <3> QED
      BY <1>p, <1>0, <3>1, <3>2, <3>3, PendingStays DEF LinkStep
  <2>2. CASE r.nb # <<>>
    <3> DEFINE e == [r EXCEPT !.pc = "p2", !.x = mem.comp[u]]
    <3>1. w' = [w EXCEPT ![t] = e] /\ r.pc = "p1"
      BY <1>p, <1>10, <2>2 DEF LinkP1, Linking
    <3>2. e.pc = "p2" /\ e.u = u /\ e.nb = r.nb /\ e.x = mem.comp[u] /\ e.y = y
      BY <1>p, <1>0 DEF CcRecord
    <3> HIDE DEF e
    <3>3. w'[t] = e /\ Others(t)
      BY <1>p, <1>0, <3>1 DEF CcType, Others
    <3>4. StandsOn("p2", u, v, mem.comp[u], y)
      BY <1>p, <1>4, <1>7 DEF StandsOn
    <3>5. Standing(t)'
      BY <1>p, <1>1, <3>2, <3>3, <3>4, StandsStill, StandingOn
    <3> QED
      BY <1>p, <1>9, <3>2, <3>3, <3>5
  <2> QED
    BY <2>1, <2>2
<1>11. CASE LinkP2(t)
  <2> DEFINE e == [r EXCEPT !.pc = "high", !.y = mem.comp[v]]
  <2>1. w' = [w EXCEPT ![t] = e] /\ r.pc = "p2" /\ r.nb # <<>>
    BY <1>p, <1>0, <1>11 DEF LinkP2, Linking, CcThread
  <2>2. e.pc = "high" /\ e.u = u /\ e.nb = r.nb /\ e.x = x /\ e.y = mem.comp[v]
    BY <1>p, <1>0 DEF CcRecord
  <2> HIDE DEF e
  <2>3. w'[t] = e /\ Others(t)
    BY <1>p, <1>0, <2>1 DEF CcType, Others
  <2>4. StandsOn("high", u, v, x, mem.comp[v])
    BY <1>p, <1>4, <1>7, <2>1 DEF StandsOn, Standing
  <2>5. Standing(t)'
    BY <1>p, <1>1, <2>2, <2>3, <2>4, StandsStill, StandingOn
  <2> QED
    BY <1>p, <1>9, <2>2, <2>3, <2>5
<1>12. CASE LinkHigh(t)
  <2>1. /\ r.pc = "high" /\ r.nb # <<>> /\ x \in N /\ y \in N
        /\ (Linked(u, x) /\ Linked(v, y)) \/ (Linked(u, y) /\ Linked(v, x))
    BY <1>p, <1>0, <1>12 DEF LinkHigh, Linking, CcThread, Standing
  <2>2. CASE x = y \/ mem.comp[h] = l
    <3>1. Linked(x, y)
      BY <1>p, <1>0, <1>2, <1>4, <1>6, <2>1, <2>2, LinkedFacts
    <3>2. Linked(u, v)'
      BY <1>p, <1>1, <1>2, <1>3, <2>1, <3>1
    <3>3. Advance(t, "p1")
      BY <1>p, <1>12, <2>2 DEF LinkHigh
    <3> QED
      BY <1>p, <1>8, <2>1, <3>2, <3>3
  <2>3. CASE ~(x = y \/ mem.comp[h] = l)
    <3>1. PICK pc \in {"cas", "up"} : Go(t, pc)
      BY <1>p, <1>12, <2>3 DEF LinkHigh
    <3>2. /\ Others(t) /\ w'[t].pc = pc /\ w'[t].u = u /\ w'[t].nb = r.nb
          /\ w'[t].x = x /\ w'[t].y = y /\ pc \notin {"grab", "end"}
      BY <1>p, <3>1, Went DEF AllPcs, LinkPcs
    <3>3. StandsOn(pc, u, v, x, y)
      BY <2>1 DEF StandsOn
    <3>4. Standing(t)'
      BY <1>p, <1>1, <3>2, <3>3, StandsStill, StandingOn
    <3> QED
      BY <1>p, <1>9, <3>2, <3>4
  <2> QED
    BY <2>2, <2>3
<1>13. CASE LinkCas(t)
  <2>1. /\ r.pc = "cas" /\ r.nb # <<>> /\ x \in N /\ y \in N
        /\ (Linked(u, x) /\ Linked(v, y)) \/ (Linked(u, y) /\ Linked(v, x))
    BY <1>p, <1>0, <1>13 DEF LinkCas, Linking, CcThread, Standing
  <2>2. CASE mem.comp[h] = h
    <3>1. mem' = [mem EXCEPT !.comp[h] = l] /\ Advance(t, "p1") /\ run' = run
      BY <1>p, <1>13, <2>2 DEF LinkCas
    <3>2. h \in N /\ l \in N
      BY <1>6, <2>1
    <3>3. mem'.comp = [mem.comp EXCEPT ![h] = l] /\ mem'.comp \in [N -> N] /\ N' = N
      BY <3>1, <3>2 DEF CcType, N
    <3>4. Linked(h, l)'
      BY <3>2, <3>3 DEF Linked, Whole
    <3>5. \A a, b, c : Linked(a, b)' /\ Linked(b, c)' => Linked(a, c)'
      BY <3>3 DEF Linked
    <3>6. \A a, b : Linked(a, b)' => Linked(b, a)'
      BY DEF Linked
    <3>7. Linked(x, y)'
      <4>1. x = y \/ (x = h /\ y = l) \/ (x = l /\ y = h)
        BY <1>p, <1>6, <2>1
      <4>2. \A a : Linked(a, a)'
        BY DEF Linked
      <4> QED
        BY <3>4, <3>6, <4>1, <4>2
    <3>8. Linked(u, v)'
      BY <1>p, <1>1, <2>1, <3>5, <3>6, <3>7
    <3> QED
      BY <1>p, <1>8, <2>1, <3>1, <3>8
  <2>3. CASE mem.comp[h] # h
    <3>1. Go(t, "up")
      BY <1>p, <1>13, <2>3 DEF LinkCas
    <3>2. /\ Others(t) /\ w'[t].pc = "up" /\ w'[t].u = u /\ w'[t].nb = r.nb
          /\ w'[t].x = x /\ w'[t].y = y
      BY <1>p, <3>1, Went DEF AllPcs, LinkPcs
    <3>3. StandsOn("up", u, v, x, y)
      BY <2>1 DEF StandsOn
    <3>4. Standing(t)'
      BY <1>p, <1>1, <3>2, <3>3, StandsStill, StandingOn
    <3> QED
      BY <1>p, <1>9, <3>2, <3>4
  <2> QED
    BY <2>2, <2>3
<1>14. CASE LinkUp(t)
  <2> DEFINE e == [r EXCEPT !.pc = "up2", !.x = mem.comp[mem.comp[h]], !.y = l]
  <2>1. w' = [w EXCEPT ![t] = e] /\ r.pc = "up" /\ r.nb # <<>> /\ x \in N /\ y \in N
        /\ ((Linked(u, x) /\ Linked(v, y)) \/ (Linked(u, y) /\ Linked(v, x)))
    BY <1>p, <1>0, <1>14 DEF LinkUp, Linking, CcThread, Standing
  <2>2. PICK z : z = mem.comp[mem.comp[h]]
    OBVIOUS
  <2>3. e.pc = "up2" /\ e.u = u /\ e.nb = r.nb /\ e.x = z /\ e.y = l
    BY <1>p, <1>0, <2>2 DEF CcRecord
  <2> HIDE DEF e
  <2>4. w'[t] = e /\ Others(t)
    BY <1>p, <1>0, <2>1 DEF CcType, Others
  <2>5. (h = x /\ l = y) \/ (h = y /\ l = x)
    BY <1>p, <1>6, <2>1
  <2>6. h \in N /\ mem.comp[h] \in N
    BY <1>p, <1>0, <2>1, <2>5
  <2>7. Linked(h, z)
    BY <1>p, <1>3, <1>4, <2>2, <2>6
  <2>8. StandsOn("up2", u, v, z, l)
    <3>1. (Linked(u, h) /\ Linked(v, l)) \/ (Linked(u, l) /\ Linked(v, h))
      BY <2>1, <2>5
    <3> QED
      BY <1>p, <1>3, <2>7, <3>1 DEF StandsOn
  <2>9. Standing(t)'
    BY <1>p, <1>1, <2>3, <2>4, <2>8, StandsStill, StandingOn
  <2> QED
    BY <1>p, <1>9, <2>3, <2>4, <2>9
<1>15. CASE LinkUp2(t)
  <2> DEFINE e == [r EXCEPT !.pc = "high", !.y = mem.comp[y]]
  <2>1. w' = [w EXCEPT ![t] = e] /\ r.pc = "up2" /\ r.nb # <<>> /\ x \in N /\ y \in N
        /\ ((Linked(u, x) /\ Linked(v, y)) \/ (Linked(u, y) /\ Linked(v, x)))
    BY <1>p, <1>0, <1>15 DEF LinkUp2, Linking, CcThread, Standing
  <2>2. e.pc = "high" /\ e.u = u /\ e.nb = r.nb /\ e.x = x /\ e.y = mem.comp[y]
    BY <1>p, <1>0 DEF CcRecord
  <2> HIDE DEF e
  <2>3. w'[t] = e /\ Others(t)
    BY <1>p, <1>0, <2>1 DEF CcType, Others
  <2>4. Linked(y, mem.comp[y])
    BY <1>p, <1>4, <2>1
  <2>5. StandsOn("high", u, v, x, mem.comp[y])
    BY <1>p, <1>3, <2>1, <2>4 DEF StandsOn
  <2>6. Standing(t)'
    BY <1>p, <1>1, <2>2, <2>3, <2>5, StandsStill, StandingOn
  <2> QED
    BY <1>p, <1>9, <2>2, <2>3, <2>6
<1> QED
  BY <1>p, <1>10, <1>11, <1>12, <1>13, <1>14, <1>15


\* A thread that leaves the loop had nothing pending.
LEMMA LinkEnds ==
  ASSUME CcType, NEW t \in Workers, EndLoop(t)
  PROVE  LinkStep(t)
<1>1. /\ w[t].pc = "grab" /\ UNCHANGED <<run, phase, todo, mem>> /\ Go(t, "end")
  BY DEF EndLoop, LoopEnd
<1>2. Others(t) /\ w'[t].pc = "end"
  BY <1>1, Went DEF AllPcs
<1>3. Standing(t)'
  BY <1>2 DEF Standing
<1>4. \A u, v : Pending(u, v) => Pending(u, v)'
  BY <1>1, <1>2, PendingStays
<1> QED
  BY <1>1, <1>3, <1>4 DEF LinkStep

\* Afforest: no step of a thread loses an edge.
LEMMA AfforestStep ==
  ASSUME ComponentsInv, run.kernel = "cc", NEW t \in Workers, CcStep(t)
  PROVE  AfforestInv'
<1>0. CcType /\ CcInv /\ AfforestInv /\ \A s \in Workers : CcThread(s)
  BY DEF ComponentsInv
<1>1. /\ run' = run /\ phase' = phase /\ mem'.c = mem.c /\ mem'.round = mem.round
      /\ Others(t) /\ N' = N
  BY <1>0, StepSound DEF Sound, N
<1>2. phase # "hook"
  BY <1>0 DEF CcType, CcPhase
<1>3. \A u, v : Linked(u, v) => Linked(u, v)'
  BY <1>0, <1>2, StepLinks
<1>4. RoundsDone => RoundsDone'
  BY <1>1, <1>3 DEF RoundsDone
<1>5. CASE phase \in {"link", "link_rest"}
  <2>1. Standing(t)
    BY <1>0, <1>5 DEF AfforestInv
  <2>2. LinkStep(t)
    <3>1. \/ LinkGrab(t) \/ LinkRestGrab(t) \/ EndLoop(t)
          \/ LinkP1(t) \/ LinkP2(t) \/ LinkHigh(t) \/ LinkCas(t) \/ LinkUp(t) \/ LinkUp2(t)
      BY <1>5 DEF CcStep, HookGrab, HookU, HookV, HookRoot, HookSet, CompressGrab, CompressTest,
                  CompressJump
    <3> QED
      BY <1>0, <2>1, <3>1, LinkGrabs, LinkEnds, LinkReads
  <2>3. \A s \in Workers : Standing(s)'
    <3>1. ASSUME NEW s \in Workers, s # t PROVE Standing(s)'
      <4>1. w'[s] = w[s]
        BY <1>1, <3>1 DEF Others
      <4>2. PICK pc, u, v, x, y : /\ pc = w[s].pc /\ u = w[s].u /\ v = Head(w[s].nb)
                                  /\ x = w[s].x /\ y = w[s].y
        OBVIOUS
      <4>3. StandsOn(pc, u, v, x, y)
        BY <1>0, <1>5, <4>2, StandingOn DEF AfforestInv
      <4> QED
        BY <1>3, <4>1, <4>2, <4>3, StandsStill, StandingOn
    <3> QED
      BY <2>2, <3>1 DEF LinkStep
  <2>4. \A u : Due(u)' = Due(u)
    BY <1>1 DEF Due
  <2>5. ASSUME NEW u \in N, u \notin todo'
        PROVE  \/ phase = "link_rest" /\ Linked(u, mem.c)'
               \/ \A v \in Due(u) : Linked(u, v)' \/ Pending(u, v)'
    <3>1. CASE u \in todo
      <4>1. \/ phase = "link_rest" /\ Linked(u, mem.c)
            \/ \A v \in Due(u) : Pending(u, v)'
        BY <2>2, <2>5, <3>1 DEF LinkStep
      <4> QED
        BY <1>1, <1>3, <4>1
    <3>2. CASE u \notin todo
      <4>1. \/ phase = "link_rest" /\ Linked(u, mem.c)
            \/ \A v \in Due(u) : Linked(u, v) \/ Pending(u, v)
        BY <1>0, <1>5, <2>5, <3>2 DEF AfforestInv
      <4> QED
        BY <1>1, <1>3, <2>2, <4>1 DEF LinkStep
    <3> QED
      BY <3>1, <3>2
  <2> QED
    BY <1>0, <1>1, <1>4, <1>5, <2>3, <2>4, <2>5 DEF AfforestInv
<1>6. CASE phase = "compress"
  BY <1>0, <1>1, <1>3, <1>4, <1>6 DEF AfforestInv
<1>7. CASE phase \notin {"link", "link_rest", "compress"}
  BY <1>0, <1>1, <1>4, <1>7 DEF AfforestInv
<1> QED
  BY <1>5, <1>6, <1>7


\* What a step of a hooking thread achieves as long as nothing has changed.
HookStep(t) ==
  /\ mem' = mem /\ Current(t)'
  /\ \A u, v : Pending(u, v) => Pending(u, v)' \/ mem.comp[u] = mem.comp[v]
  /\ \A u \in todo \ todo' : \A v \in N : Edge(run.g, u, v) => Pending(u, v)'

\* A thread that takes a node has all of its neighbours pending.
LEMMA HookGrabs ==
  ASSUME CcType, NEW t \in Workers, HookGrab(t)
  PROVE  HookStep(t)
<1> DEFINE rest == [u \in todo |-> out_neigh(run.g, u)]
<1>0. "hu" \in AllPcs /\ todo \subseteq N
  BY DEF AllPcs, HookPcs, CcType
<1>1. Grab(t, "hu", rest)
  BY DEF HookGrab
<1>2. \A u \in todo : /\ rest[u] \in Seq(N)
                      /\ \A v \in N : Edge(run.g, u, v) => \E i \in DOMAIN rest[u] : rest[u][i] = v
  BY <1>0, Neighbours
<1> HIDE DEF rest
<1>3. rest \in [todo -> Seq(N)]
  BY <1>2 DEF rest
<1>4. PICK i \in todo :
        /\ todo' = todo \ {i} /\ w[t].pc = "grab" /\ UNCHANGED <<run, phase, mem>>
        /\ Others(t) /\ w'[t].pc = "hu" /\ w'[t].u = i /\ w'[t].nb = rest[i]
  BY <1>0, <1>1, <1>3, Grabbed
<1>5. Current(t)'
  BY <1>4 DEF Current
<1>6. \A u, v : Pending(u, v) => Pending(u, v)'
  BY <1>4, PendingStays
<1>7. \A v : (\E k \in DOMAIN rest[i] : rest[i][k] = v) => Pending(i, v)'
  BY <1>4 DEF Pending
<1>8. todo \ todo' = {i}
  BY <1>4
<1> QED
  BY <1>2, <1>4, <1>5, <1>6, <1>7, <1>8 DEF HookStep

\* Steps that read and decide; in flat trees every parent is a root.
LEMMA HookReads ==
  ASSUME CcType, CcInv, NEW t \in Workers, CcThread(t), Flat, Current(t),
         HookU(t) \/ HookV(t) \/ HookRoot(t)
  PROVE  HookStep(t)
<1> DEFINE r == w[t]
<1>p. PICK u, v, x, y : u = r.u /\ v = Head(r.nb) /\ x = r.x /\ y = r.y
  OBVIOUS
<1>0. /\ mem.comp \in [N -> N] /\ r \in CcRecord /\ DOMAIN w = Workers
      /\ todo' = todo /\ mem' = mem /\ run' = run
  BY DEF CcType, CcRecord, HookU, HookV, HookRoot
<1>1. r.pc \in HookPcs /\ r.pc \notin {"grab", "end"}
  BY DEF HookU, HookV, HookRoot, HookPcs
<1>2. u \in N /\ (r.nb # <<>> => v \in N)
  BY <1>p, <1>1, AtWork
<1>3. ASSUME Others(t), w'[t].u = u, w'[t].nb = r.nb, w'[t].pc \notin {"grab", "end"}, Current(t)'
      PROVE  HookStep(t)
  BY <1>p, <1>0, <1>3, PendingStays DEF HookStep
<1>4. CASE HookU(t)
  <2>1. CASE r.nb = <<>>
    <3>1. Others(t) /\ w'[t].pc = "grab"
      BY <1>p, <1>4, <2>1, Freed DEF HookU
    <3>2. DOMAIN r.nb = {}
      BY <2>1, EmptySeq
    <3>3. Current(t)'
      BY <3>1 DEF Current
    <3> QED
      BY <1>p, <1>0, <3>1, <3>2, <3>3, PendingStays DEF HookStep
  <2>2. CASE r.nb # <<>>
    <3> DEFINE e == [r EXCEPT !.pc = "hv", !.x = mem.comp[u]]
    <3>1. w' = [w EXCEPT ![t] = e]
      BY <1>p, <1>4, <2>2 DEF HookU
    <3>2. e.pc = "hv" /\ e.u = u /\ e.nb = r.nb /\ e.x = mem.comp[u]
      BY <1>p, <1>0 DEF CcRecord
    <3> HIDE DEF e
    <3>3. w'[t] = e /\ Others(t)
      BY <1>p, <1>0, <3>1 DEF CcType, Others
    <3>4. Current(t)'
      BY <1>0, <3>2, <3>3 DEF Current
    <3> QED
      BY <1>p, <1>3, <3>2, <3>3, <3>4
  <2> QED
    BY <2>1, <2>2
<1>5. CASE HookV(t)
  <2>1. r.pc = "hv" /\ r.nb # <<>> /\ x = mem.comp[u]
    BY <1>p, <1>5 DEF HookV, CcThread, Current
  <2>2. CASE mem.comp[v] = x
    <3>1. Advance(t, "hu")
      BY <1>p, <1>5, <2>2 DEF HookV
    <3>2. w'[t].pc = "hu"
      BY <1>p, <2>1, <3>1, Advanced DEF AllPcs, HookPcs
    <3>3. Current(t)'
      BY <3>2 DEF Current
    <3>4. \A a, b : Pending(a, b) => Pending(a, b)' \/ (a = u /\ b = v)
      BY <1>p, <2>1, <3>1, PendingAdvances
    <3> QED
      BY <1>p, <1>0, <2>1, <2>2, <3>3, <3>4 DEF HookStep
  <2>3. CASE mem.comp[v] # x
    <3> DEFINE e == [r EXCEPT !.pc = "root", !.y = mem.comp[v]]
    <3>1. w' = [w EXCEPT ![t] = e]
      BY <1>p, <1>5, <2>3 DEF HookV
    <3>2. e.pc = "root" /\ e.u = u /\ e.nb = r.nb /\ e.x = x /\ e.y = mem.comp[v]
      BY <1>p, <1>0 DEF CcRecord
    <3> HIDE DEF e
    <3>3. w'[t] = e /\ Others(t)
      BY <1>p, <1>0, <3>1 DEF CcType, Others
    <3>4. Current(t)'
      BY <1>p, <1>0, <2>1, <3>2, <3>3 DEF Current
    <3> QED
      BY <1>p, <1>3, <3>2, <3>3, <3>4
  <2> QED
    BY <2>2, <2>3
<1>6. CASE HookRoot(t)
  <2>1. /\ r.pc = "root" /\ r.nb # <<>> /\ x = mem.comp[u] /\ y = mem.comp[v]
        /\ x \in N /\ y \in N
    BY <1>p, <1>6 DEF HookRoot, CcThread, Current
  <2>2. mem.comp[x] = x /\ mem.comp[y] = y /\ Hi(x, y) \in {x, y}
    BY <1>2, <2>1 DEF Flat, Hi
  <2>3. Go(t, "set")
    BY <1>p, <1>6, <2>2 DEF HookRoot
  <2>4. /\ Others(t) /\ w'[t].pc = "set" /\ w'[t].u = u /\ w'[t].nb = r.nb
        /\ w'[t].x = x /\ w'[t].y = y
    BY <1>p, <2>3, Went DEF AllPcs, HookPcs
  <2>5. Current(t)'
    BY <1>p, <1>0, <2>1, <2>4 DEF Current
  <2> QED
    BY <1>p, <1>3, <2>4, <2>5
<1> QED
  BY <1>p, <1>4, <1>5, <1>6

\* Shiloach-Vishkin: as long as nothing has changed, no edge is overlooked.
LEMMA HookingStep ==
  ASSUME ComponentsInv, run.kernel = "sv", NEW t \in Workers, CcStep(t)
  PROVE  HookInv'
<1>0. CcType /\ CcInv /\ HookInv /\ \A s \in Workers : CcThread(s)
  BY DEF ComponentsInv
<1>1. run' = run /\ phase' = phase /\ Others(t) /\ N' = N
  BY <1>0, StepSound DEF Sound, N
<1>2. phase \in {"sv_top", "hook", "compress", "done"} /\ mem.comp \in [N -> N]
      /\ mem \in [comp : [N -> N], c : Int, round : Nat, change : BOOLEAN]
  BY <1>0 DEF CcType, CcPhase
<1>3. phase # "sv_top"
  BY DEF CcStep, LinkGrab, LinkRestGrab, LinkP1, LinkP2, LinkHigh, LinkCas, LinkUp, LinkUp2, Linking,
         HookGrab, HookU, HookV, HookRoot, HookSet, CompressGrab, CompressTest, CompressJump, CcPhases
<1>4. CASE phase = "hook"
  <2>1. HookGrab(t) \/ HookU(t) \/ HookV(t) \/ HookRoot(t) \/ HookSet(t) \/ EndLoop(t)
    BY <1>4 DEF CcStep, LinkGrab, LinkRestGrab, LinkP1, LinkP2, LinkHigh, LinkCas, LinkUp, LinkUp2,
                Linking, CompressGrab, CompressTest, CompressJump
  <2>2. CASE mem.change \/ HookSet(t)
    <3>1. mem'.change
      BY <1>2, <2>1, <2>2 DEF HookGrab, HookU, HookV, HookRoot, HookSet, EndLoop, Grab
    <3> QED
      BY <1>1, <1>4, <3>1 DEF HookInv
  <2>3. CASE ~(mem.change \/ HookSet(t))
    <3>1. /\ Flat /\ \A s \in Workers : Current(s)
          /\ \A u \in N \ todo : \A v \in N :
               Edge(run.g, u, v) => mem.comp[u] = mem.comp[v] \/ Pending(u, v)
      BY <1>0, <1>4, <2>3 DEF HookInv
    <3>2. HookStep(t)
      <4>1. CASE EndLoop(t)
        <5>1. w[t].pc = "grab" /\ UNCHANGED <<run, phase, todo, mem>> /\ Go(t, "end")
          BY <4>1 DEF EndLoop, LoopEnd
        <5>2. Others(t) /\ w'[t].pc = "end"
          BY <1>0, <5>1, Went DEF AllPcs
        <5>3. Current(t)'
          BY <5>2 DEF Current
        <5>4. \A u, v : Pending(u, v) => Pending(u, v)'
          BY <5>1, <5>2, PendingStays
        <5> QED
          BY <5>1, <5>3, <5>4 DEF HookStep
      <4> QED
        BY <1>0, <2>1, <2>3, <3>1, <4>1, HookGrabs, HookReads
    <3>3. mem' = mem
      BY <3>2 DEF HookStep
    <3>4. Flat'
      BY <1>1, <3>1, <3>3 DEF Flat
    <3>5. \A s \in Workers : Current(s)'
      BY <1>1, <3>1, <3>2, <3>3 DEF Others, Current, HookStep
    <3>6. ASSUME NEW u \in N, u \notin todo', NEW v \in N, Edge(run.g, u, v)
          PROVE  mem.comp[u] = mem.comp[v] \/ Pending(u, v)'
      BY <3>1, <3>2, <3>6 DEF HookStep
    <3> QED
      BY <1>1, <1>4, <3>3, <3>4, <3>5, <3>6 DEF HookInv
  <2> QED
    BY <2>2, <2>3
<1>5. CASE phase = "compress"
  <2>1. mem'.change = mem.change
    BY <1>2, <1>5 DEF CcStep, LinkGrab, LinkRestGrab, LinkP1, LinkP2, LinkHigh, LinkCas, LinkUp, LinkUp2,
                Linking, HookGrab, HookU, HookV, HookRoot, HookSet, CompressGrab, CompressTest,
                CompressJump, EndLoop, Grab
  <2>2. ASSUME ~mem.change PROVE Flat' /\ Agreed'
    <3>1. Flat /\ Agreed
      BY <1>0, <1>5, <2>2 DEF HookInv
    <3>2. mem'.comp = mem.comp
      <4>1. CASE CompressJump(t)
        <5>1. w[t].u \in N /\ mem' = [mem EXCEPT !.comp[w[t].u] = mem.comp[mem.comp[w[t].u]]]
          BY <1>0, <4>1, AtWork DEF CompressJump
        <5>2. mem.comp[mem.comp[w[t].u]] = mem.comp[w[t].u]
          BY <3>1, <5>1 DEF Flat
        <5> QED
          BY <1>2, <5>1, <5>2
      <4>2. CASE mem' = mem
        BY <4>2
      <4>3. CompressJump(t) \/ mem' = mem
        BY <1>5 DEF CcStep, LinkGrab, LinkRestGrab, LinkP1, LinkP2, LinkHigh, LinkCas, LinkUp, LinkUp2,
                Linking, HookGrab, HookU, HookV, HookRoot, HookSet, CompressGrab, CompressTest,
                EndLoop, Grab
      <4> QED
        BY <4>1, <4>2, <4>3
    <3> QED
      BY <1>1, <3>1, <3>2 DEF Flat, Agreed
  <2> QED
    BY <1>1, <1>5, <2>1, <2>2 DEF HookInv
<1> QED
  BY <1>1, <1>2, <1>3, <1>4, <1>5 DEF HookInv


\* Compress: a thread leaves a node only once it points to a root.
LEMMA SweepStep ==
  ASSUME ComponentsInv, NEW t \in Workers, CcStep(t)
  PROVE  SweepInv'
<1>0. CcType /\ CcInv /\ SweepInv /\ (\A s \in Workers : CcThread(s)) /\ mem.comp \in [N -> N]
  BY DEF ComponentsInv, CcType
<1>1. run' = run /\ phase' = phase /\ Others(t) /\ N' = N
  BY <1>0, StepSound DEF Sound, N
<1> SUFFICES ASSUME phase = "compress", NEW n \in N, n \notin todo'
             PROVE  \/ mem'.comp[mem'.comp[n]] = mem'.comp[n]
                    \/ \E s \in Workers : w'[s].pc \in SweepPcs /\ w'[s].u = n
  BY <1>1 DEF SweepInv
<1>2. CompressGrab(t) \/ CompressTest(t) \/ CompressJump(t) \/ EndLoop(t)
  BY DEF CcStep, LinkGrab, LinkRestGrab, LinkP1, LinkP2, LinkHigh, LinkCas, LinkUp, LinkUp2,
         Linking, HookGrab, HookU, HookV, HookRoot, HookSet
<1>3. n \notin todo => \/ mem.comp[mem.comp[n]] = mem.comp[n]
                       \/ w[t].pc \in SweepPcs /\ w[t].u = n
                       \/ \E s \in Workers : w'[s].pc \in SweepPcs /\ w'[s].u = n
  BY <1>0, <1>1 DEF SweepInv, Others
<1>4. CASE CompressGrab(t)
  <2> DEFINE rest == [i \in todo |-> <<>>]
  <2>1. Grab(t, "cmp", rest) /\ "cmp" \in AllPcs
    BY <1>4 DEF CompressGrab, AllPcs, SweepPcs
  <2>2. rest \in [todo -> Seq(N)]
    BY EmptySeq
  <2> HIDE DEF rest
  <2>3. PICK i \in todo : /\ todo' = todo \ {i} /\ w[t].pc = "grab" /\ mem' = mem
                          /\ w'[t].pc = "cmp" /\ w'[t].u = i
    BY <1>0, <2>1, <2>2, Grabbed
  <2>4. "grab" \notin SweepPcs /\ "cmp" \in SweepPcs
    BY DEF SweepPcs
  <2> QED
    BY <1>3, <2>3, <2>4
<1>5. CASE CompressTest(t)
  <2>1. todo' = todo /\ mem' = mem /\ w[t].pc = "cmp"
    BY <1>5 DEF CompressTest
  <2>2. CASE mem.comp[w[t].u] = mem.comp[mem.comp[w[t].u]]
    BY <1>3, <2>1, <2>2
  <2>3. CASE mem.comp[w[t].u] # mem.comp[mem.comp[w[t].u]]
    <3>1. Go(t, "jump") /\ "jump" \in AllPcs
      BY <1>5, <2>3 DEF CompressTest, AllPcs, SweepPcs
    <3>2. w'[t].pc = "jump" /\ w'[t].u = w[t].u /\ "jump" \in SweepPcs
      BY <1>0, <3>1, Went DEF SweepPcs
    <3> QED
      BY <1>3, <2>1, <3>2
  <2> QED
    BY <2>2, <2>3
<1>6. CASE CompressJump(t)
  <2>1. /\ w[t].pc = "jump" /\ todo' = todo /\ Go(t, "cmp")
        /\ mem' = [mem EXCEPT !.comp[w[t].u] = mem.comp[mem.comp[w[t].u]]]
    BY <1>6 DEF CompressJump
  <2>2. w'[t].pc = "cmp" /\ w'[t].u = w[t].u /\ "cmp" \in SweepPcs
    BY <1>0, <2>1, Went DEF AllPcs, SweepPcs
  <2>3. w[t].u \in N /\ mem'.comp = [mem.comp EXCEPT ![w[t].u] = mem.comp[mem.comp[w[t].u]]]
    BY <1>0, <2>1, AtWork DEF CcType
  <2>4. CASE n # w[t].u /\ mem.comp[mem.comp[n]] = mem.comp[n]
    BY <1>0, <2>3, <2>4
  <2> QED
    BY <1>3, <2>1, <2>2, <2>4
<1>7. CASE EndLoop(t)
  <2>1. todo' = todo /\ mem' = mem /\ w[t].pc = "grab"
    BY <1>7 DEF EndLoop, LoopEnd
  <2>2. "grab" \notin SweepPcs
    BY DEF SweepPcs
  <2> QED
    BY <1>3, <2>1, <2>2
<1> QED
  BY <1>2, <1>4, <1>5, <1>6, <1>7

\* A step of a thread keeps the invariant.
LEMMA ThreadsKeep ==
  ASSUME ComponentsInv, NEW t \in Workers, CcStep(t)
  PROVE  ComponentsInv'
<1>1. /\ Sound(t) /\ \A s \in Workers : CcThread(s)'
  BY StepSound DEF ComponentsInv
<1>2. run' = run /\ phase' = phase
  BY <1>1 DEF Sound
<1>3. phase # "done"
  BY DEF CcStep, LinkGrab, LinkRestGrab, LinkP1, LinkP2, LinkHigh, LinkCas, LinkUp, LinkUp2, Linking,
         HookGrab, HookU, HookV, HookRoot, HookSet, CompressGrab, CompressTest, CompressJump, CcPhases
<1>4. SweepInv'
  BY SweepStep
<1>5. run.kernel = "cc" => AfforestInv'
  BY AfforestStep
<1>6. run.kernel = "sv" => HookInv'
  BY HookingStep
<1> QED
  BY <1>1, <1>2, <1>3, <1>4, <1>5, <1>6 DEF ComponentsInv, Sound


----------------------------------------------------------------------------
(* The serial steps between the loops.                                     *)

\* Starting a loop: the trees are those there were, all threads are free.
LEMMA LoopStarts ==
  ASSUME CcType, CcInv, NEW p \in CcPhase, NEW items \in SUBSET N, StartLoop(p, items),
         mem' \in [comp : [N -> N], c : Int, round : Nat, change : BOOLEAN],
         mem'.comp = mem.comp
  PROVE  /\ CcType' /\ CcInv' /\ run' = run /\ phase' = p /\ todo' = items /\ N' = N
         /\ \A t \in Workers : w'[t].pc = "grab" /\ CcThread(t)' /\ Standing(t)' /\ Current(t)'
         /\ \A u, v : Linked(u, v) => Linked(u, v)'
         /\ Flat => Flat'
         /\ Agreed => Agreed'
<1>1. /\ run' = run /\ phase' = p /\ todo' = items /\ N' = N
      /\ w' = [t \in Workers |-> Free]
  BY DEF StartLoop, N
<1>2. \A t \in Workers : w'[t] = Free /\ w'[t].pc = "grab"
  BY <1>1 DEF Free
<1>3. CcType'
  <2>1. w' \in [Workers -> CcRecord]
    BY <1>1, FreeRecord
  <2>2. \A t \in Workers : w'[t].pc \in Pcs'
    BY <1>2 DEF Pcs
  <2>3. run' \in Runs /\ CcRun' /\ phase' \in CcPhase' /\ todo' \subseteq N'
    BY <1>1 DEF CcType, CcRun, CcPhase
  <2> QED
    BY <1>1, <2>1, <2>2, <2>3 DEF CcType, CcRecord
<1>4. CcInv'
  BY <1>1 DEF CcInv
<1>5. \A t \in Workers : CcThread(t)' /\ Standing(t)' /\ Current(t)'
  BY <1>2 DEF CcThread, Standing, Current
<1>6. \A u, v : Linked(u, v) => Linked(u, v)'
  BY <1>1 DEF Linked, Whole
<1>7. Flat => Flat'
  BY <1>1 DEF Flat
<1>8. Agreed => Agreed'
  BY <1>1 DEF Agreed
<1> QED
  BY <1>1, <1>2, <1>3, <1>4, <1>5, <1>6, <1>7, <1>8

\* After the first rounds and the rest, every edge lies in one tree: an edge is
\* skipped only if both its ends are in the tree of c.
LEMMA RestLinks ==
  ASSUME CcType, AfforestInv, phase = "link_rest", AllEnd,
         NEW u \in N, NEW v \in N, Edge(run.g, u, v)
  PROVE  Linked(u, v)
<1>0. mem.comp \in [N -> N] /\ mem.round = run.neighbor_rounds /\ RoundsDone
      /\ run.neighbor_rounds \in Nat /\ IsGraph(run.g)
  BY TheRun DEF CcType, AfforestInv
<1>1. /\ \A a : Linked(a, a)
      /\ \A a, b : Linked(a, b) => Linked(b, a)
      /\ \A a, b, c : Linked(a, b) /\ Linked(b, c) => Linked(a, c)
  BY <1>0, LinkedFacts
<1>2. ASSUME NEW a \in N, NEW b \in Due(a)
      PROVE  Linked(a, mem.c) \/ Linked(a, b)
  <2>1. ~Pending(a, b) /\ a \notin todo
    BY DEF AllEnd, Pending
  <2> QED
    BY <2>1 DEF AfforestInv
<1>3. ASSUME NEW a \in N, NEW b \in N, Edge(run.g, a, b), ~Linked(a, b)
      PROVE  b \in Due(a)
  <2>1. PICK i \in DOMAIN out_neigh(run.g, a) : out_neigh(run.g, a)[i] = b
    BY <1>3, Neighbours
  <2>2. ~(i <= mem.round) /\ i \in Int
    <3>1. i \in Int
      BY <2>1, Neighbours
    <3>2. i <= mem.round => Linked(a, b)
      BY <1>0, <2>1 DEF RoundsDone
    <3> QED
      BY <1>3, <3>1, <3>2
  <2>3. i > run.neighbor_rounds
    BY <1>0, <2>2
  <2> QED
    BY <2>1, <2>3 DEF Due
<1>4. ASSUME ~Linked(u, v)
      PROVE  Linked(v, mem.c) \/ Linked(v, u)
  <2>1. CASE run.g.directed
    <3>1. u \in Due(v)
      <4>1. PICK i \in DOMAIN in_neigh(run.g, v) : in_neigh(run.g, v)[i] = u
        BY Neighbours
      <4> QED
        BY <2>1, <4>1 DEF Due
    <3> QED
      BY <1>2, <3>1
  <2>2. CASE ~run.g.directed
    <3>1. Edge(run.g, v, u)
      BY <1>0, <2>2 DEF IsGraph, N
    <3> QED
      BY <1>2, <1>3, <3>1
  <2> QED
    BY <2>1, <2>2
<1> QED
  BY <1>1, <1>2, <1>3, <1>4

\* The next round of linking, or the rest after the sampling.
LEMMA AfforestNextKeeps ==
  ASSUME ComponentsInv, AfforestNext
  PROVE  ComponentsInv'
<1>0. /\ CcType /\ CcInv /\ phase = "cc_top" /\ run.kernel = "cc" /\ AfforestInv
      /\ mem \in [comp : [N -> N], c : Int, round : Nat, change : BOOLEAN]
      /\ N \subseteq Nat /\ run.neighbor_rounds \in Nat
  BY TheRun DEF ComponentsInv, CcType, CcPhase, AfforestNext
<1>1. PICK p \in {"link", "link_rest"} :
        /\ StartLoop(p, N) /\ mem'.comp = mem.comp /\ mem'.round = mem.round
        /\ mem' \in [comp : [N -> N], c : Int, round : Nat, change : BOOLEAN]
        /\ p = "link" => mem.round < run.neighbor_rounds
        /\ p = "link_rest" => mem.round = run.neighbor_rounds
  <2>1. CASE mem.round < run.neighbor_rounds
    <3>1. UNCHANGED mem /\ StartLoop("link", N)
      BY <2>1 DEF AfforestNext, N
    <3> QED
      BY <1>0, <2>1, <3>1
  <2>2. CASE ~(mem.round < run.neighbor_rounds)
    <3>1. PICK c \in Range(mem.comp) : mem' = [mem EXCEPT !.c = c] /\ StartLoop("link_rest", N)
      BY <2>2 DEF AfforestNext, N
    <3>2. c \in Int
      BY <1>0, <3>1 DEF Range
    <3>3. mem.round = run.neighbor_rounds
      BY <1>0, <2>2 DEF AfforestInv
    <3> QED
      BY <1>0, <3>1, <3>2, <3>3
  <2> QED
    BY <2>1, <2>2
<1>2. p \in CcPhase
  BY <1>0 DEF CcPhase
<1>3. /\ CcType' /\ CcInv' /\ run' = run /\ phase' = p /\ todo' = N /\ N' = N
      /\ \A t \in Workers : CcThread(t)' /\ Standing(t)'
      /\ \A u, v : Linked(u, v) => Linked(u, v)'
  BY <1>0, <1>1, <1>2, LoopStarts
<1>4. RoundsDone'
  BY <1>0, <1>1, <1>3 DEF AfforestInv, RoundsDone
<1>5. AfforestInv'
  BY <1>0, <1>1, <1>3, <1>4 DEF AfforestInv
<1>6. SweepInv'
  BY <1>3 DEF SweepInv
<1> QED
  BY <1>0, <1>3, <1>5, <1>6 DEF ComponentsInv

\* After a loop of linking: all that was due is linked.
LEMMA LinkEndKeeps ==
  ASSUME ComponentsInv, LinkEnd
  PROVE  ComponentsInv'
<1>0. /\ CcType /\ CcInv /\ phase \in {"link", "link_rest"} /\ run.kernel = "cc" /\ AfforestInv
      /\ mem \in [comp : [N -> N], c : Int, round : Nat, change : BOOLEAN]
      /\ run.neighbor_rounds \in Nat /\ AllEnd
  BY TheRun DEF ComponentsInv, CcType, CcPhase, LinkEnd
<1>1. /\ StartLoop("compress", N) /\ mem'.comp = mem.comp /\ mem'.round = mem.round + 1
      /\ mem' \in [comp : [N -> N], c : Int, round : Nat, change : BOOLEAN]
  BY <1>0 DEF LinkEnd, N
<1>2. "compress" \in CcPhase
  BY <1>0 DEF CcPhase
<1>3. /\ CcType' /\ CcInv' /\ run' = run /\ phase' = "compress" /\ todo' = N /\ N' = N
      /\ \A t \in Workers : CcThread(t)'
      /\ \A u, v : Linked(u, v) => Linked(u, v)'
  BY <1>0, <1>1, <1>2, LoopStarts
<1>4. CASE phase = "link"
  <2>1. mem'.round <= run.neighbor_rounds
    BY <1>0, <1>1, <1>4 DEF AfforestInv
  <2>2. ASSUME NEW u \in N, NEW i \in DOMAIN out_neigh(run.g, u), i <= mem.round + 1
        PROVE  Linked(u, out_neigh(run.g, u)[i])
    <3>1. i \in Int
      BY <1>0, Neighbours
    <3>2. CASE i <= mem.round
      BY <1>0, <2>2, <3>2 DEF AfforestInv, RoundsDone
    <3>3. CASE i = mem.round + 1
      <4>1. out_neigh(run.g, u)[i] \in Due(u)
        BY <1>4, <3>3 DEF Due
      <4>2. \A v : ~Pending(u, v)
        BY <1>0 DEF AllEnd, Pending
      <4>3. u \notin todo
        BY <1>0 DEF AllEnd
      <4> QED
        BY <1>0, <1>4, <4>1, <4>2, <4>3 DEF AfforestInv
    <3> QED
      BY <1>0, <2>2, <3>1, <3>2, <3>3
  <2>3. RoundsDone'
    BY <1>1, <1>3, <2>2 DEF RoundsDone
  <2> QED
    BY <1>0, <1>3, <2>1, <2>3 DEF ComponentsInv, AfforestInv, SweepInv
<1>5. CASE phase = "link_rest"
  <2>1. ~(mem'.round <= run.neighbor_rounds)
    BY <1>0, <1>1, <1>5 DEF AfforestInv
  <2>2. \A u, v \in N : Edge(run.g, u, v) => Linked(u, v)'
    BY <1>0, <1>3, <1>5, RestLinks
  <2> QED
    BY <1>0, <1>3, <2>1, <2>2 DEF ComponentsInv, AfforestInv, SweepInv
<1> QED
  BY <1>0, <1>4, <1>5

\* Around the loop of hooking: a round without a change has seen no edge between two trees.
LEMMA HookingKeeps ==
  ASSUME ComponentsInv, SvNext \/ HookEnd
  PROVE  ComponentsInv'
<1>0. /\ CcType /\ CcInv /\ run.kernel = "sv" /\ HookInv
      /\ mem \in [comp : [N -> N], c : Int, round : Nat, change : BOOLEAN]
  BY TheRun DEF ComponentsInv, CcType, CcPhase, SvNext, HookEnd
<1>1. CASE SvNext
  <2>1. /\ StartLoop("hook", N) /\ mem'.comp = mem.comp /\ phase = "sv_top"
        /\ mem' \in [comp : [N -> N], c : Int, round : Nat, change : BOOLEAN]
    BY <1>0, <1>1 DEF SvNext, N
  <2>2. "hook" \in CcPhase
    BY <1>0 DEF CcPhase
  <2>3. /\ CcType' /\ CcInv' /\ run' = run /\ phase' = "hook" /\ todo' = N /\ N' = N
        /\ \A t \in Workers : CcThread(t)' /\ Current(t)'
        /\ Flat => Flat'
    BY <1>0, <2>1, <2>2, LoopStarts
  <2>4. Flat
    BY <1>0, <2>1 DEF HookInv
  <2> QED
    BY <1>0, <2>3, <2>4 DEF ComponentsInv, HookInv, SweepInv
<1>2. CASE HookEnd
  <2>1. /\ StartLoop("compress", N) /\ mem' = mem /\ phase = "hook" /\ AllEnd
    BY <1>2 DEF HookEnd, N
  <2>2. "compress" \in CcPhase
    BY <1>0 DEF CcPhase
  <2>3. /\ CcType' /\ CcInv' /\ run' = run /\ phase' = "compress" /\ todo' = N /\ N' = N
        /\ \A t \in Workers : CcThread(t)'
        /\ Flat => Flat'
        /\ Agreed => Agreed'
    BY <1>0, <2>1, <2>2, LoopStarts
  <2>4. ASSUME ~mem.change PROVE Flat /\ Agreed
    <3>1. \A u \in N : u \notin todo /\ \A v : ~Pending(u, v)
      BY <2>1 DEF AllEnd, Pending
    <3> QED
      BY <1>0, <2>1, <2>4, <3>1 DEF HookInv, Agreed
  <2> QED
    BY <1>0, <2>1, <2>3, <2>4 DEF ComponentsInv, HookInv, SweepInv
<1> QED
  BY <1>1, <1>2

\* After Compress every node points to a root; then the kernel goes on or returns.
LEMMA CompressEndKeeps ==
  ASSUME ComponentsInv, CompressEnd
  PROVE  ComponentsInv'
<1> DEFINE p == IF run.kernel = "cc"
                THEN IF mem.round <= run.neighbor_rounds THEN "cc_top" ELSE "done"
                ELSE IF mem.change THEN "sv_top" ELSE "done"
<1>0. /\ CcType /\ CcInv /\ run.kernel \in {"cc", "sv"} /\ phase = "compress" /\ AllEnd
      /\ run.kernel = "cc" => AfforestInv
      /\ run.kernel = "sv" => HookInv
      /\ SweepInv /\ mem' = mem /\ StartLoop(p, {})
      /\ mem \in [comp : [N -> N], c : Int, round : Nat, change : BOOLEAN]
  BY DEF ComponentsInv, CcType, CcRun, CompressEnd
<1>1. p \in CcPhase
  BY <1>0 DEF CcPhase
<1>2. Flat
  <2>1. \A t \in Workers : w[t].pc \notin SweepPcs
    BY <1>0 DEF AllEnd, SweepPcs
  <2>2. todo = {}
    BY <1>0 DEF AllEnd
  <2> QED
    BY <1>0, <2>1, <2>2 DEF SweepInv, Flat
<1>3. p = "done" => Agreed
  <2>1. CASE run.kernel = "cc" /\ p = "done"
    <3>1. \A u, v \in N : Edge(run.g, u, v) => Linked(u, v)
      BY <1>0, <2>1 DEF AfforestInv
    <3> QED
      BY <1>0, <1>2, <3>1, FlatTrees DEF Agreed
  <2>2. CASE run.kernel = "sv" /\ p = "done"
    BY <1>0, <2>2 DEF HookInv
  <2> QED
    BY <1>0, <2>1, <2>2
<1>4. p = "cc_top" => RoundsDone /\ mem.round <= run.neighbor_rounds
  BY <1>0 DEF AfforestInv
<1>5. p \in {"cc_top", "sv_top", "done"}
  OBVIOUS
<1> HIDE DEF p
<1>6. /\ CcType' /\ CcInv' /\ run' = run /\ phase' = p /\ N' = N
      /\ \A t \in Workers : CcThread(t)'
      /\ \A u, v : Linked(u, v) => Linked(u, v)'
      /\ Flat => Flat'
      /\ Agreed => Agreed'
  <2>1. {} \in SUBSET N
    OBVIOUS
  <2> QED
    BY <1>0, <1>1, <2>1, LoopStarts
<1>7. RoundsDone => RoundsDone'
  BY <1>0, <1>6 DEF RoundsDone
<1>8. AfforestInv'
  BY <1>0, <1>4, <1>5, <1>6, <1>7 DEF AfforestInv
<1>9. HookInv'
  BY <1>2, <1>5, <1>6 DEF HookInv
<1> QED
  BY <1>3, <1>5, <1>6, <1>8, <1>9 DEF ComponentsInv, SweepInv


----------------------------------------------------------------------------
(* The other kernels leave the run alone.                                  *)

\* No action assigns the inputs of the run.
LEMMA RunStays ==
  ASSUME [Next]_vars
  PROVE  run' = run
<1>1. ASSUME NEW t \in Workers, BfsStep(t) PROVE run' = run
  BY <1>1 DEF BfsStep, TDGrab, TDRead, TDCas, Q2BGrab, Q2BRead, Q2BCas, BUGrab, BUNode, BUStore,
              B2QNode, Grab, EndLoop, FlushAtEnd
<1>2. ASSUME NEW t \in Workers, BcStep(t) PROVE run' = run
  BY <1>2 DEF BcStep, BcGrab, BcRead, BcCas, BcSucc, BcCount, BcBack, Grab, EndLoop, FlushAtEnd
<1>3. ASSUME NEW t \in Workers, SsspStep(t) PROVE run' = run
  BY <1>3 DEF SsspStep, SsspGrab, RelaxOld, RelaxNew, RelaxCas, RelaxReread, FuseBin, ProposeBin, CopyBin,
              Grab, EndLoop, FlushAtEnd
<1>4. ASSUME NEW t \in Workers, CsrStep(t) PROVE run' = run
  BY <1>4 DEF CsrStep, CountGrab, CountAdd, FillGrab, FillTake, FillPut, Grab, EndLoop, FlushAtEnd
<1>5. ASSUME NEW t \in Workers, CcStep(t) PROVE run' = run
  BY <1>5 DEF CcStep, LinkGrab, LinkRestGrab, LinkP1, LinkP2, LinkHigh, LinkCas, LinkUp, LinkUp2,
              HookGrab, HookU, HookV, HookRoot, HookSet, CompressGrab, CompressTest, CompressJump,
              Grab, EndLoop
<1>6. ASSUME BfsSerial PROVE run' = run
  BY <1>6 DEF BfsSerial, DOBFS, TDEnd, Q2BEnd, BUEnd, B2QEnd, EnterBU, StartLoop
<1>7. ASSUME BcSerial PROVE run' = run
  BY <1>7 DEF BcSerial, PBFSLevel, BcLevelEnd, BcUp, BcBackEnd, StartLoop
<1>8. ASSUME SsspSerial PROVE run' = run
  BY <1>8 DEF SsspSerial, SsspTop, RelaxEnd, CopyEnd, StartLoop
<1>9. ASSUME CsrSerial PROVE run' = run
  BY <1>9 DEF CsrSerial, CsrStart, CountEnd, FillEnd, StartLoop
<1>10. ASSUME CcSerial PROVE run' = run
  BY <1>10 DEF CcSerial, AfforestNext, LinkEnd, SvNext, HookEnd, CompressEnd, StartLoop
<1>11. ASSUME Stop \/ UNCHANGED vars PROVE run' = run
  BY <1>11 DEF Stop, vars
<1> QED
  BY <1>1, <1>2, <1>3, <1>4, <1>5, <1>6, <1>7, <1>8, <1>9, <1>10, <1>11 DEF Next, Work, Serial, Step

----------------------------------------------------------------------------
(* The result.                                                             *)

\* Every node is a tree of its own at first.
LEMMA ComponentsInit ==
  ASSUME Init, CcRun
  PROVE  ComponentsInv
<1>1. /\ run \in Runs /\ run.kernel \in {"cc", "sv"} /\ todo = {} /\ w = [t \in Workers |-> Free]
      /\ mem = [comp |-> [n \in N |-> n], c |-> -1, round |-> 0, change |-> FALSE]
      /\ phase = IF run.kernel = "cc" THEN "cc_top" ELSE "sv_top"
  BY DEF Init, CcRun, CcMem, FirstPhase, N
<1>2. IsGraph(run.g) /\ IsComponents(run.g, run.ref) /\ run.neighbor_rounds \in Nat
  BY <1>1, RunsAssumption
<1>3. CcType
  <2>1. \A t \in Workers : w[t] = Free /\ w[t].pc = "grab" /\ w[t].pc \in Pcs
    BY <1>1 DEF Free, Pcs
  <2>2. w \in [Workers -> CcRecord]
    BY <1>1, FreeRecord
  <2>3. mem \in [comp : [N -> N], c : Int, round : Nat, change : BOOLEAN]
    BY <1>1
  <2> QED
    BY <1>1, <2>1, <2>2, <2>3 DEF CcType, CcRun, CcPhase, CcRecord
<1>4. \A v \in N : mem.comp[v] = v /\ v \in Nat
  BY <1>1, <1>2 DEF IsGraph, N, Nodes
<1>5. CcInv
  BY <1>4 DEF CcInv, N
<1>6. \A t \in Workers : CcThread(t)
  BY <1>1 DEF CcThread, Free
<1>7. RoundsDone /\ mem.round <= run.neighbor_rounds
  <2>1. \A u \in N : \A i \in DOMAIN out_neigh(run.g, u) : ~(i <= mem.round)
    BY <1>1, <1>3, Neighbours
  <2> QED
    BY <1>1, <1>2, <2>1 DEF RoundsDone
<1>8. Flat
  BY <1>4 DEF Flat
<1> QED
  BY <1>1, <1>3, <1>5, <1>6, <1>7, <1>8 DEF ComponentsInv, AfforestInv, HookInv, SweepInv

\* The invariant is a state predicate of the variables.
LEMMA ComponentsStutter ==
  ASSUME ComponentsInv, UNCHANGED vars
  PROVE  ComponentsInv'
<1>0. run' = run /\ phase' = phase /\ todo' = todo /\ w' = w /\ mem' = mem /\ N' = N
  BY DEF vars, N
<1>1. CcType' /\ CcInv' /\ (phase' = "done" => Agreed') /\ SweepInv'
  BY <1>0 DEF ComponentsInv, CcType, CcRun, CcPhase, Pcs, CcInv, Agreed, SweepInv
<1>2. \A t \in Workers : CcThread(t)'
  BY <1>0 DEF ComponentsInv, CcThread, Joined
<1>3. ASSUME run.kernel = "cc" PROVE AfforestInv'
  <2>1. \A u, v : (Linked(u, v) <=> Linked(u, v)') /\ (Pending(u, v) <=> Pending(u, v)')
    BY <1>0 DEF Linked, Whole, Pending
  <2>2. \A u : Due(u)' = Due(u)
    BY <1>0 DEF Due
  <2>3. \A t \in Workers : Standing(t) => Standing(t)'
    BY <1>0, <2>1 DEF Standing
  <2> QED
    BY <1>0, <1>3, <2>1, <2>2, <2>3 DEF ComponentsInv, AfforestInv, RoundsDone
<1>4. ASSUME run.kernel = "sv" PROVE HookInv'
  BY <1>0, <1>4 DEF ComponentsInv, HookInv, Flat, Current, Agreed, Pending
<1> QED
  BY <1>0, <1>1, <1>2, <1>3, <1>4 DEF ComponentsInv

\* Every step keeps the invariant.
LEMMA ComponentsNext ==
  ASSUME ComponentsInv, [Next]_vars
  PROVE  ComponentsInv'
<1>1. CASE Next
  <2>1. CcType
    BY DEF ComponentsInv
  <2>2. CASE \E t \in Workers : CcStep(t)
    BY <2>2, ThreadsKeep
  <2>3. CASE CcSerial
    BY <2>3, AfforestNextKeeps, LinkEndKeeps, HookingKeeps, CompressEndKeeps DEF CcSerial
  <2>4. CASE Stop
    BY <2>4, ComponentsStutter DEF Stop
  <2> QED
    BY <1>1, <2>1, <2>2, <2>3, <2>4, OnlyComponents
<1>2. CASE UNCHANGED vars
  BY <1>2, ComponentsStutter
<1> QED
  BY <1>1, <1>2

\* When the ends of every edge point to the same node, comp is the answer.
LEMMA AgreedIsRight ==
  ASSUME CcType, CcInv, Agreed
  PROVE  mem.comp = run.ref
<1>0. mem.comp \in [N -> N] /\ IsComponents(run.g, run.ref) /\ N \subseteq Nat
  BY TheRun DEF CcType
<1>1. run.ref \in [N -> N] /\ \A v \in N : run.ref[v] <= v
  BY <1>0 DEF IsComponents, N
<1>2. ASSUME NEW v \in N
      PROVE  mem.comp[v] = run.ref[v]
  <2> DEFINE S == {x \in N : mem.comp[x] = mem.comp[v]}
  <2>1. \A a, b \in N : Edge(run.g, a, b) => (a \in S <=> b \in S)
    BY DEF Agreed
  <2>2. S \in SUBSET N /\ v \in S
    OBVIOUS
  <2> HIDE DEF S
  <2>3. run.ref[v] \in S
    BY <1>0, <2>1, <2>2 DEF IsComponents, N
  <2>4. mem.comp[run.ref[v]] = mem.comp[v] /\ run.ref[v] \in N
    BY <2>3 DEF S
  <2>5. mem.comp[v] <= run.ref[v]
    BY <2>4 DEF CcInv, N
  <2>6. run.ref[mem.comp[v]] = run.ref[v] /\ mem.comp[v] \in N
    BY <1>0 DEF CcInv, N
  <2>7. run.ref[v] <= mem.comp[v]
    BY <1>1, <2>6
  <2>8. mem.comp[v] \in Int /\ run.ref[v] \in Int
    <3>1. \A x \in N : x \in Int
      BY <1>0
    <3> QED
      BY ONLY <2>4, <2>6, <3>1
  <2> QED
    BY <2>5, <2>7, <2>8
<1>3. mem.comp \in [N -> N] /\ run.ref \in [N -> N]
  BY <1>0, <1>1
<1> QED
  BY ONLY <1>2, <1>3

\* Afforest and Shiloach-Vishkin label every node with the least node of its
\* component, whatever the threads' schedule: no interleaving of the reads, the
\* compare-and-swaps or (in Shiloach-Vishkin) the plain stores to comp joins two
\* components, and none loses an edge, although Afforest skips the tree of the
\* node it has sampled (cc.cc, cc_sv.cc).
THEOREM ComponentsFound ==
  Spec => [](run.kernel \in {"cc", "sv"} => KernelInv /\ ResultCorrect)
<1> DEFINE Inv == CcRun => ComponentsInv
<1>1. Init => Inv
  BY ComponentsInit
<1>2. Inv /\ [Next]_vars => Inv'
  BY ComponentsNext, RunStays DEF CcRun
<1>3. Inv => (run.kernel \in {"cc", "sv"} => KernelInv /\ ResultCorrect)
  <2> SUFFICES ASSUME ComponentsInv, run.kernel \in {"cc", "sv"}
               PROVE  KernelInv /\ ResultCorrect
    BY DEF CcRun
  <2>1. KernelInv
    BY DEF ComponentsInv, KernelInv
  <2>2. ResultCorrect
    BY AgreedIsRight DEF ComponentsInv, ResultCorrect
  <2> QED
    BY <2>1, <2>2
<1> QED
  BY <1>1, <1>2, <1>3, PTL DEF Spec

----------------------------------------------------------------------------
(* Breadth-first search.                                                   *)

BfsRun == run.kernel = "bfs"
BfsPhases == {"bfs_top", "td", "q2b", "bu", "b2q", "done"}
BfsPcs == {"grab", "end", "edge", "cas", "bit", "bitcas", "node", "store"}
PcsOf == [bfs_top |-> {"grab"}, done |-> {"grab"},
          td |-> {"grab", "edge", "cas", "end"}, q2b |-> {"grab", "bit", "bitcas", "end"},
          bu |-> {"grab", "node", "store", "end"}, b2q |-> {"grab", "end"}]
BfsRecord == [pc : BfsPcs, u : Int, nb : Seq(Int), x : Int \cup SUBSET Int, y : Int]
BfsFields == {"queue", "start", "end", "parent", "lq", "front", "curr",
              "edges_to_check", "scout_count", "awake_count", "old_awake_count"}

BfsType ==
  /\ run \in Runs /\ BfsRun /\ phase \in BfsPhases /\ todo \subseteq N
  /\ w \in [Workers -> BfsRecord]
  /\ \A t \in Workers : w[t].pc \in PcsOf[phase]
  /\ DOMAIN mem = BfsFields
  /\ mem.queue \in Seq(N) /\ mem.lq \in [Workers -> Seq(N)]
  /\ mem.start \in Nat /\ mem.end \in Nat
  /\ mem.parent \in [N -> Int] /\ mem.front \subseteq N /\ mem.curr \subseteq N

\* The nodes of a depth.
At(d) == {v \in N : run.ref[v] = d}
UpTo(d) == {v \in N : run.ref[v] >= 0 /\ run.ref[v] <= d}
Found == {v \in N : mem.parent[v] >= 0}

\* The queue q and the threads' buffers b hold no node twice.
Apart(q, b) ==
  /\ \A i, j \in DOMAIN q : q[i] = q[j] => i = j
  /\ \A t \in Workers : \A i, j \in DOMAIN b[t] : b[t][i] = b[t][j] => i = j
  /\ \A t \in Workers : \A i \in DOMAIN q : \A j \in DOMAIN b[t] : q[i] # b[t][j]
  /\ \A s, t \in Workers : \A i \in DOMAIN b[s] : \A j \in DOMAIN b[t] : s # t => b[s][i] # b[t][j]

\* v is in the queue or on its way there.
Queued(q, b, v) ==
  \/ \E i \in DOMAIN q : q[i] = v
  \/ \E t \in Workers : \E i \in DOMAIN b[t] : b[t][i] = v
Waiting(v) == Queued(mem.queue, mem.lq, v)

\* What is behind the first e of the queue or on its way there is in S.
Past(q, b, e, S) ==
  /\ \A i \in e + 1 .. Len(q) : q[i] \in S
  /\ \A t \in Workers : \A i \in DOMAIN b[t] : b[t][i] \in S

\* Depth of what is being pushed while the window of depth d or the bitmap is read.
Pushing(d) == IF phase = "td" THEN d + 1 ELSE d

\* The queue at depth d: older levels, the window, then what is being pushed.
QueueInv(d) ==
  /\ mem.start <= mem.end /\ mem.end <= Len(mem.queue)
  /\ Apart(mem.queue, mem.lq)
  /\ \A v \in N : Waiting(v) => v \in Found
  /\ \A i \in 1 .. mem.start : run.ref[mem.queue[i]] <= IF phase = "bu" THEN d ELSE d - 1
  /\ Past(mem.queue, mem.lq, mem.end, At(Pushing(d)))
  /\ phase \in {"bu", "b2q"} => mem.start = mem.end
  /\ phase \in {"bfs_top", "td", "q2b"} => \A v \in N : v \in Window(mem) <=> v \in At(d)
  /\ phase \in {"bfs_top", "q2b", "bu"} => mem.end = Len(mem.queue)
  /\ phase \notin {"td", "b2q"} => \A t \in Workers : mem.lq[t] = <<>>

\* A thread that has left a loop has flushed its buffer.
Flushed == \A t \in Workers : w[t].pc = "end" => mem.lq[t] = <<>>

\* What has a parent at depth d, and that it is one level up.
ParentInv(d) ==
  /\ \A v \in Found : /\ mem.parent[v] \in N
                      /\ v # run.source => /\ Edge(run.g, mem.parent[v], v)
                                           /\ run.ref[v] = run.ref[mem.parent[v]] + 1
  /\ UpTo(d) \subseteq Found
  /\ Found \subseteq IF phase \in {"td", "bu"} THEN UpTo(d + 1) ELSE UpTo(d)
  /\ mem.front \subseteq UpTo(d)

\* Top-down: a node without a parent waits behind every edge from the window.
TopDownInv(d) ==
  phase = "td" =>
    /\ todo \subseteq At(d)
    /\ \A t \in Workers : w[t].pc \in {"edge", "cas"} =>
         w[t].u \in At(d) /\ \A i \in DOMAIN w[t].nb : w[t].nb[i] \in N /\ Edge(run.g, w[t].u, w[t].nb[i])
    /\ \A t \in Workers : w[t].pc = "cas" =>
         /\ w[t].nb # <<>> /\ w[t].x \in Int /\ w[t].x < 0
         /\ Head(w[t].nb) \in Found \/ mem.parent[Head(w[t].nb)] = w[t].x
    /\ \A u \in At(d) \ todo : \A v \in N : Edge(run.g, u, v) => v \in Found \/ Pending(u, v)
    /\ \A v \in Found : run.ref[v] = d + 1 => Waiting(v)

\* Into the bitmap: no node of the window is lost.
ToBitmapInv(d) ==
  phase = "q2b" =>
    /\ todo \subseteq At(d)
    /\ \A t \in Workers : w[t].pc \in {"bit", "bitcas"} => w[t].u \in At(d)
    /\ \A u \in At(d) :
         \/ u \in mem.front \cup todo
         \/ \E t \in Workers : w[t].pc \in {"bit", "bitcas"} /\ w[t].u = u

\* v is in the part of the nodes that thread t still treats.
Ahead(t, v) == w[t].pc \in {"node", "store"} /\ \E i \in DOMAIN w[t].nb : w[t].nb[i] = v

\* Bottom-up: threads work on chunks of their own; a word that a thread is about
\* to store is still what it has read; and a node of the next level is in the new
\* bitmap, with the thread that stores its bit, or still ahead.
OwnChunks ==
  \A t \in Workers : w[t].pc \in {"node", "store"} =>
    /\ w[t].u \in Chunks(run.g) \ todo
    /\ \A i \in DOMAIN w[t].nb : w[t].nb[i] \in N /\ w[t].nb[i] \div BuChunk = w[t].u \div BuChunk
    /\ \A s \in Workers \ {t} : w[s].pc \in {"node", "store"} => w[s].u # w[t].u

StoresFit(d) ==
  \A t \in Workers : w[t].pc = "store" =>
    /\ w[t].nb # <<>> /\ Head(w[t].nb) \in At(d + 1) \cap Found
    /\ w[t].x = mem.curr \cap Word(run.g, Head(w[t].nb))

NoneMissed(d) ==
  \A v \in At(d + 1) :
    IF v \in Found
    THEN v \in mem.curr \/ \E t \in Workers : w[t].pc = "store" /\ Head(w[t].nb) = v
    ELSE (\E c \in todo : c \div BuChunk = v \div BuChunk) \/ \E t \in Workers : Ahead(t, v)

BottomUpInv(d) ==
  phase = "bu" =>
    /\ At(d) \subseteq mem.front
    /\ mem.curr \subseteq At(d + 1) \cap Found
    /\ todo \subseteq Chunks(run.g)
    /\ OwnChunks /\ StoresFit(d) /\ NoneMissed(d)

\* Back into the queue: what is not pushed yet is still to be looked at.
ToQueueInv(d) ==
  phase = "b2q" =>
    /\ mem.front = At(d)
    /\ \A v \in At(d) : v \in todo <=> ~Waiting(v)

\* The end: everything the source reaches is found.
DoneInv ==
  phase = "done" => \A v \in N : IF run.ref[v] = -1 THEN mem.parent[v] = -1 ELSE mem.parent[v] >= 0

BfsAt(d) ==
  /\ BfsType /\ Flushed
  /\ phase # "done" =>
       QueueInv(d) /\ ParentInv(d) /\ TopDownInv(d) /\ ToBitmapInv(d) /\ BottomUpInv(d) /\ ToQueueInv(d)
  /\ phase = "done" => DoneInv /\ BfsInv

----------------------------------------------------------------------------
(* Numbers and sets of numbers.                                            *)

\* A set of numbers has a least one.
LEMMA LeastOne ==
  ASSUME NEW T, T \subseteq Nat, T # {}
  PROVE  \E x \in T : \A y \in T : x <= y
<1> DEFINE less == OpToRel(<, Nat)
<1>1. IsWellFoundedOn(less, Nat)
  BY NatLessThanWellFounded, Zenon
<1>2. \A x, y \in Nat : y < x => <<y, x>> \in less
  BY DEF OpToRel
<1> HIDE DEF less
<1>3. PICK x \in T : \A y \in T : <<y, x>> \notin less
  BY <1>1, WFMin
<1>4. ASSUME NEW y \in T, ~(x <= y) PROVE FALSE
  <2>1. x \in Nat /\ y \in Nat /\ y < x
    BY <1>4
  <2> QED
    BY <1>2, <1>3, <2>1
<1> QED
  BY <1>4

\* So Min picks a member.
LEMMA MinIn ==
  ASSUME NEW S, S \subseteq Nat, S # {}
  PROVE  Min(S) \in S
BY LeastOne DEF Min

\* SetToSeq lists a finite set of numbers, each of them.
LEMMA ListOf ==
  ASSUME NEW S, IsFiniteSet(S)
  PROVE  SetToSeq(S) \in Seq(S) /\ \A v \in S : \E i \in DOMAIN SetToSeq(S) : SetToSeq(S)[i] = v
<1> DEFINE c == Cardinality(S)
<1>1. c \in Nat /\ ExistsBijection(1 .. c, S)
  BY FS_CardinalityType
<1>2. \E f \in [1 .. c -> S] : IsInjective(f)
  BY <1>1 DEF ExistsBijection, Bijection, Injection
<1>3. SetToSeq(S) \in [1 .. c -> S] /\ IsInjective(SetToSeq(S))
  BY <1>2 DEF SetToSeq
<1>4. IsFiniteSet(1 .. c) /\ Cardinality(1 .. c) = c
  BY <1>1, FS_Interval
<1>5. SetToSeq(S) \in Surjection(1 .. c, S)
  BY <1>3, <1>4, FS_Injection DEF Injection
<1>6. SetToSeq(S) \in Seq(S)
  BY <1>1, <1>3, SeqDef
<1> QED
  BY <1>3, <1>5, <1>6 DEF Surjection

\* Division with remainder.
LEMMA DivMod ==
  ASSUME NEW n \in Nat, NEW c \in Nat \ {0}
  PROVE  /\ n \div c \in Nat /\ n % c \in Nat /\ n % c < c
         /\ n = c * (n \div c) + (n % c)
BY Z3

\* A quotient is below q when the number is below the q-th multiple.
LEMMA Quotient ==
  ASSUME NEW n \in Nat, NEW c \in Nat \ {0}, NEW q \in Nat
  PROVE  n \div c < q <=> n < c * q
BY DivMod, Z3

\* Every node is in a chunk, that of one multiple of BuChunk ...
LEMMA ChunkHead ==
  ASSUME NEW v \in Nat
  PROVE  \E h \in Nat : h <= v /\ h % BuChunk = 0 /\ h \div BuChunk = v \div BuChunk
<1> DEFINE h == BuChunk * (v \div BuChunk)
<1>1. h \in Nat /\ h <= v
  BY GapAssumption, DivMod, Z3
<1>2. h % BuChunk = 0 /\ h \div BuChunk = v \div BuChunk
  BY GapAssumption, DivMod, Z3
<1> QED
  BY <1>1, <1>2

\* Two chunk heads of the same chunk are one.
LEMMA SameHead ==
  ASSUME NEW a \in Nat, NEW b \in Nat, a % BuChunk = 0, b % BuChunk = 0, a \div BuChunk = b \div BuChunk
  PROVE  a = b
BY DivMod, GapAssumption

\* ... and the nodes of a word of the bitmap are in the same chunk.
LEMMA WordsWithin ==
  ASSUME NEW a \in Nat, NEW b \in Nat, a \div kBitsPerWord = b \div kBitsPerWord
  PROVE  a \div BuChunk = b \div BuChunk
<1>0. BuChunk \in Nat /\ kBitsPerWord \in Nat \ {0}
  BY GapAssumption
<1>1. PICK m \in Nat : BuChunk = kBitsPerWord * m
  <2> DEFINE m == BuChunk \div kBitsPerWord
  <2>1. m \in Nat /\ BuChunk = kBitsPerWord * m + 0
    BY <1>0, WordsInChunks, DivMod
  <2> QED
    BY <1>0, <2>1
<1>2. ASSUME NEW x \in Nat, NEW y \in Nat, x \div kBitsPerWord = y \div kBitsPerWord,
             x \div BuChunk < y \div BuChunk
      PROVE  FALSE
  <2> DEFINE q == y \div BuChunk
  <2>1. q \in Nat /\ x \div BuChunk < q /\ ~(y \div BuChunk < q)
    BY <1>2, GapAssumption, DivMod
  <2> HIDE DEF q
  <2>2. x < BuChunk * q /\ ~(y < BuChunk * q)
    BY <2>1, Quotient, GapAssumption
  <2>3. BuChunk * q = kBitsPerWord * (m * q) /\ m * q \in Nat
    BY <1>1, <2>1, GapAssumption
  <2>4. x \div kBitsPerWord < m * q /\ ~(y \div kBitsPerWord < m * q)
    BY <2>2, <2>3, Quotient, GapAssumption
  <2> QED
    BY <1>2, <2>4
<1>3. a \div BuChunk \in Nat /\ b \div BuChunk \in Nat
  BY GapAssumption, DivMod
<1> QED
  BY <1>2, <1>3

----------------------------------------------------------------------------
(* Breadth-first search: the run and the threads' steps.                   *)

\* What the assumption on the runs says of the graph and of the depths.
LEMMA BfsGraph ==
  ASSUME BfsType
  PROVE  /\ N \subseteq Nat /\ IsFiniteSet(N) /\ run.source \in N
         /\ run.ref \in [N -> Nat \cup {-1}]
         /\ \A v \in N : run.ref[v] = 0 <=> v = run.source
         /\ \A u, v \in N : Edge(run.g, u, v) /\ run.ref[u] # -1 => run.ref[v] # -1 /\ run.ref[v] <= run.ref[u] + 1
         /\ \A v \in N : run.ref[v] > 0 => \E u \in N : Edge(run.g, u, v) /\ run.ref[v] = run.ref[u] + 1
<1>1. run \in Runs /\ run.kernel = "bfs"
  BY DEF BfsType, BfsRun
<1>2. IsGraph(run.g) /\ run.source \in Nodes(run.g) /\ IsDepths(run.g, run.source, run.ref)
  BY <1>1, RunsAssumption
<1>3. run.g.n \in Nat /\ N = 0 .. run.g.n - 1
  BY <1>2 DEF IsGraph, N, Nodes
<1>4. IsFiniteSet(N)
  BY <1>3, FS_Interval
<1> QED
  BY <1>2, <1>3, <1>4 DEF IsDepths, N

\* The lists of a node hold its neighbours.
LEMMA BfsLists ==
  ASSUME BfsType, NEW u \in N
  PROVE  /\ out_neigh(run.g, u) \in Seq(N) /\ in_neigh(run.g, u) \in Seq(N)
         /\ \A i \in DOMAIN out_neigh(run.g, u) : out_neigh(run.g, u)[i] \in N
         /\ \A v \in N : Edge(run.g, u, v) <=> \E i \in DOMAIN out_neigh(run.g, u) : out_neigh(run.g, u)[i] = v
         /\ \A v \in N : Edge(run.g, v, u) <=> \E i \in DOMAIN in_neigh(run.g, u) : in_neigh(run.g, u)[i] = v
<1>1. run \in Runs /\ run.kernel = "bfs"
  BY DEF BfsType, BfsRun
<1>2. IsGraph(run.g)
  BY <1>1, RunsAssumption
<1>3. run.g.n \in Nat /\ N = 0 .. run.g.n - 1 /\ u + 1 \in 1 .. run.g.n
  BY <1>2 DEF IsGraph, N, Nodes
<1>4. run.g.out \in [1 .. run.g.n -> Seq(N)] /\ run.g.in \in [1 .. run.g.n -> Seq(N)]
  BY <1>2 DEF IsGraph, N
<1>5. out_neigh(run.g, u) \in Seq(N) /\ in_neigh(run.g, u) \in Seq(N)
  BY <1>3, <1>4 DEF out_neigh, in_neigh
<1>6. DOMAIN out_neigh(run.g, u) = 1 .. Len(out_neigh(run.g, u))
      /\ \A i \in DOMAIN out_neigh(run.g, u) : out_neigh(run.g, u)[i] \in N
  BY <1>5, LenProperties, ElementOfSeq
<1>7. \A v \in N : Edge(run.g, u, v) <=> \E i \in DOMAIN out_neigh(run.g, u) : out_neigh(run.g, u)[i] = v
  BY <1>6 DEF Edge, out_degree
<1>8. \A v \in N : Edge(run.g, v, u) <=> \E i \in DOMAIN in_neigh(run.g, u) : in_neigh(run.g, u)[i] = v
  BY <1>2 DEF IsGraph, N
<1> QED
  BY <1>5, <1>6, <1>7, <1>8

\* The kernels have phases of their own.
LEMMA OnlyBfs ==
  ASSUME BfsType, Next
  PROVE  \/ \E t \in Workers : BfsStep(t)
         \/ BfsSerial \/ Stop
<1>1. phase \in {"bfs_top", "td", "q2b", "bu", "b2q", "done"}
  BY DEF BfsType, BfsPhases
<1>2. ~CcSerial
  BY <1>1 DEF CcSerial, AfforestNext, LinkEnd, SvNext, HookEnd, CompressEnd
<1>3. ~BcSerial
  BY <1>1 DEF BcSerial, PBFSLevel, BcLevelEnd, BcUp, BcBackEnd
<1>4. ~SsspSerial
  BY <1>1 DEF SsspSerial, SsspTop, RelaxEnd, CopyEnd
<1>5. ~CsrSerial
  BY <1>1 DEF CsrSerial, CsrStart, CountEnd, FillEnd
<1>6. ASSUME NEW t \in Workers PROVE ~CcStep(t)
  BY <1>1 DEF CcStep, LinkGrab, LinkRestGrab, LinkP1, LinkP2, LinkHigh, LinkCas, LinkUp, LinkUp2,
              HookGrab, HookU, HookV, HookRoot, HookSet, CompressGrab, CompressTest, CompressJump, Linking, CcPhases
<1>7. ASSUME NEW t \in Workers PROVE ~BcStep(t)
  BY <1>1 DEF BcStep, BcGrab, BcRead, BcCas, BcSucc, BcCount, BcBack
<1>8. ASSUME NEW t \in Workers PROVE ~SsspStep(t)
  BY <1>1 DEF SsspStep, SsspGrab, RelaxOld, RelaxNew, RelaxCas, RelaxReread, FuseBin, ProposeBin, CopyBin
<1>9. ASSUME NEW t \in Workers PROVE ~CsrStep(t)
  BY <1>1 DEF CsrStep, CountGrab, CountAdd, FillGrab, FillTake, FillPut
<1> QED
  BY <1>2, <1>3, <1>4, <1>5, <1>6, <1>7, <1>8, <1>9 DEF Next, Work, Serial, Step

\* The records of the team stay records, whatever a thread assigns to its own.
LEMMA BfsRecords ==
  /\ Free \in BfsRecord /\ Free.pc = "grab" /\ Free.nb = <<>>
  /\ \A r \in BfsRecord : \A pc \in BfsPcs : [r EXCEPT !.pc = pc] \in BfsRecord
  /\ \A r \in BfsRecord : \A pc \in BfsPcs : \A x \in Int \cup SUBSET Int :
       [r EXCEPT !.pc = pc, !.x = x] \in BfsRecord
  /\ \A r \in BfsRecord : \A pc \in BfsPcs : \A nb \in Seq(Int) :
       [r EXCEPT !.nb = nb, !.pc = pc] \in BfsRecord
  /\ \A r \in BfsRecord : \A pc \in BfsPcs : \A u \in Int : \A nb \in Seq(Int) :
       [r EXCEPT !.pc = pc, !.u = u, !.nb = nb] \in BfsRecord
<1>1. Free \in BfsRecord /\ Free.pc = "grab" /\ Free.nb = <<>>
  BY EmptySeq DEF Free, BfsRecord, BfsPcs
<1>2. \A r \in BfsRecord : \A pc \in BfsPcs : [r EXCEPT !.pc = pc] \in BfsRecord
  BY DEF BfsRecord
<1>3. \A r \in BfsRecord : \A pc \in BfsPcs : \A x \in Int \cup SUBSET Int :
        [r EXCEPT !.pc = pc, !.x = x] \in BfsRecord
  BY DEF BfsRecord
<1>4. \A r \in BfsRecord : \A pc \in BfsPcs : \A nb \in Seq(Int) :
        [r EXCEPT !.nb = nb, !.pc = pc] \in BfsRecord
  BY DEF BfsRecord
<1>5. \A r \in BfsRecord : \A pc \in BfsPcs : \A u \in Int : \A nb \in Seq(Int) :
        [r EXCEPT !.pc = pc, !.u = u, !.nb = nb] \in BfsRecord
  BY DEF BfsRecord
<1> QED
  BY <1>1, <1>2, <1>3, <1>4, <1>5

\* Thread t goes on to pc with what it has.
LEMMA BfsWent ==
  ASSUME w \in [Workers -> BfsRecord], NEW t \in Workers, NEW pc \in BfsPcs, Go(t, pc)
  PROVE  /\ w' \in [Workers -> BfsRecord] /\ Others(t)
         /\ w'[t].pc = pc /\ w'[t].u = w[t].u /\ w'[t].nb = w[t].nb /\ w'[t].x = w[t].x
<1>1. w[t] \in BfsRecord
  OBVIOUS
<1>2. w' = [w EXCEPT ![t] = [w[t] EXCEPT !.pc = pc]]
  BY DEF Go
<1>3. [w[t] EXCEPT !.pc = pc] \in BfsRecord
  BY <1>1, BfsRecords
<1> QED
  BY <1>1, <1>2, <1>3 DEF Others, BfsRecord

\* Thread t keeps a value it has read.
Keeps(t, pc, x) == w' = [w EXCEPT ![t].pc = pc, ![t].x = x]

\* The frame of such a step: types hold, and the other threads stay.
LEMMA BfsKept ==
  ASSUME w \in [Workers -> BfsRecord], NEW t \in Workers, NEW pc \in BfsPcs,
         NEW x \in Int \cup SUBSET Int, Keeps(t, pc, x)
  PROVE  /\ w' \in [Workers -> BfsRecord] /\ Others(t)
         /\ w'[t].pc = pc /\ w'[t].u = w[t].u /\ w'[t].nb = w[t].nb /\ w'[t].x = x
<1>1. w[t] \in BfsRecord
  OBVIOUS
<1>2. w' = [w EXCEPT ![t] = [w[t] EXCEPT !.pc = pc, !.x = x]]
  BY DEF Keeps
<1>3. [w[t] EXCEPT !.pc = pc, !.x = x] \in BfsRecord
  BY <1>1, BfsRecords
<1> QED
  BY <1>1, <1>2, <1>3 DEF Others, BfsRecord

\* Thread t is through with the first of its list.
LEMMA BfsAdvanced ==
  ASSUME w \in [Workers -> BfsRecord], NEW t \in Workers, NEW pc \in BfsPcs, w[t].nb # <<>>, Advance(t, pc)
  PROVE  /\ w' \in [Workers -> BfsRecord] /\ Others(t)
         /\ w'[t].pc = pc /\ w'[t].u = w[t].u
         /\ \A i \in DOMAIN w'[t].nb : i + 1 \in DOMAIN w[t].nb /\ w'[t].nb[i] = w[t].nb[i + 1]
         /\ \A i \in DOMAIN w[t].nb : i # 1 => i - 1 \in DOMAIN w'[t].nb /\ w'[t].nb[i - 1] = w[t].nb[i]
         /\ 1 \in DOMAIN w[t].nb /\ Head(w[t].nb) = w[t].nb[1]
<1>1. w[t] \in BfsRecord /\ w[t].nb \in Seq(Int)
  BY DEF BfsRecord
<1>2. Tail(w[t].nb) \in Seq(Int) /\ Len(Tail(w[t].nb)) = Len(w[t].nb) - 1 /\ Len(w[t].nb) \in Nat \ {0}
      /\ \A i \in 1 .. Len(Tail(w[t].nb)) : Tail(w[t].nb)[i] = w[t].nb[i + 1]
  BY <1>1, HeadTailProperties, EmptySeq, LenProperties
<1>3. w' = [w EXCEPT ![t] = [w[t] EXCEPT !.nb = Tail(w[t].nb), !.pc = pc]]
  BY DEF Advance
<1>4. [w[t] EXCEPT !.nb = Tail(w[t].nb), !.pc = pc] \in BfsRecord
  BY <1>1, <1>2, BfsRecords
<1>5. /\ w' \in [Workers -> BfsRecord] /\ Others(t)
      /\ w'[t].pc = pc /\ w'[t].u = w[t].u /\ w'[t].nb = Tail(w[t].nb)
  BY <1>1, <1>3, <1>4 DEF Others, BfsRecord
<1>6. DOMAIN w[t].nb = 1 .. Len(w[t].nb) /\ DOMAIN w'[t].nb = 1 .. Len(w[t].nb) - 1
  BY <1>1, <1>2, <1>5, LenProperties
<1>7. Head(w[t].nb) = w[t].nb[1]
  BY <1>1, HeadTailProperties
<1> QED
  BY <1>2, <1>5, <1>6, <1>7

\* Thread t takes an iteration.
LEMMA BfsGrabbed ==
  ASSUME w \in [Workers -> BfsRecord], NEW t \in Workers, NEW pc \in BfsPcs, todo \subseteq Int,
         NEW rest \in [todo -> Seq(Int)], Grab(t, pc, rest)
  PROVE  \E i \in todo :
           /\ todo' = todo \ {i} /\ w[t].pc = "grab"
           /\ run' = run /\ phase' = phase /\ mem' = mem
           /\ w' \in [Workers -> BfsRecord] /\ Others(t)
           /\ w'[t].pc = pc /\ w'[t].u = i /\ w'[t].nb = rest[i]
<1>1. PICK i \in todo :
        /\ todo' = todo \ {i} /\ w[t].pc = "grab" /\ UNCHANGED <<run, phase, mem>>
        /\ w' = [w EXCEPT ![t] = [w[t] EXCEPT !.pc = pc, !.u = i, !.nb = rest[i]]]
  BY DEF Grab
<1>2. w[t] \in BfsRecord /\ i \in Int /\ rest[i] \in Seq(Int)
  OBVIOUS
<1>3. [w[t] EXCEPT !.pc = pc, !.u = i, !.nb = rest[i]] \in BfsRecord
  BY <1>2, BfsRecords
<1> QED
  BY <1>1, <1>2, <1>3 DEF Others, BfsRecord

\* Thread t is free again.
LEMMA BfsFreed ==
  ASSUME w \in [Workers -> BfsRecord], NEW t \in Workers, w' = [w EXCEPT ![t] = Free]
  PROVE  w' \in [Workers -> BfsRecord] /\ Others(t) /\ w'[t] = Free /\ w'[t].pc = "grab"
BY BfsRecords DEF Others

----------------------------------------------------------------------------
(* The queue and the buffers in front of it.                               *)

\* The two ways the queue and the buffers change: thread t moves its buffer behind
\* the queue, or appends v to its buffer.
Moved(q, b, t, q2, b2) == q2 = q \o b[t] /\ b2 = [b EXCEPT ![t] = <<>>]
Appended(b, t, v, b2) == b2 = [b EXCEPT ![t] = Append(b[t], v)]

\* Moving a buffer behind the queue loses nothing and doubles nothing.
LEMMA Flushing ==
  ASSUME NEW q \in Seq(N), NEW b \in [Workers -> Seq(N)], NEW t \in Workers, NEW e \in Nat, NEW S,
         e <= Len(q), Apart(q, b), Past(q, b, e, S),
         NEW q2, NEW b2, Moved(q, b, t, q2, b2)
  PROVE  /\ q2 \in Seq(N) /\ b2 \in [Workers -> Seq(N)]
         /\ Apart(q2, b2) /\ Past(q2, b2, e, S)
         /\ \A v : Queued(q2, b2, v) <=> Queued(q, b, v)
         /\ Len(q) <= Len(q2) /\ \A i \in 1 .. Len(q) : q2[i] = q[i]
<1>1. /\ Len(q) \in Nat /\ DOMAIN q = 1 .. Len(q)
      /\ b[t] \in Seq(N) /\ Len(b[t]) \in Nat /\ DOMAIN b[t] = 1 .. Len(b[t])
  BY LenProperties
<1>2. /\ q2 \in Seq(N) /\ Len(q2) = Len(q) + Len(b[t]) /\ DOMAIN q2 = 1 .. Len(q) + Len(b[t])
      /\ \A i \in 1 .. Len(q) + Len(b[t]) : q2[i] = IF i <= Len(q) THEN q[i] ELSE b[t][i - Len(q)]
  BY <1>1, ConcatProperties, LenProperties DEF Moved
<1>3. /\ b2 \in [Workers -> Seq(N)] /\ b2[t] = <<>> /\ DOMAIN b2[t] = {}
      /\ \A s \in Workers : s # t => b2[s] = b[s]
  BY EmptySeq DEF Moved
<1>4. \A i \in DOMAIN q2 : \/ i \in DOMAIN q /\ q2[i] = q[i]
                           \/ i \notin DOMAIN q /\ i - Len(q) \in DOMAIN b[t] /\ q2[i] = b[t][i - Len(q)]
  BY <1>1, <1>2
<1>5. \A i \in DOMAIN q : i \in DOMAIN q2 /\ q2[i] = q[i]
  BY <1>1, <1>2
<1>6. \A j \in DOMAIN b[t] : j + Len(q) \in DOMAIN q2 /\ q2[j + Len(q)] = b[t][j]
  BY <1>1, <1>2
<1>7. Apart(q2, b2)
  <2>1. \A i, j \in DOMAIN q2 : q2[i] = q2[j] => i = j
    <3> SUFFICES ASSUME NEW i \in DOMAIN q2, NEW j \in DOMAIN q2, q2[i] = q2[j]
                 PROVE  i = j
      OBVIOUS
    <3>1. i \in Int /\ j \in Int
      BY <1>2
    <3>2. CASE i \in DOMAIN q /\ j \in DOMAIN q
      BY <1>5, <3>2 DEF Apart
    <3>3. CASE i \in DOMAIN q /\ j \notin DOMAIN q
      BY <1>4, <3>3 DEF Apart
    <3>4. CASE i \notin DOMAIN q /\ j \in DOMAIN q
      BY <1>4, <3>4 DEF Apart
    <3>5. CASE i \notin DOMAIN q /\ j \notin DOMAIN q
      <4>1. i - Len(q) = j - Len(q)
        BY <1>4, <3>5 DEF Apart
      <4> QED
        BY <1>1, <3>1, <4>1
    <3> QED
      BY <3>2, <3>3, <3>4, <3>5
  <2>2. \A s \in Workers : \A i, j \in DOMAIN b2[s] : b2[s][i] = b2[s][j] => i = j
    BY <1>3 DEF Apart
  <2>3. ASSUME NEW s \in Workers, NEW i \in DOMAIN q2, NEW j \in DOMAIN b2[s] PROVE q2[i] # b2[s][j]
    <3>1. s # t /\ b2[s] = b[s]
      BY <1>3
    <3>2. CASE i \in DOMAIN q /\ q2[i] = q[i]
      BY <3>1, <3>2 DEF Apart
    <3>3. CASE i - Len(q) \in DOMAIN b[t] /\ q2[i] = b[t][i - Len(q)]
      BY <3>1, <3>3 DEF Apart
    <3> QED
      BY <1>4, <3>2, <3>3
  <2>4. ASSUME NEW r \in Workers, NEW s \in Workers, NEW i \in DOMAIN b2[r], NEW j \in DOMAIN b2[s], r # s
        PROVE  b2[r][i] # b2[s][j]
    <3>1. r # t /\ b2[r] = b[r] /\ s # t /\ b2[s] = b[s]
      BY <1>3
    <3> QED
      BY <2>4, <3>1 DEF Apart
  <2> QED
    BY <2>1, <2>2, <2>3, <2>4 DEF Apart
<1>8. Past(q2, b2, e, S)
  <2>1. \A i \in e + 1 .. Len(q2) : q2[i] \in S
    BY <1>1, <1>2 DEF Past
  <2>2. \A s \in Workers : \A i \in DOMAIN b2[s] : b2[s][i] \in S
    BY <1>3 DEF Past
  <2> QED
    BY <2>1, <2>2 DEF Past
<1>9. ASSUME NEW v
      PROVE  Queued(q2, b2, v) <=> Queued(q, b, v)
  <2>1. ASSUME Queued(q2, b2, v) PROVE Queued(q, b, v)
    <3>1. CASE \E i \in DOMAIN q2 : q2[i] = v
      BY <1>4, <3>1 DEF Queued
    <3>2. CASE \E s \in Workers : \E i \in DOMAIN b2[s] : b2[s][i] = v
      BY <1>3, <3>2 DEF Queued
    <3> QED
      BY <2>1, <3>1, <3>2 DEF Queued
  <2>2. ASSUME Queued(q, b, v) PROVE Queued(q2, b2, v)
    <3>1. CASE \E i \in DOMAIN q : q[i] = v
      BY <1>5, <3>1 DEF Queued
    <3>2. CASE \E s \in Workers : \E i \in DOMAIN b[s] : b[s][i] = v
      <4>1. PICK s \in Workers : \E i \in DOMAIN b[s] : b[s][i] = v
        BY <3>2
      <4>2. CASE s = t
        BY <1>6, <4>1, <4>2 DEF Queued
      <4>3. CASE s # t
        BY <1>3, <4>1, <4>3 DEF Queued
      <4> QED
        BY <4>2, <4>3
    <3> QED
      BY <2>2, <3>1, <3>2 DEF Queued
  <2> QED
    BY <2>1, <2>2
<1>10. Len(q) <= Len(q2) /\ \A i \in 1 .. Len(q) : q2[i] = q[i]
  BY <1>1, <1>2
<1> QED
  BY <1>2, <1>3, <1>7, <1>8, <1>9, <1>10

\* Appending to a buffer what is not queued yet.
LEMMA Appending ==
  ASSUME NEW q \in Seq(N), NEW b \in [Workers -> Seq(N)], NEW t \in Workers, NEW e \in Nat, NEW S,
         Apart(q, b), Past(q, b, e, S), NEW v \in N, v \in S, ~Queued(q, b, v),
         NEW b2, Appended(b, t, v, b2)
  PROVE  /\ b2 \in [Workers -> Seq(N)]
         /\ Apart(q, b2) /\ Past(q, b2, e, S)
         /\ \A x : Queued(q, b2, x) <=> Queued(q, b, x) \/ x = v
<1> DEFINE k == Len(b[t]) + 1
<1>1. b[t] \in Seq(N) /\ Len(b[t]) \in Nat /\ DOMAIN b[t] = 1 .. Len(b[t])
  BY LenProperties
<1>2. /\ Append(b[t], v) \in Seq(N) /\ DOMAIN Append(b[t], v) = 1 .. k
      /\ \A i \in 1 .. Len(b[t]) : Append(b[t], v)[i] = b[t][i]
      /\ Append(b[t], v)[k] = v
  BY <1>1, AppendProperties, LenProperties
<1>3. /\ b2 \in [Workers -> Seq(N)] /\ b2[t] = Append(b[t], v)
      /\ \A s \in Workers : s # t => b2[s] = b[s]
  BY <1>2 DEF Appended
<1>4. \A s \in Workers : \A i \in DOMAIN b2[s] : \/ i \in DOMAIN b[s] /\ b2[s][i] = b[s][i]
                                                 \/ s = t /\ i = k /\ b2[s][i] = v
  <2> SUFFICES ASSUME NEW s \in Workers, NEW i \in DOMAIN b2[s]
               PROVE  \/ i \in DOMAIN b[s] /\ b2[s][i] = b[s][i]
                      \/ s = t /\ i = k /\ b2[s][i] = v
    OBVIOUS
  <2>1. CASE s = t
    <3>1. i \in 1 .. Len(b[t]) \/ i = k
      BY <1>1, <1>2, <1>3, <2>1
    <3> QED
      BY <1>1, <1>2, <1>3, <2>1, <3>1
  <2>2. CASE s # t
    BY <1>3, <2>2
  <2> QED
    BY <2>1, <2>2
<1>5. \A s \in Workers : \A i \in DOMAIN b[s] : i \in DOMAIN b2[s] /\ b2[s][i] = b[s][i]
  <2>1. \A i \in DOMAIN b[t] : i \in DOMAIN b2[t] /\ b2[t][i] = b[t][i]
    BY <1>1, <1>2, <1>3
  <2> QED
    BY <1>3, <2>1
<1>6. k \in DOMAIN b2[t] /\ b2[t][k] = v
  BY <1>1, <1>2, <1>3
<1>7. /\ \A i \in DOMAIN q : q[i] # v
      /\ \A s \in Workers : \A i \in DOMAIN b[s] : b[s][i] # v
  BY DEF Queued
<1> HIDE DEF k
<1>8. Apart(q, b2)
  <2>1. \A i, j \in DOMAIN q : q[i] = q[j] => i = j
    BY DEF Apart
  <2>2. \A s \in Workers : \A i, j \in DOMAIN b2[s] : b2[s][i] = b2[s][j] => i = j
    BY <1>4, <1>7 DEF Apart
  <2>3. \A s \in Workers : \A i \in DOMAIN q : \A j \in DOMAIN b2[s] : q[i] # b2[s][j]
    BY <1>4, <1>7 DEF Apart
  <2>4. \A r, s \in Workers : \A i \in DOMAIN b2[r] : \A j \in DOMAIN b2[s] : r # s => b2[r][i] # b2[s][j]
    BY <1>4, <1>7 DEF Apart
  <2> QED
    BY <2>1, <2>2, <2>3, <2>4 DEF Apart
<1>9. Past(q, b2, e, S)
  BY <1>4 DEF Past
<1>10. ASSUME NEW x
       PROVE  Queued(q, b2, x) <=> Queued(q, b, x) \/ x = v
  BY <1>4, <1>5, <1>6 DEF Queued
<1> QED
  BY <1>3, <1>8, <1>9, <1>10

\* lqueue.push_back(v) by thread t, which flushes a full buffer first.
LEMMA PushBack ==
  ASSUME BfsType, NEW t \in Workers, NEW v \in N, NEW e \in Nat, NEW S, e <= Len(mem.queue),
         Apart(mem.queue, mem.lq), Past(mem.queue, mem.lq, e, S), v \in S, ~Waiting(v)
  PROVE  LET m == push_back(mem, t, v)
         IN  /\ DOMAIN m = BfsFields
             /\ m.start = mem.start /\ m.end = mem.end /\ m.parent = mem.parent
             /\ m.front = mem.front /\ m.curr = mem.curr
             /\ m.queue \in Seq(N) /\ m.lq \in [Workers -> Seq(N)]
             /\ Apart(m.queue, m.lq) /\ Past(m.queue, m.lq, e, S)
             /\ \A x : Queued(m.queue, m.lq, x) <=> Waiting(x) \/ x = v
             /\ Len(mem.queue) <= Len(m.queue)
             /\ \A i \in 1 .. Len(mem.queue) : m.queue[i] = mem.queue[i]
             /\ \A s \in Workers : s # t => m.lq[s] = mem.lq[s]
<1> DEFINE q == mem.queue
           b == mem.lq
           f == IF Len(b[t]) = local_size THEN flush(mem, t) ELSE mem
           m == push_back(mem, t, v)
<1>1. DOMAIN mem = BfsFields /\ q \in Seq(N) /\ b \in [Workers -> Seq(N)] /\ Len(q) \in Nat
  BY LenProperties DEF BfsType
<1>2. /\ DOMAIN f = BfsFields
      /\ f.start = mem.start /\ f.end = mem.end /\ f.parent = mem.parent
      /\ f.front = mem.front /\ f.curr = mem.curr
      /\ \/ f.queue = q /\ f.lq = b
         \/ f.queue = q \o b[t] /\ f.lq = [b EXCEPT ![t] = <<>>]
  BY <1>1 DEF flush, BfsFields
<1>3. /\ f.queue \in Seq(N) /\ f.lq \in [Workers -> Seq(N)]
      /\ Apart(f.queue, f.lq) /\ Past(f.queue, f.lq, e, S)
      /\ \A x : Queued(f.queue, f.lq, x) <=> Queued(q, b, x)
      /\ Len(q) <= Len(f.queue) /\ \A i \in 1 .. Len(q) : f.queue[i] = q[i]
  <2>1. CASE f.queue = q /\ f.lq = b
    BY <1>1, <2>1
  <2>2. CASE f.queue = q \o b[t] /\ f.lq = [b EXCEPT ![t] = <<>>]
    <3>1. /\ t \in Workers /\ e \in Nat /\ e <= Len(q) /\ Apart(q, b) /\ Past(q, b, e, S)
          /\ q \in Seq(N) /\ b \in [Workers -> Seq(N)]
      BY <1>1
    <3> DEFINE fq == f.queue
               fb == f.lq
    <3>2. Moved(q, b, t, fq, fb)
      BY <2>2 DEF Moved
    <3> HIDE DEF q, b, f, fq, fb
    <3>3. /\ fq \in Seq(N) /\ fb \in [Workers -> Seq(N)]
          /\ Apart(fq, fb) /\ Past(fq, fb, e, S)
          /\ \A x : Queued(fq, fb, x) <=> Queued(q, b, x)
          /\ Len(q) <= Len(fq) /\ \A i \in 1 .. Len(q) : fq[i] = q[i]
      BY ONLY <3>1, <3>2, Flushing
    <3> QED
      BY <3>3 DEF fq, fb
  <2> QED
    BY <1>2, <2>1, <2>2
<1>4. \A s \in Workers : s # t => f.lq[s] = b[s]
  BY <1>1, <1>2
<1>5. m = [f EXCEPT !.lq[t] = Append(@, v)]
  BY DEF push_back
<1> HIDE DEF f
<1>6. /\ DOMAIN m = BfsFields
      /\ m.start = mem.start /\ m.end = mem.end /\ m.parent = mem.parent
      /\ m.front = mem.front /\ m.curr = mem.curr
      /\ m.queue = f.queue /\ m.lq = [f.lq EXCEPT ![t] = Append(f.lq[t], v)]
  BY <1>2, <1>5 DEF BfsFields
<1>7. ~Queued(f.queue, f.lq, v)
  BY <1>3 DEF Waiting
<1>8. /\ m.lq \in [Workers -> Seq(N)]
      /\ Apart(m.queue, m.lq) /\ Past(m.queue, m.lq, e, S)
      /\ \A x : Queued(m.queue, m.lq, x) <=> Queued(f.queue, f.lq, x) \/ x = v
  <2>1. t \in Workers /\ e \in Nat /\ v \in N /\ v \in S
    OBVIOUS
  <2> DEFINE fq == f.queue
             fb == f.lq
             mb == m.lq
  <2>2. Appended(fb, t, v, mb)
    BY <1>6 DEF Appended
  <2>3. fq \in Seq(N) /\ fb \in [Workers -> Seq(N)] /\ Apart(fq, fb) /\ Past(fq, fb, e, S) /\ ~Queued(fq, fb, v)
    BY <1>3, <1>7
  <2> HIDE DEF m, fq, fb, mb
  <2>4. /\ mb \in [Workers -> Seq(N)]
        /\ Apart(fq, mb) /\ Past(fq, mb, e, S)
        /\ \A x : Queued(fq, mb, x) <=> Queued(fq, fb, x) \/ x = v
    BY ONLY <2>1, <2>2, <2>3, Appending
  <2> QED
    BY <1>6, <2>4 DEF fq, fb, mb
<1>9. \A s \in Workers : s # t => m.lq[s] = f.lq[s]
  BY <1>3, <1>6
<1> HIDE DEF m
<1>10. \A x : Queued(m.queue, m.lq, x) <=> Waiting(x) \/ x = v
  BY <1>3, <1>8 DEF Waiting
<1> QED
  BY <1>3, <1>4, <1>6, <1>8, <1>9, <1>10 DEF m

----------------------------------------------------------------------------
(* Breadth-first search: what a step carries over.                         *)

\* The levels are those of the run.
LEMMA SameLevels ==
  ASSUME run' = run
  PROVE  N' = N /\ \A d : At(d)' = At(d) /\ UpTo(d)' = UpTo(d)
BY DEF N, At, UpTo

\* A step that leaves the queue alone keeps what is said of it.
LEMMA QueueKept ==
  ASSUME NEW d, QueueInv(d), run' = run, phase' = phase,
         mem'.queue = mem.queue, mem'.lq = mem.lq, mem'.start = mem.start, mem'.end = mem.end,
         \A v \in Found : v \in Found'
  PROVE  QueueInv(d)'
<1>1. N' = N /\ At(Pushing(d))' = At(Pushing(d)) /\ At(d)' = At(d)
  BY DEF N, At, Pushing
<1>2. \A v \in N : Waiting(v)' => v \in Found'
  BY DEF Waiting, QueueInv
<1>3. Window(mem)' = Window(mem)
  BY DEF Window
<1> QED
  BY <1>1, <1>2, <1>3 DEF QueueInv

\* So does one that pushes nodes of the level to push.
LEMMA QueueGrown ==
  ASSUME BfsType, NEW d, QueueInv(d), phase \in {"td", "b2q"}, run' = run, phase' = phase,
         mem'.start = mem.start, mem'.end = mem.end,
         mem'.queue \in Seq(N), Apart(mem'.queue, mem'.lq),
         Past(mem'.queue, mem'.lq, mem.end, At(Pushing(d))),
         Len(mem.queue) <= Len(mem'.queue),
         \A i \in 1 .. Len(mem.queue) : mem'.queue[i] = mem.queue[i],
         \A v \in N : Queued(mem'.queue, mem'.lq, v) => v \in Found'
  PROVE  QueueInv(d)'
<1>1. N' = N /\ At(Pushing(d))' = At(Pushing(d)) /\ At(d)' = At(d)
  BY DEF N, At, Pushing
<1>2. /\ mem.start \in Nat /\ mem.end \in Nat /\ Len(mem.queue) \in Nat /\ Len(mem'.queue) \in Nat
      /\ mem.start <= mem.end /\ mem.end <= Len(mem.queue)
  BY LenProperties DEF BfsType, QueueInv
<1>3. Window(mem)' = Window(mem)
  <2>1. \A i \in mem.start + 1 .. mem.end : mem'.queue[i] = mem.queue[i]
    BY <1>2
  <2> QED
    BY <2>1 DEF Window
<1>4. \A v \in N' : Waiting(v)' => v \in Found'
  BY <1>1 DEF Waiting
<1>5. \A i \in 1 .. mem'.start : run'.ref[mem'.queue[i]] <= IF phase' = "bu" THEN d ELSE d - 1
  BY <1>2 DEF QueueInv
<1>6. mem'.start <= mem'.end /\ mem'.end <= Len(mem'.queue)
  BY <1>2
<1>7. /\ phase' \in {"bu", "b2q"} => mem'.start = mem'.end
      /\ phase' \in {"bfs_top", "td", "q2b"} => \A v \in N' : v \in Window(mem)' <=> v \in At(d)'
  BY <1>1, <1>3 DEF QueueInv
<1>8. phase' \notin {"bfs_top", "q2b", "bu"} /\ phase' \in {"td", "b2q"}
  OBVIOUS
<1> QED
  BY <1>1, <1>4, <1>5, <1>6, <1>7, <1>8 DEF QueueInv

\* The parents stay.
LEMMA ParentKept ==
  ASSUME NEW d, ParentInv(d), run' = run, phase' = phase, mem'.parent = mem.parent,
         mem'.front \subseteq UpTo(d)
  PROVE  ParentInv(d)' /\ Found' = Found
<1>1. Found' = Found /\ N' = N
  BY DEF Found, N
<1>2. UpTo(d)' = UpTo(d) /\ UpTo(d + 1)' = UpTo(d + 1)
  BY DEF N, UpTo
<1> QED
  BY <1>1, <1>2 DEF ParentInv

\* A node without a parent next to one of the levels found is one level below it,
\* so that the other may become its parent.
LEMMA NextLevel ==
  ASSUME BfsType, NEW d \in Nat, ParentInv(d), NEW u \in UpTo(d), NEW v \in N, Edge(run.g, u, v), v \notin Found
  PROVE  run.ref[u] = d /\ run.ref[v] = d + 1 /\ v # run.source
<1>1. /\ run.ref \in [N -> Nat \cup {-1}] /\ u \in N /\ run.ref[u] >= 0 /\ run.ref[u] <= d
      /\ run.ref[v] = 0 <=> v = run.source
      /\ run.ref[u] # -1 => run.ref[v] # -1 /\ run.ref[v] <= run.ref[u] + 1
  BY BfsGraph DEF UpTo
<1>2. run.ref[u] \in Nat /\ run.ref[v] \in Nat /\ run.ref[v] <= run.ref[u] + 1
  BY <1>1
<1>3. ~(run.ref[v] <= d)
  BY <1>2 DEF ParentInv, UpTo
<1> QED
  BY <1>1, <1>2, <1>3

\* A node without parent gets one of a node one level up.
LEMMA ParentSet ==
  ASSUME BfsType, NEW d \in Nat, ParentInv(d), phase \in {"td", "bu"}, run' = run, phase' = phase,
         NEW u \in UpTo(d), NEW v \in N, Edge(run.g, u, v), v \notin Found,
         mem'.parent = [mem.parent EXCEPT ![v] = u], mem'.front = mem.front
  PROVE  /\ ParentInv(d)' /\ Found' = Found \cup {v} /\ v \in At(d + 1)
         /\ mem'.parent \in [N -> Int]
<1>1. run.ref[u] = d /\ run.ref[v] = d + 1 /\ v # run.source
  BY NextLevel
<1>2. u \in N /\ u \in Int /\ u >= 0 /\ N \subseteq Int
  BY BfsGraph DEF UpTo
<1>3. mem.parent \in [N -> Int] /\ mem'.parent \in [N -> Int]
  BY <1>2 DEF BfsType
<1>4. mem'.parent[v] = u /\ \A x \in N : x # v => mem'.parent[x] = mem.parent[x]
  BY <1>3
<1>5. Found' = Found \cup {v} /\ N' = N
  BY <1>2, <1>4 DEF Found, N
<1>6. UpTo(d)' = UpTo(d) /\ UpTo(d + 1)' = UpTo(d + 1)
  BY DEF N, UpTo
<1>7. v \in At(d + 1) /\ v \in UpTo(d + 1)
  BY <1>1 DEF At, UpTo
<1>8. ASSUME NEW x \in Found'
      PROVE  /\ mem'.parent[x] \in N
             /\ x # run.source => Edge(run.g, mem'.parent[x], x) /\ run.ref[x] = run.ref[mem'.parent[x]] + 1
  <2>1. CASE x = v
    BY <1>1, <1>2, <1>4, <2>1
  <2>2. CASE x # v
    <3>1. x \in Found /\ x \in N /\ mem'.parent[x] = mem.parent[x]
      BY <1>4, <1>5, <1>8, <2>2 DEF Found
    <3> QED
      BY <3>1 DEF ParentInv
  <2> QED
    BY <2>1, <2>2
<1>9. UpTo(d) \subseteq Found' /\ Found' \subseteq UpTo(d + 1) /\ mem'.front \subseteq UpTo(d)
  BY <1>5, <1>7 DEF ParentInv
<1>10. ParentInv(d)'
  BY <1>5, <1>6, <1>8, <1>9 DEF ParentInv
<1> QED
  BY <1>3, <1>5, <1>7, <1>10

\* What was pending stays pending, but for the neighbour a thread is through with.
LEMMA BfsPendingAdvances ==
  ASSUME w \in [Workers -> BfsRecord], NEW t \in Workers, w[t].nb # <<>>, Advance(t, "edge")
  PROVE  \A u, v : Pending(u, v) => Pending(u, v)' \/ (u = w[t].u /\ v = Head(w[t].nb))
<1> SUFFICES ASSUME NEW u, NEW v, Pending(u, v), ~(u = w[t].u /\ v = Head(w[t].nb))
             PROVE  Pending(u, v)'
  OBVIOUS
<1>1. PICK s \in Workers : /\ w[s].pc \notin {"grab", "end"} /\ w[s].u = u
                           /\ \E i \in DOMAIN w[s].nb : w[s].nb[i] = v
  BY DEF Pending
<1>2. /\ Others(t) /\ w'[t].pc = "edge" /\ w'[t].u = w[t].u
      /\ \A i \in DOMAIN w[t].nb : i # 1 => i - 1 \in DOMAIN w'[t].nb /\ w'[t].nb[i - 1] = w[t].nb[i]
      /\ Head(w[t].nb) = w[t].nb[1]
  BY BfsAdvanced DEF BfsPcs
<1>3. CASE s # t
  <2>1. w'[s] = w[s]
    BY <1>2, <1>3 DEF Others
  <2> QED
    BY <1>1, <2>1 DEF Pending
<1>4. CASE s = t
  <2>1. PICK i \in DOMAIN w[t].nb : w[t].nb[i] = v
    BY <1>1, <1>4
  <2>2. i # 1
    BY <1>1, <1>2, <1>4, <2>1
  <2> QED
    BY <1>1, <1>2, <1>4, <2>1, <2>2 DEF Pending
<1> QED
  BY <1>3, <1>4

\* Everything keeps its type in a step that leaves the memory alone.
LEMMA BfsTypeKept ==
  ASSUME BfsType, NEW t \in Workers, run' = run, phase' = phase, todo' \subseteq todo, mem' = mem,
         w' \in [Workers -> BfsRecord], Others(t), w'[t].pc \in PcsOf[phase]
  PROVE  BfsType'
<1>1. \A s \in Workers : w'[s].pc \in PcsOf[phase]
  BY DEF BfsType, Others
<1>2. N' = N
  BY DEF N
<1> QED
  BY <1>1, <1>2 DEF BfsType, BfsRun

\* A thread that goes on, or has an empty buffer, has flushed what it must.
LEMMA FlushedKept ==
  ASSUME Flushed, NEW t \in Workers, Others(t), w'[t].pc # "end",
         \A s \in Workers : s # t => mem'.lq[s] = mem.lq[s]
  PROVE  Flushed'
BY DEF Flushed, Others

----------------------------------------------------------------------------
(* TDStep.                                                                 *)

\* What is to be shown of a step of the top-down loop.
LEMMA TopDownKeeps ==
  ASSUME NEW d, BfsAt(d), phase = "td", phase' = phase, BfsType', Flushed',
         QueueInv(d)', ParentInv(d)', TopDownInv(d)'
  PROVE  BfsAt(d)'
BY DEF BfsAt, ToBitmapInv, BottomUpInv, ToQueueInv

\* Taking an iteration of the top-down loop keeps the invariant.
LEMMA TDGrabKeeps ==
  ASSUME NEW d \in Nat, BfsAt(d), phase = "td", NEW t \in Workers, TDGrab(t)
  PROVE  BfsAt(d)'
<1> USE DEF BfsPcs
<1>0. /\ BfsType /\ Flushed /\ QueueInv(d) /\ ParentInv(d) /\ TopDownInv(d)
      /\ w \in [Workers -> BfsRecord] /\ todo \subseteq N
  BY DEF BfsAt, BfsType
<1>1. N \subseteq Int
  BY <1>0, BfsGraph
<1> DEFINE rest == [u \in todo |-> out_neigh(run.g, u)]
<1>2. \A u \in N : out_neigh(run.g, u) \in Seq(Int)
  BY <1>0, <1>1, BfsLists, SeqMonotonic
<1>3. rest \in [todo -> Seq(Int)] /\ Grab(t, "edge", rest) /\ todo \subseteq Int
  BY <1>0, <1>1, <1>2 DEF TDGrab
<1> HIDE DEF rest
<1>4. PICK i \in todo :
        /\ todo' = todo \ {i} /\ w[t].pc = "grab"
        /\ run' = run /\ phase' = phase /\ mem' = mem
        /\ w' \in [Workers -> BfsRecord] /\ Others(t)
        /\ w'[t].pc = "edge" /\ w'[t].u = i /\ w'[t].nb = rest[i]
  BY <1>0, <1>3, BfsGrabbed
<1>5. w'[t].nb = out_neigh(run.g, i) /\ i \in N
  BY <1>0, <1>4 DEF rest
<1>6. BfsType' /\ Flushed' /\ QueueInv(d)' /\ ParentInv(d)' /\ Found' = Found
  <2>1. BfsType'
    BY <1>0, <1>4, BfsTypeKept DEF PcsOf
  <2>2. Flushed'
    BY <1>0, <1>4, FlushedKept
  <2>3. ParentInv(d)' /\ Found' = Found
    BY <1>0, <1>4, ParentKept DEF ParentInv
  <2>4. QueueInv(d)'
    BY <1>0, <1>4, <2>3, QueueKept
  <2> QED
    BY <2>1, <2>2, <2>3, <2>4
<1>7. TopDownInv(d)'
  <2>1. At(d)' = At(d) /\ N' = N
    BY <1>4 DEF At, N
  <2>2. todo' \subseteq At(d)
    BY <1>0, <1>4 DEF TopDownInv
  <2>3. \A s \in Workers : w'[s].pc \in {"edge", "cas"} =>
          w'[s].u \in At(d) /\ \A j \in DOMAIN w'[s].nb : w'[s].nb[j] \in N /\ Edge(run.g, w'[s].u, w'[s].nb[j])
    <3>1. i \in At(d) /\ \A j \in DOMAIN w'[t].nb : w'[t].nb[j] \in N /\ Edge(run.g, i, w'[t].nb[j])
      BY <1>0, <1>4, <1>5, BfsLists DEF TopDownInv
    <3> QED
      BY <1>0, <1>4, <3>1 DEF TopDownInv, Others
  <2>4. \A s \in Workers : w'[s].pc = "cas" =>
          /\ w'[s].nb # <<>> /\ w'[s].x \in Int /\ w'[s].x < 0
          /\ Head(w'[s].nb) \in Found \/ mem'.parent[Head(w'[s].nb)] = w'[s].x
    BY <1>0, <1>4 DEF TopDownInv, Others
  <2>5. ASSUME NEW u \in At(d) \ todo', NEW v \in N, Edge(run.g, u, v)
        PROVE  v \in Found \/ Pending(u, v)'
    <3>1. CASE u = i
      <4>1. \E j \in DOMAIN w'[t].nb : w'[t].nb[j] = v
        BY <1>0, <1>5, <2>5, <3>1, BfsLists
      <4> QED
        BY <1>4, <3>1, <4>1 DEF Pending
    <3>2. CASE u # i
      <4>1. v \in Found \/ Pending(u, v)
        BY <1>0, <1>4, <2>5, <3>2 DEF TopDownInv
      <4> QED
        BY <1>4, <4>1, PendingStays
    <3> QED
      BY <3>1, <3>2
  <2>6. \A v \in Found : run.ref[v] = d + 1 => Waiting(v)'
    BY <1>0, <1>4 DEF TopDownInv, Waiting
  <2> QED
    BY <1>4, <1>6, <2>1, <2>2, <2>3, <2>4, <2>5, <2>6 DEF TopDownInv
<1> QED
  BY <1>0, <1>4, <1>6, <1>7, TopDownKeeps

\* Reading a parent: on to the compare-and-swap, or past a node that has one.
LEMMA TDReadKeeps ==
  ASSUME NEW d \in Nat, BfsAt(d), phase = "td", NEW t \in Workers, TDRead(t)
  PROVE  BfsAt(d)'
<1> USE DEF BfsPcs
<1>0. /\ BfsType /\ Flushed /\ QueueInv(d) /\ ParentInv(d) /\ TopDownInv(d)
      /\ w \in [Workers -> BfsRecord] /\ todo \subseteq N
  BY DEF BfsAt, BfsType
<1>1. w[t].pc = "edge" /\ run' = run /\ phase' = phase /\ todo' = todo /\ mem' = mem
  BY DEF TDRead
<1> DEFINE v0 == Head(w[t].nb)
<1>2. w[t].nb # <<>> => 1 \in DOMAIN w[t].nb /\ v0 = w[t].nb[1] /\ v0 \in N
  <2>1. w[t].nb \in Seq(Int)
    BY <1>0 DEF BfsRecord
  <2>2. w[t].nb # <<>> => 1 \in DOMAIN w[t].nb /\ v0 = w[t].nb[1]
    BY <2>1, EmptySeq, LenProperties, HeadTailProperties
  <2> QED
    BY <1>0, <1>1, <2>2 DEF TopDownInv
<1>3. \/ /\ w[t].nb = <<>> /\ Go(t, "grab")
      \/ /\ w[t].nb # <<>> /\ v0 \in Found /\ Advance(t, "edge")
      \/ /\ w[t].nb # <<>> /\ mem.parent[v0] < 0 /\ mem.parent[v0] \in Int
         /\ Keeps(t, "cas", mem.parent[v0])
  <2>1. v0 \in N => mem.parent[v0] \in Int
    BY <1>0 DEF BfsType
  <2> HIDE DEF v0
  <2>2. \/ w[t].nb = <<>> /\ Go(t, "grab")
        \/ /\ w[t].nb # <<>>
           /\ IF mem.parent[v0] >= 0 THEN Advance(t, "edge")
              ELSE Keeps(t, "cas", mem.parent[v0])
    BY DEF TDRead, Keeps, v0
  <2> QED
    BY <1>2, <2>1, <2>2 DEF Found
<1> HIDE DEF v0
\* the thread's record after the step
<1>4. /\ w' \in [Workers -> BfsRecord] /\ Others(t) /\ w'[t].pc \in {"grab", "edge", "cas"}
      /\ w'[t].u = w[t].u
      /\ \A j \in DOMAIN w'[t].nb : \E k \in DOMAIN w[t].nb : w'[t].nb[j] = w[t].nb[k]
      /\ w'[t].pc = "cas" => /\ w'[t].nb # <<>> /\ w'[t].x \in Int /\ w'[t].x < 0
                             /\ mem.parent[Head(w'[t].nb)] = w'[t].x
  <2>1. CASE w[t].nb = <<>> /\ Go(t, "grab")
    BY <1>0, <2>1, BfsWent
  <2>2. CASE w[t].nb # <<>> /\ Advance(t, "edge")
    BY <1>0, <2>2, BfsAdvanced
  <2>3. CASE /\ w[t].nb # <<>> /\ mem.parent[v0] < 0 /\ mem.parent[v0] \in Int
             /\ Keeps(t, "cas", mem.parent[v0])
    BY <1>0, <2>3, BfsKept DEF v0
  <2> QED
    BY <1>3, <2>1, <2>2, <2>3
<1>5. \A u, v : Pending(u, v) => Pending(u, v)' \/ v \in Found
  <2>1. CASE w[t].nb = <<>> /\ Go(t, "grab")
    <3>1. DOMAIN w[t].nb = {}
      BY <2>1
    <3> QED
      BY <1>4, <3>1, PendingStays
  <2>2. CASE w[t].nb # <<>> /\ v0 \in Found /\ Advance(t, "edge")
    BY <1>0, <2>2, BfsPendingAdvances DEF v0
  <2>3. CASE /\ w[t].nb # <<>> /\ mem.parent[v0] < 0 /\ mem.parent[v0] \in Int
             /\ Keeps(t, "cas", mem.parent[v0])
    <3>1. w'[t].u = w[t].u /\ w'[t].nb = w[t].nb /\ w'[t].pc \notin {"grab", "end"} /\ Others(t)
      BY <1>0, <2>3, BfsKept
    <3> QED
      BY <3>1, PendingStays
  <2> QED
    BY <1>3, <2>1, <2>2, <2>3
<1>6. BfsType' /\ Flushed' /\ QueueInv(d)' /\ ParentInv(d)' /\ Found' = Found
  <2>1. BfsType'
    BY <1>0, <1>1, <1>4, BfsTypeKept DEF PcsOf
  <2>2. Flushed'
    BY <1>0, <1>1, <1>4, FlushedKept
  <2>3. ParentInv(d)' /\ Found' = Found
    BY <1>0, <1>1, ParentKept DEF ParentInv
  <2>4. QueueInv(d)'
    BY <1>0, <1>1, <2>3, QueueKept
  <2> QED
    BY <2>1, <2>2, <2>3, <2>4
<1>7. TopDownInv(d)'
  <2>1. At(d)' = At(d) /\ N' = N
    BY <1>1 DEF At, N
  <2>2. \A s \in Workers : w'[s].pc \in {"edge", "cas"} =>
          w'[s].u \in At(d) /\ \A j \in DOMAIN w'[s].nb : w'[s].nb[j] \in N /\ Edge(run.g, w'[s].u, w'[s].nb[j])
    <3>1. w'[t].u \in At(d) /\ \A j \in DOMAIN w'[t].nb : w'[t].nb[j] \in N /\ Edge(run.g, w'[t].u, w'[t].nb[j])
      BY <1>0, <1>1, <1>4 DEF TopDownInv
    <3> QED
      BY <1>0, <1>4, <3>1 DEF TopDownInv, Others
  <2>3. \A s \in Workers : w'[s].pc = "cas" =>
          /\ w'[s].nb # <<>> /\ w'[s].x \in Int /\ w'[s].x < 0
          /\ Head(w'[s].nb) \in Found \/ mem'.parent[Head(w'[s].nb)] = w'[s].x
    BY <1>0, <1>1, <1>4 DEF TopDownInv, Others
  <2>4. \A u \in At(d) \ todo : \A v \in N : Edge(run.g, u, v) => v \in Found \/ Pending(u, v)'
    BY <1>0, <1>5 DEF TopDownInv
  <2>5. \A v \in Found : run.ref[v] = d + 1 => Waiting(v)'
    BY <1>0, <1>1 DEF TopDownInv, Waiting
  <2>6. todo \subseteq At(d)
    BY <1>0 DEF TopDownInv
  <2> QED
    BY <1>1, <1>6, <2>1, <2>2, <2>3, <2>4, <2>5, <2>6 DEF TopDownInv
<1> QED
  BY <1>0, <1>1, <1>6, <1>7, TopDownKeeps

\* The compare-and-swap: of the threads that saw a node without a parent one
\* sets it and queues the node.
LEMMA TDCasKeeps ==
  ASSUME NEW d \in Nat, BfsAt(d), phase = "td", NEW t \in Workers, TDCas(t)
  PROVE  BfsAt(d)'
<1> USE DEF BfsPcs
<1>0. /\ BfsType /\ Flushed /\ QueueInv(d) /\ ParentInv(d) /\ TopDownInv(d)
      /\ w \in [Workers -> BfsRecord] /\ todo \subseteq N
  BY DEF BfsAt, BfsType
<1> DEFINE v0 == Head(w[t].nb)
           u0 == w[t].u
           m == push_back(mem, t, v0)
<1>1. w[t].pc = "cas" /\ run' = run /\ phase' = phase /\ todo' = todo /\ Advance(t, "edge") /\ w[t].nb # <<>>
  BY <1>0 DEF TDCas, TopDownInv
<1>2. /\ v0 \in N /\ u0 \in At(d) /\ Edge(run.g, u0, v0) /\ w[t].x \in Int /\ w[t].x < 0
      /\ v0 \in Found \/ mem.parent[v0] = w[t].x
  <2>1. w[t].nb \in Seq(Int)
    BY <1>0 DEF BfsRecord
  <2>2. 1 \in DOMAIN w[t].nb /\ v0 = w[t].nb[1]
    BY <1>1, <2>1, EmptySeq, LenProperties, HeadTailProperties
  <2> QED
    BY <1>0, <1>1, <2>2 DEF TopDownInv
<1>3. mem' = IF mem.parent[v0] # w[t].x THEN mem
             ELSE [m EXCEPT !.parent[v0] = u0, !.scout_count = @ - w[t].x]
  BY DEF TDCas
<1> HIDE DEF v0, u0, m
\* what the step does to the memory
<1>4. /\ BfsType' /\ QueueInv(d)' /\ ParentInv(d)' /\ v0 \in Found' /\ Found \subseteq Found'
      /\ \A v \in Found' : v = v0 \/ v \in Found
      /\ \A v : Waiting(v) => Waiting(v)'
      /\ v0 \in Found \/ Queued(mem'.queue, mem'.lq, v0)
      /\ \A s \in Workers : s # t => mem'.lq[s] = mem.lq[s]
      /\ \A v \in N : v # v0 => mem'.parent[v] = mem.parent[v]
  <2>0. w' \in [Workers -> BfsRecord] /\ Others(t) /\ w'[t].pc = "edge"
    BY <1>0, <1>1, BfsAdvanced
  <2>1. CASE mem' = mem /\ v0 \in Found
    <3>1. ParentInv(d)' /\ Found' = Found
      BY <1>0, <1>1, <2>1, ParentKept DEF ParentInv
    <3>2. QueueInv(d)'
      BY <1>0, <1>1, <2>1, <3>1, QueueKept
    <3>3. BfsType'
      BY <1>0, <1>1, <2>0, <2>1, BfsTypeKept DEF PcsOf
    <3>4. \A v : Waiting(v) => Waiting(v)'
      BY <2>1 DEF Waiting
    <3> QED
      BY <2>1, <3>1, <3>2, <3>3, <3>4
  <2>2. CASE v0 \notin Found /\ mem' = [m EXCEPT !.parent[v0] = u0, !.scout_count = @ - w[t].x]
    <3> DEFINE S == At(Pushing(d))
               e == mem.end
    <3>1. e \in Nat /\ e <= Len(mem.queue) /\ Apart(mem.queue, mem.lq) /\ Past(mem.queue, mem.lq, e, S)
      BY <1>0 DEF QueueInv, BfsType
    <3>2. u0 \in UpTo(d)
      BY <1>2 DEF At, UpTo
    <3>3. v0 \in At(d + 1) /\ ~Waiting(v0)
      <4>1. run.ref[v0] = d + 1
        BY <1>0, <1>2, <2>2, <3>2, NextLevel
      <4> QED
        BY <1>0, <1>2, <2>2, <4>1 DEF At, QueueInv
    <3>4. v0 \in S
      BY <3>3 DEF Pushing
    <3> HIDE DEF S, e
    <3>5. /\ DOMAIN m = BfsFields
          /\ m.start = mem.start /\ m.end = mem.end /\ m.parent = mem.parent
          /\ m.front = mem.front /\ m.curr = mem.curr
          /\ m.queue \in Seq(N) /\ m.lq \in [Workers -> Seq(N)]
          /\ Apart(m.queue, m.lq) /\ Past(m.queue, m.lq, e, S)
          /\ \A x : Queued(m.queue, m.lq, x) <=> Waiting(x) \/ x = v0
          /\ Len(mem.queue) <= Len(m.queue)
          /\ \A i \in 1 .. Len(mem.queue) : m.queue[i] = mem.queue[i]
          /\ \A s \in Workers : s # t => m.lq[s] = mem.lq[s]
      BY <1>0, <1>2, <3>1, <3>3, <3>4, PushBack DEF m
    <3>6. /\ DOMAIN mem' = BfsFields
          /\ mem'.start = mem.start /\ mem'.end = mem.end
          /\ mem'.front = mem.front /\ mem'.curr = mem.curr
          /\ mem'.queue = m.queue /\ mem'.lq = m.lq
          /\ mem'.parent = [mem.parent EXCEPT ![v0] = u0]
      BY <2>2, <3>5 DEF BfsFields
    <3>7. ParentInv(d)' /\ Found' = Found \cup {v0} /\ mem'.parent \in [N -> Int]
      BY <1>0, <1>1, <1>2, <2>2, <3>2, <3>6, ParentSet
    <3>8. QueueInv(d)'
      <4>1. \A v \in N : Queued(mem'.queue, mem'.lq, v) => v \in Found'
        BY <1>0, <3>5, <3>6, <3>7 DEF QueueInv
      <4>2. Past(mem'.queue, mem'.lq, mem.end, At(Pushing(d)))
        BY <3>5, <3>6 DEF S, e
      <4> QED
        BY <1>0, <1>1, <3>5, <3>6, <4>1, <4>2, QueueGrown
    <3>9. BfsType'
      <4>1. N' = N /\ \A s \in Workers : w'[s].pc \in PcsOf[phase]
        BY <1>0, <1>1, <2>0 DEF N, BfsType, Others, PcsOf
      <4> QED
        BY <1>0, <1>1, <2>0, <3>5, <3>6, <3>7, <4>1 DEF BfsType, BfsRun
    <3>10. /\ \A v : Waiting(v) => Waiting(v)'
           /\ Queued(mem'.queue, mem'.lq, v0)
      BY <3>5, <3>6 DEF Waiting
    <3>11. \A v \in N : v # v0 => mem'.parent[v] = mem.parent[v]
      BY <1>0, <3>6 DEF BfsType
    <3>12. /\ v0 \in Found' /\ Found \subseteq Found' /\ \A v \in Found' : v = v0 \/ v \in Found
      BY <3>7
    <3>13. \A s \in Workers : s # t => mem'.lq[s] = mem.lq[s]
      BY <3>5, <3>6
    <3> QED
      BY <3>7, <3>8, <3>9, <3>10, <3>11, <3>12, <3>13
  <2>3. v0 \in Found <=> mem.parent[v0] >= 0
    BY <1>2 DEF Found
  <2>4. mem.parent[v0] \in Int
    BY <1>0, <1>2 DEF BfsType
  <2>5. CASE mem.parent[v0] = w[t].x
    BY <1>2, <1>3, <2>2, <2>3, <2>5
  <2>6. CASE mem.parent[v0] # w[t].x
    BY <1>2, <1>3, <2>1, <2>6
  <2> QED
    BY <2>5, <2>6
\* and to the threads
<1>5. /\ w' \in [Workers -> BfsRecord] /\ Others(t) /\ w'[t].pc = "edge" /\ w'[t].u = u0
      /\ \A j \in DOMAIN w'[t].nb : \E k \in DOMAIN w[t].nb : w'[t].nb[j] = w[t].nb[k]
  BY <1>0, <1>1, BfsAdvanced DEF u0
<1>6. \A u, v : Pending(u, v) => Pending(u, v)' \/ v = v0
  BY <1>0, <1>1, BfsPendingAdvances DEF v0
<1>7. TopDownInv(d)'
  <2>1. At(d)' = At(d) /\ N' = N
    BY <1>1 DEF At, N
  <2>2. \A s \in Workers : w'[s].pc \in {"edge", "cas"} =>
          w'[s].u \in At(d) /\ \A j \in DOMAIN w'[s].nb : w'[s].nb[j] \in N /\ Edge(run.g, w'[s].u, w'[s].nb[j])
    <3>1. w'[t].u \in At(d) /\ \A j \in DOMAIN w'[t].nb : w'[t].nb[j] \in N /\ Edge(run.g, w'[t].u, w'[t].nb[j])
      BY <1>0, <1>1, <1>5 DEF TopDownInv, u0
    <3> QED
      BY <1>0, <1>5, <3>1 DEF TopDownInv, Others
  <2>3. ASSUME NEW s \in Workers, w'[s].pc = "cas"
        PROVE  /\ w'[s].nb # <<>> /\ w'[s].x \in Int /\ w'[s].x < 0
               /\ Head(w'[s].nb) \in Found' \/ mem'.parent[Head(w'[s].nb)] = w'[s].x
    <3>1. s # t /\ w'[s] = w[s] /\ w[s].nb # <<>> /\ w[s].nb \in Seq(Int)
      BY <1>0, <1>5, <2>3 DEF TopDownInv, Others, BfsRecord
    <3>2. Head(w[s].nb) \in N
      <4>1. 1 \in DOMAIN w[s].nb /\ Head(w[s].nb) = w[s].nb[1]
        BY <3>1, EmptySeq, LenProperties, HeadTailProperties
      <4> QED
        BY <1>0, <2>3, <3>1, <4>1 DEF TopDownInv
    <3> QED
      BY <1>0, <1>4, <2>3, <3>1, <3>2 DEF TopDownInv
  <2>4. \A u \in At(d) \ todo : \A v \in N : Edge(run.g, u, v) => v \in Found' \/ Pending(u, v)'
    BY <1>0, <1>4, <1>6 DEF TopDownInv
  <2>5. ASSUME NEW v \in Found', run.ref[v] = d + 1
        PROVE  Waiting(v)'
    <3>1. CASE v \in Found
      <4>1. Waiting(v)
        BY <1>0, <2>5, <3>1 DEF TopDownInv
      <4> QED
        BY <1>4, <4>1, Zenon
    <3>2. CASE v = v0 /\ v0 \notin Found
      BY <1>4, <3>2 DEF Waiting
    <3> QED
      BY <1>4, <3>1, <3>2
  <2>6. todo \subseteq At(d)
    BY <1>0 DEF TopDownInv
  <2> QED
    BY <1>1, <2>1, <2>2, <2>3, <2>4, <2>5, <2>6 DEF TopDownInv
<1>8. Flushed'
  BY <1>0, <1>4, <1>5, FlushedKept
<1> QED
  BY <1>0, <1>1, <1>4, <1>7, <1>8, TopDownKeeps

\* lqueue.flush() at the end of the loops that push: nothing is lost.
LEMMA BfsFlushes ==
  ASSUME NEW d \in Nat, BfsAt(d), phase \in {"td", "b2q"}, NEW t \in Workers, FlushAtEnd(t)
  PROVE  /\ BfsType' /\ Flushed' /\ QueueInv(d)' /\ ParentInv(d)' /\ Found' = Found
         /\ run' = run /\ phase' = phase /\ todo' = todo /\ mem'.front = mem.front /\ mem'.parent = mem.parent
         /\ Others(t) /\ w[t].pc = "grab" /\ w'[t].pc = "end"
         /\ \A v : Waiting(v)' <=> Waiting(v)
<1> USE DEF BfsPcs
<1>0. /\ BfsType /\ Flushed /\ QueueInv(d) /\ ParentInv(d)
      /\ w \in [Workers -> BfsRecord] /\ todo \subseteq N
  BY DEF BfsAt, BfsType
<1>1. /\ run' = run /\ phase' = phase /\ todo' = todo /\ w[t].pc = "grab"
      /\ mem' = flush(mem, t) /\ Go(t, "end")
  BY DEF FlushAtEnd, LoopEnd
<1>2. w' \in [Workers -> BfsRecord] /\ Others(t) /\ w'[t].pc = "end"
  BY <1>0, <1>1, BfsWent
<1> DEFINE q == mem.queue
           b == mem.lq
           q2 == mem'.queue
           b2 == mem'.lq
           S == At(Pushing(d))
           e == mem.end
<1>3. /\ DOMAIN mem' = BfsFields
      /\ mem'.start = mem.start /\ mem'.end = mem.end
      /\ mem'.front = mem.front /\ mem'.curr = mem.curr /\ mem'.parent = mem.parent
      /\ q2 = q \o b[t] /\ b2 = [b EXCEPT ![t] = <<>>]
  BY <1>0, <1>1 DEF flush, BfsFields, BfsType
<1>4. Moved(q, b, t, q2, b2)
  BY <1>3 DEF Moved
<1>5. /\ q \in Seq(N) /\ b \in [Workers -> Seq(N)] /\ e \in Nat /\ e <= Len(q)
      /\ Apart(q, b) /\ Past(q, b, e, S) /\ t \in Workers
  BY <1>0 DEF BfsType, QueueInv
<1> HIDE DEF q, b, q2, b2, S, e
<1>6. /\ q2 \in Seq(N) /\ b2 \in [Workers -> Seq(N)]
      /\ Apart(q2, b2) /\ Past(q2, b2, e, S)
      /\ \A v : Queued(q2, b2, v) <=> Queued(q, b, v)
      /\ Len(q) <= Len(q2) /\ \A i \in 1 .. Len(q) : q2[i] = q[i]
  BY ONLY <1>4, <1>5, Flushing
<1>7. ParentInv(d)' /\ Found' = Found
  BY <1>0, <1>1, <1>3, ParentKept DEF ParentInv
<1>8. \A v : Waiting(v)' <=> Waiting(v)
  BY <1>6 DEF Waiting, q, b, q2, b2
<1>9. QueueInv(d)'
  <2>1. \A v \in N : Queued(q2, b2, v) => v \in Found'
    BY <1>0, <1>6, <1>7 DEF QueueInv, Waiting, q, b
  <2> QED
    BY <1>0, <1>1, <1>3, <1>6, <2>1, QueueGrown DEF q, b, q2, b2, S, e
<1>10. BfsType'
  <2>1. N' = N /\ \A s \in Workers : w'[s].pc \in PcsOf[phase]
    <3>1. "end" \in PcsOf[phase]
      BY DEF PcsOf
    <3>2. \A s \in Workers : w[s].pc \in PcsOf[phase]
      BY <1>0 DEF BfsType
    <3> QED
      BY <1>1, <1>2, <3>1, <3>2 DEF N, Others
  <2>2. mem'.queue \in Seq(N) /\ mem'.lq \in [Workers -> Seq(N)]
    BY <1>6 DEF q2, b2
  <2>3. mem'.start \in Nat /\ mem'.end \in Nat /\ mem'.parent \in [N -> Int] /\ mem'.front \subseteq N /\ mem'.curr \subseteq N
    BY <1>0, <1>3 DEF BfsType
  <2> QED
    BY <1>0, <1>1, <1>2, <1>3, <2>1, <2>2, <2>3 DEF BfsType, BfsRun
<1>11. Flushed'
  <2>1. mem'.lq[t] = <<>> /\ \A s \in Workers : s # t => mem'.lq[s] = mem.lq[s]
    BY <1>3, <1>5 DEF b, b2
  <2> QED
    BY <1>0, <1>2, <2>1 DEF Flushed, Others
<1> QED
  BY <1>1, <1>2, <1>3, <1>7, <1>8, <1>9, <1>10, <1>11

\* So does flushing what a thread has pushed when it finds no iteration.
LEMMA TDFlushKeeps ==
  ASSUME NEW d \in Nat, BfsAt(d), phase = "td", NEW t \in Workers, FlushAtEnd(t)
  PROVE  BfsAt(d)'
<1>1. /\ BfsType' /\ Flushed' /\ QueueInv(d)' /\ ParentInv(d)' /\ Found' = Found
      /\ run' = run /\ phase' = phase /\ todo' = todo /\ mem'.parent = mem.parent
      /\ Others(t) /\ w[t].pc = "grab" /\ w'[t].pc = "end"
      /\ \A v : Waiting(v)' <=> Waiting(v)
  BY BfsFlushes
<1>2. TopDownInv(d)
  BY DEF BfsAt
<1>3. \A u, v : Pending(u, v) => Pending(u, v)'
  BY <1>1, PendingStays
<1>4. N' = N /\ At(d)' = At(d)
  BY <1>1 DEF N, At
<1>5. \A s \in Workers : w'[s].pc \in {"edge", "cas"} => w'[s] = w[s]
  BY <1>1 DEF Others
<1>6. TopDownInv(d)'
  BY <1>1, <1>2, <1>3, <1>4, <1>5 DEF TopDownInv
<1> QED
  BY <1>1, <1>6, TopDownKeeps

----------------------------------------------------------------------------
(* From loop to loop.                                                      *)

\* A loop starts with a free team.
LEMMA BfsStarts ==
  ASSUME BfsType, NEW p \in BfsPhases, NEW items, items \subseteq N, StartLoop(p, items),
         DOMAIN mem' = BfsFields, mem'.queue = mem.queue, mem'.lq = mem.lq,
         mem'.start \in Nat, mem'.end \in Nat,
         mem'.parent \in [N -> Int], mem'.front \subseteq N, mem'.curr \subseteq N
  PROVE  /\ BfsType' /\ Flushed' /\ run' = run /\ phase' = p /\ todo' = items
         /\ \A t \in Workers : w'[t].pc = "grab"
<1>1. /\ run' = run /\ phase' = p /\ todo' = items
      /\ w' \in [Workers -> BfsRecord] /\ \A t \in Workers : w'[t].pc = "grab"
  BY BfsRecords DEF StartLoop
<1>2. \A t \in Workers : w'[t].pc \in PcsOf[p]
  BY <1>1 DEF PcsOf, BfsPhases
<1>3. N' = N
  BY <1>1 DEF N
<1> QED
  BY <1>1, <1>2, <1>3 DEF BfsType, BfsRun, Flushed

\* When a loop has ended every buffer is empty.
LEMMA AllFlushed ==
  ASSUME Flushed, AllEnd
  PROVE  \A t \in Workers : mem.lq[t] = <<>> /\ w[t].pc = "end"
BY DEF Flushed, AllEnd

\* The nodes of the next level are found at the end of the top-down loop.
LEMMA TDFindsAll ==
  ASSUME NEW d \in Nat, BfsAt(d), phase = "td", AllEnd
  PROVE  Found = UpTo(d + 1)
<1>0. BfsType /\ ParentInv(d) /\ TopDownInv(d)
  BY DEF BfsAt
<1>1. ASSUME NEW v \in UpTo(d + 1), v \notin Found PROVE FALSE
  <2>1. v \in N /\ run.ref[v] \in Nat /\ run.ref[v] <= d + 1
    BY <1>0, BfsGraph DEF UpTo
  <2>2. run.ref[v] = d + 1
    BY <1>0, <1>1, <2>1 DEF ParentInv, UpTo
  <2>3. PICK u \in N : Edge(run.g, u, v) /\ run.ref[v] = run.ref[u] + 1
    BY <1>0, <2>1, <2>2, BfsGraph
  <2>4. run.ref[u] \in Nat \cup {-1}
    BY <1>0, BfsGraph
  <2>5. u \in At(d) /\ u \notin todo
    BY <2>2, <2>3, <2>4 DEF At, AllEnd
  <2>6. ~Pending(u, v)
    BY DEF Pending, AllEnd
  <2> QED
    BY <1>0, <1>1, <2>1, <2>3, <2>5, <2>6 DEF TopDownInv
<1> QED
  BY <1>0, <1>1 DEF ParentInv

\* The end of a top-down step goes to the next level.
LEMMA TDEndKeeps ==
  ASSUME NEW d \in Nat, BfsAt(d), TDEnd
  PROVE  BfsAt(d + 1)'
<1>0. /\ phase = "td" /\ AllEnd /\ mem' = slide_window(mem) /\ StartLoop("bfs_top", {})
      /\ BfsType /\ Flushed /\ QueueInv(d) /\ ParentInv(d) /\ TopDownInv(d)
  BY DEF TDEnd, BfsAt
<1>1. /\ DOMAIN mem' = BfsFields /\ mem'.queue = mem.queue /\ mem'.lq = mem.lq
      /\ mem'.start = mem.end /\ mem'.end = Len(mem.queue)
      /\ mem'.parent = mem.parent /\ mem'.front = mem.front /\ mem'.curr = mem.curr
  BY <1>0 DEF slide_window, BfsFields, BfsType
<1>2. /\ mem.start \in Nat /\ mem.end \in Nat /\ Len(mem.queue) \in Nat /\ mem.start <= mem.end /\ mem.end <= Len(mem.queue)
      /\ DOMAIN mem.queue = 1 .. Len(mem.queue) /\ \A i \in 1 .. Len(mem.queue) : mem.queue[i] \in N
      /\ run.ref \in [N -> Nat \cup {-1}]
  BY <1>0, LenProperties, ElementOfSeq, BfsGraph DEF BfsType, QueueInv
<1>3. BfsType' /\ Flushed' /\ run' = run /\ phase' = "bfs_top"
  <2>1. /\ "bfs_top" \in BfsPhases /\ {} \subseteq N
        /\ mem'.start \in Nat /\ mem'.end \in Nat
        /\ mem'.parent \in [N -> Int] /\ mem'.front \subseteq N /\ mem'.curr \subseteq N
    BY <1>0, <1>1, <1>2 DEF BfsPhases, BfsType
  <2> QED
    BY <1>0, <1>1, <2>1, BfsStarts
<1>4. Found' = Found /\ Found = UpTo(d + 1) /\ N' = N /\ At(d + 1)' = At(d + 1) /\ UpTo(d + 1)' = UpTo(d + 1)
  BY <1>0, <1>1, <1>3, TDFindsAll DEF Found, N, At, UpTo
<1>5. \A t \in Workers : mem.lq[t] = <<>> /\ DOMAIN mem.lq[t] = {}
  BY <1>0, AllFlushed
<1>6. QueueInv(d + 1)'
  <2>1. \A i \in 1 .. mem.end : run.ref[mem.queue[i]] <= d
    <3> SUFFICES ASSUME NEW i \in 1 .. mem.end PROVE run.ref[mem.queue[i]] <= d
      OBVIOUS
    <3>1. mem.queue[i] \in N
      BY <1>2
    <3>2. CASE i <= mem.start
      BY <1>0, <1>2, <3>1, <3>2 DEF QueueInv
    <3>3. CASE ~(i <= mem.start)
      <4>1. i \in mem.start + 1 .. mem.end
        BY <1>2, <3>3
      <4>2. mem.queue[i] \in Window(mem)
        BY <4>1 DEF Window
      <4> QED
        BY <1>0, <3>1, <4>2 DEF QueueInv, At
    <3> QED
      BY <3>2, <3>3
  <2>2. \A v \in N : v \in Window(mem)' <=> v \in At(d + 1)
    <3>1. \A v \in N : v \in Window(mem)' <=> \E i \in mem.end + 1 .. Len(mem.queue) : mem.queue[i] = v
      BY <1>1 DEF Window
    <3>2. \A i \in mem.end + 1 .. Len(mem.queue) : mem.queue[i] \in At(d + 1)
      BY <1>0 DEF QueueInv, Past, Pushing
    <3>3. ASSUME NEW v \in At(d + 1) PROVE \E i \in mem.end + 1 .. Len(mem.queue) : mem.queue[i] = v
      <4>1. v \in N /\ run.ref[v] = d + 1 /\ v \in Found
        BY <1>4 DEF At, UpTo
      <4>2. Waiting(v)
        BY <1>0, <4>1 DEF TopDownInv
      <4>3. PICK i \in DOMAIN mem.queue : mem.queue[i] = v
        BY <1>5, <4>2 DEF Waiting, Queued
      <4>4. i \in 1 .. Len(mem.queue) /\ ~(i <= mem.end)
        BY <1>2, <2>1, <4>1, <4>3
      <4> QED
        BY <1>2, <4>3, <4>4
    <3> QED
      BY <3>1, <3>2, <3>3
  <2>3. Past(mem.queue, mem.lq, Len(mem.queue), At(Pushing(d + 1))')
    BY <1>2, <1>5 DEF Past
  <2>4. \A v \in N : Waiting(v)' => v \in Found
    BY <1>0, <1>1 DEF Waiting, QueueInv
  <2>5. Apart(mem.queue, mem.lq)
    BY <1>0 DEF QueueInv
  <2>6. \A i \in 1 .. mem'.start : run'.ref[mem'.queue[i]] <= (d + 1) - 1
    BY <1>1, <1>2, <1>3, <2>1
  <2>7. Past(mem.queue, mem.lq, mem.end, At(Pushing(d + 1)))'
    BY <1>1, <2>3
  <2> QED
    BY <1>1, <1>2, <1>3, <1>4, <1>5, <2>2, <2>4, <2>5, <2>6, <2>7 DEF QueueInv
<1>7. ParentInv(d + 1)'
  <2>1. mem'.front \subseteq UpTo(d + 1)
    BY <1>0, <1>1 DEF ParentInv, UpTo
  <2>2. \A v \in Found : /\ mem'.parent[v] \in N
                         /\ v # run.source => /\ Edge(run.g, mem'.parent[v], v)
                                              /\ run.ref[v] = run.ref[mem'.parent[v]] + 1
    BY <1>0, <1>1 DEF ParentInv
  <2> QED
    BY <1>1, <1>3, <1>4, <2>1, <2>2 DEF ParentInv
<1> QED
  BY <1>3, <1>6, <1>7 DEF BfsAt, TopDownInv, ToBitmapInv, BottomUpInv, ToQueueInv

----------------------------------------------------------------------------
(* QueueToBitmap.                                                          *)

\* A step of the loop loses no node: what leaves todo is with its thread, and what
\* a thread is through with is in the bitmap.
LEMMA ToBitmapKeeps ==
  ASSUME NEW d \in Nat, BfsAt(d), phase = "q2b", NEW t \in Workers,
         run' = run, phase' = phase, todo' \subseteq todo,
         w' \in [Workers -> BfsRecord], Others(t), w'[t].pc \in PcsOf[phase],
         DOMAIN mem' = BfsFields, mem'.queue = mem.queue, mem'.lq = mem.lq, mem'.start = mem.start,
         mem'.end = mem.end, mem'.parent = mem.parent, mem'.curr = mem.curr,
         mem.front \subseteq mem'.front, mem'.front \subseteq mem.front \cup At(d),
         w'[t].pc \in {"bit", "bitcas"} => w'[t].u \in At(d),
         \A u \in todo \ todo' : w'[t].pc \in {"bit", "bitcas"} /\ w'[t].u = u,
         w[t].pc \in {"bit", "bitcas"} =>
           w[t].u \in mem'.front \/ (w'[t].pc \in {"bit", "bitcas"} /\ w'[t].u = w[t].u)
  PROVE  BfsAt(d)'
<1>0. BfsType /\ Flushed /\ QueueInv(d) /\ ParentInv(d) /\ ToBitmapInv(d)
  BY DEF BfsAt
<1>1. N' = N /\ At(d)' = At(d)
  BY DEF N, At
<1>2. mem'.front \subseteq UpTo(d) /\ mem'.front \subseteq N
  <2>1. At(d) \subseteq UpTo(d) /\ UpTo(d) \subseteq N
    BY <1>0, BfsGraph DEF At, UpTo
  <2> QED
    BY <1>0, <2>1 DEF ParentInv
<1>3. ParentInv(d)' /\ Found' = Found
  BY <1>0, <1>2, ParentKept
<1>4. QueueInv(d)'
  BY <1>0, <1>3, QueueKept
<1>5. BfsType'
  <2>1. \A s \in Workers : w'[s].pc \in PcsOf[phase]
    BY <1>0 DEF BfsType, Others
  <2>2. todo' \subseteq N
    BY <1>0 DEF BfsType
  <2>3. /\ mem'.queue \in Seq(N) /\ mem'.lq \in [Workers -> Seq(N)] /\ mem'.start \in Nat /\ mem'.end \in Nat
        /\ mem'.parent \in [N -> Int] /\ mem'.curr \subseteq N
    BY <1>0 DEF BfsType
  <2>4. run \in Runs /\ BfsRun /\ phase \in BfsPhases
    BY <1>0 DEF BfsType
  <2> QED
    BY <1>1, <1>2, <2>1, <2>2, <2>3, <2>4 DEF BfsType, BfsRun
<1>6. Flushed'
  BY <1>0 DEF Flushed, QueueInv
<1>7. ToBitmapInv(d)'
  <2>1. todo' \subseteq At(d)
    BY <1>0 DEF ToBitmapInv
  <2>2. \A s \in Workers : w'[s].pc \in {"bit", "bitcas"} => w'[s].u \in At(d)
    BY <1>0 DEF ToBitmapInv, Others
  <2>3. ASSUME NEW u \in At(d)
        PROVE  \/ u \in mem'.front \cup todo'
               \/ \E s \in Workers : w'[s].pc \in {"bit", "bitcas"} /\ w'[s].u = u
    <3>1. CASE u \in mem.front
      BY <3>1
    <3>2. CASE u \in todo
      BY <3>2
    <3>3. CASE \E s \in Workers : w[s].pc \in {"bit", "bitcas"} /\ w[s].u = u
      <4>1. PICK s \in Workers : w[s].pc \in {"bit", "bitcas"} /\ w[s].u = u
        BY <3>3
      <4>2. CASE s = t
        BY <4>1, <4>2
      <4>3. CASE s # t
        BY <4>1, <4>3 DEF Others
      <4> QED
        BY <4>2, <4>3
    <3> QED
      BY <1>0, <3>1, <3>2, <3>3 DEF ToBitmapInv
  <2> QED
    BY <1>1, <2>1, <2>2, <2>3 DEF ToBitmapInv
<1> QED
  BY <1>3, <1>4, <1>5, <1>6, <1>7 DEF BfsAt, TopDownInv, BottomUpInv, ToQueueInv

\* A step of the team that fills the bitmap from the queue keeps the invariant.
LEMMA ToBitmapStep ==
  ASSUME NEW d \in Nat, BfsAt(d), phase = "q2b", NEW t \in Workers,
         Q2BGrab(t) \/ Q2BRead(t) \/ Q2BCas(t) \/ EndLoop(t)
  PROVE  BfsAt(d)'
<1> USE DEF BfsPcs
<1>0. /\ BfsType /\ ToBitmapInv(d) /\ w \in [Workers -> BfsRecord] /\ DOMAIN mem = BfsFields
      /\ todo \subseteq Int
  BY BfsGraph DEF BfsAt, BfsType
<1>1. /\ "bit" \in PcsOf[phase] /\ "bitcas" \in PcsOf[phase] /\ "grab" \in PcsOf[phase] /\ "end" \in PcsOf[phase]
  BY DEF PcsOf
<1>2. CASE Q2BGrab(t)
  <2> DEFINE rest == [u \in todo |-> <<>>]
  <2>1. rest \in [todo -> Seq(Int)] /\ Grab(t, "bit", rest)
    BY <1>2, EmptySeq DEF Q2BGrab
  <2> HIDE DEF rest
  <2>2. PICK i \in todo :
          /\ todo' = todo \ {i} /\ w[t].pc = "grab"
          /\ run' = run /\ phase' = phase /\ mem' = mem
          /\ w' \in [Workers -> BfsRecord] /\ Others(t)
          /\ w'[t].pc = "bit" /\ w'[t].u = i /\ w'[t].nb = rest[i]
    BY <1>0, <2>1, BfsGrabbed
  <2>3. i \in At(d)
    BY <1>0 DEF ToBitmapInv
  <2> QED
    BY <1>0, <1>1, <2>2, <2>3, ToBitmapKeeps
<1>3. CASE Q2BRead(t)
  <2> DEFINE x == mem.front \cap Word(run.g, w[t].u)
  <2>1. /\ w[t].pc = "bit" /\ Keeps(t, "bitcas", x) /\ run' = run /\ phase' = phase /\ todo' = todo /\ mem' = mem
    BY <1>3 DEF Q2BRead, Keeps
  <2>2. x \in SUBSET Int
    <3>1. mem.front \subseteq N /\ N \subseteq Nat
      BY <1>0, BfsGraph DEF BfsType
    <3>2. x \subseteq mem.front
      OBVIOUS
    <3>3. Nat \subseteq Int
      OBVIOUS
    <3> HIDE DEF x
    <3> QED
      BY ONLY <3>1, <3>2, <3>3
  <2> HIDE DEF x
  <2>3. w' \in [Workers -> BfsRecord] /\ Others(t) /\ w'[t].pc = "bitcas" /\ w'[t].u = w[t].u
    BY <1>0, <2>1, <2>2, BfsKept
  <2>4. w[t].u \in At(d)
    BY <1>0, <2>1 DEF ToBitmapInv
  <2> QED
    BY <1>0, <1>1, <2>1, <2>3, <2>4, ToBitmapKeeps
<1>4. CASE Q2BCas(t)
  <2>1. w[t].pc = "bitcas" /\ run' = run /\ phase' = phase /\ todo' = todo
    BY <1>4 DEF Q2BCas
  <2>2. w[t].u \in At(d)
    BY <1>0, <2>1 DEF ToBitmapInv
  <2>3. CASE mem.front \cap Word(run.g, w[t].u) = w[t].x
    <3>1. mem' = [mem EXCEPT !.front = mem.front \cup {w[t].u}] /\ w' = [w EXCEPT ![t] = Free]
      BY <1>4, <2>3 DEF Q2BCas
    <3>2. /\ DOMAIN mem' = BfsFields /\ mem'.queue = mem.queue /\ mem'.lq = mem.lq /\ mem'.start = mem.start
          /\ mem'.end = mem.end /\ mem'.parent = mem.parent /\ mem'.curr = mem.curr
          /\ mem'.front = mem.front \cup {w[t].u}
      BY <1>0, <3>1 DEF BfsFields
    <3>3. w' \in [Workers -> BfsRecord] /\ Others(t) /\ w'[t].pc = "grab"
      BY <1>0, <3>1, BfsFreed
    <3> QED
      BY <1>1, <2>1, <2>2, <3>2, <3>3, ToBitmapKeeps
  <2>4. CASE mem.front \cap Word(run.g, w[t].u) # w[t].x
    <3>1. Go(t, "bit") /\ mem' = mem
      BY <1>4, <2>4 DEF Q2BCas
    <3>2. w' \in [Workers -> BfsRecord] /\ Others(t) /\ w'[t].pc = "bit" /\ w'[t].u = w[t].u
      BY <1>0, <3>1, BfsWent
    <3> QED
      BY <1>0, <1>1, <2>1, <2>2, <3>1, <3>2, ToBitmapKeeps
  <2> QED
    BY <2>3, <2>4
<1>5. CASE EndLoop(t)
  <2>1. w[t].pc = "grab" /\ Go(t, "end") /\ run' = run /\ phase' = phase /\ todo' = todo /\ mem' = mem
    BY <1>5 DEF EndLoop, LoopEnd
  <2>2. w' \in [Workers -> BfsRecord] /\ Others(t) /\ w'[t].pc = "end"
    BY <1>0, <2>1, BfsWent
  <2> QED
    BY <1>0, <1>1, <2>1, <2>2, ToBitmapKeeps
<1> QED
  BY <1>2, <1>3, <1>4, <1>5

----------------------------------------------------------------------------
(* BUStep.                                                                 *)

\* What is to be shown of a step of the bottom-up loop.
LEMMA BottomUpKeeps ==
  ASSUME NEW d, BfsAt(d), phase = "bu", phase' = phase, BfsType', QueueInv(d)', ParentInv(d)',
         BottomUpInv(d)'
  PROVE  BfsAt(d)'
<1>1. Flushed'
  BY DEF QueueInv, Flushed
<1> QED
  BY <1>1 DEF BfsAt, TopDownInv, ToBitmapInv, ToQueueInv

\* The memory in a step of the bottom-up loop: the queue stays, the other fields
\* keep their type.
LEMMA BottomUpType ==
  ASSUME BfsType, phase = "bu", NEW t \in Workers, run' = run, phase' = phase, todo' \subseteq todo,
         w' \in [Workers -> BfsRecord], Others(t), w'[t].pc \in PcsOf[phase],
         DOMAIN mem' = BfsFields, mem'.queue = mem.queue, mem'.lq = mem.lq, mem'.start = mem.start,
         mem'.end = mem.end, mem'.parent \in [N -> Int], mem'.front \subseteq N, mem'.curr \subseteq N
  PROVE  BfsType'
<1>1. \A s \in Workers : w'[s].pc \in PcsOf[phase]
  BY DEF BfsType, Others
<1>2. N' = N /\ todo' \subseteq N
  BY DEF N, BfsType
<1> QED
  BY <1>1, <1>2 DEF BfsType, BfsRun

\* A thread that goes on within its chunk, or is through with it, disturbs no other.
LEMMA OwnChunksKept ==
  ASSUME OwnChunks, run' = run, todo' = todo, NEW t \in Workers, Others(t),
         w'[t].pc \in {"node", "store"} =>
           /\ w[t].pc \in {"node", "store"} /\ w'[t].u = w[t].u
           /\ \A i \in DOMAIN w'[t].nb : \E k \in DOMAIN w[t].nb : w'[t].nb[i] = w[t].nb[k]
  PROVE  OwnChunks'
<1>1. N' = N
  BY DEF N
<1>2. \A s \in Workers : w'[s].pc \in {"node", "store"} =>
        /\ w[s].pc \in {"node", "store"} /\ w'[s].u = w[s].u
        /\ \A i \in DOMAIN w'[s].nb : \E k \in DOMAIN w[s].nb : w'[s].nb[i] = w[s].nb[k]
  BY DEF Others
<1> QED
  BY <1>1, <1>2 DEF OwnChunks

\* The words that two threads store belong to different chunks.
LEMMA WordsApart ==
  ASSUME BfsType, OwnChunks, NEW s \in Workers, NEW t \in Workers, s # t,
         w[s].pc \in {"node", "store"}, w[t].pc \in {"node", "store"},
         w[s].nb # <<>>, w[t].nb # <<>>
  PROVE  Head(w[t].nb) \notin Word(run.g, Head(w[s].nb))
<1> DEFINE a == Head(w[s].nb)
           b == Head(w[t].nb)
<1>1. 1 \in DOMAIN w[s].nb /\ a = w[s].nb[1] /\ 1 \in DOMAIN w[t].nb /\ b = w[t].nb[1]
  <2>1. \A r \in Workers : w[r].nb # <<>> => 1 \in DOMAIN w[r].nb /\ Head(w[r].nb) = w[r].nb[1]
    <3> SUFFICES ASSUME NEW r \in Workers, w[r].nb # <<>>
                 PROVE  1 \in DOMAIN w[r].nb /\ Head(w[r].nb) = w[r].nb[1]
      OBVIOUS
    <3>1. w[r].nb \in Seq(Int)
      BY DEF BfsType, BfsRecord
    <3> QED
      BY <3>1, EmptySeq, LenProperties, HeadTailProperties
  <2> QED
    BY <2>1
<1> HIDE DEF a, b
<1>2. a \in N /\ b \in N /\ a \div BuChunk = w[s].u \div BuChunk /\ b \div BuChunk = w[t].u \div BuChunk
  BY <1>1 DEF OwnChunks
<1>3. /\ w[s].u \in Nat /\ w[t].u \in Nat /\ w[s].u # w[t].u
      /\ w[s].u % BuChunk = 0 /\ w[t].u % BuChunk = 0
  BY BfsGraph DEF OwnChunks, Chunks, N
<1>4. ASSUME a \div kBitsPerWord = b \div kBitsPerWord PROVE FALSE
  <2>1. a \div BuChunk = b \div BuChunk
    BY <1>2, <1>4, BfsGraph, WordsWithin
  <2> QED
    BY <1>2, <1>3, <2>1, SameHead
<1>5. b \notin Word(run.g, a)
  BY <1>4 DEF Word
<1> QED
  BY <1>5 DEF a, b

\* A thread takes a chunk: all of its nodes are ahead of it.
LEMMA BUGrabKeeps ==
  ASSUME NEW d \in Nat, BfsAt(d), phase = "bu", NEW t \in Workers, BUGrab(t)
  PROVE  BfsAt(d)'
<1> USE DEF BfsPcs
<1>0. /\ BfsType /\ QueueInv(d) /\ ParentInv(d) /\ BottomUpInv(d) /\ OwnChunks /\ StoresFit(d) /\ NoneMissed(d)
      /\ w \in [Workers -> BfsRecord] /\ todo \subseteq N /\ N \subseteq Nat /\ IsFiniteSet(N)
      /\ DOMAIN mem = BfsFields
  BY BfsGraph DEF BfsAt, BfsType, BottomUpInv
<1> DEFINE rest == [c \in todo |-> ChunkNodes(c)]
           part(c) == {u \in N : u \div BuChunk = c \div BuChunk}
<1>1. \A c \in todo : /\ ChunkNodes(c) \in Seq(part(c)) /\ ChunkNodes(c) \in Seq(Int)
                      /\ \A v \in part(c) : \E i \in DOMAIN ChunkNodes(c) : ChunkNodes(c)[i] = v
  <2> SUFFICES ASSUME NEW c \in todo
               PROVE  /\ ChunkNodes(c) \in Seq(part(c)) /\ ChunkNodes(c) \in Seq(Int)
                      /\ \A v \in part(c) : \E i \in DOMAIN ChunkNodes(c) : ChunkNodes(c)[i] = v
    OBVIOUS
  <2>1. ChunkNodes(c) = SetToSeq(part(c))
    BY DEF ChunkNodes, N
  <2>2. part(c) \subseteq N
    OBVIOUS
  <2> HIDE DEF part
  <2>4. part(c) \in SUBSET N
    BY <2>2
  <2>5. IsFiniteSet(part(c))
    BY ONLY <1>0, <2>4, FS_Subset
  <2>6. part(c) \subseteq Int
    <3>1. N \subseteq Nat /\ Nat \subseteq Int
      BY <1>0
    <3> QED
      BY ONLY <2>2, <3>1
  <2>3. ChunkNodes(c) \in Seq(part(c)) /\ \A v \in part(c) : \E i \in DOMAIN ChunkNodes(c) : ChunkNodes(c)[i] = v
    BY <2>1, <2>5, ListOf
  <2>7. ChunkNodes(c) \in Seq(Int)
    BY <2>3, <2>6, SeqMonotonic
  <2> QED
    BY <2>3, <2>7
<1> HIDE DEF part
<1>2. rest \in [todo -> Seq(Int)] /\ Grab(t, "node", rest) /\ todo \subseteq Int
  <2>1. rest \in [todo -> Seq(Int)]
    BY <1>1
  <2>2. Grab(t, "node", rest)
    BY DEF BUGrab
  <2>3. todo \subseteq Int
    BY ONLY <1>0
  <2> QED
    BY <2>1, <2>2, <2>3
<1> HIDE DEF rest
<1>3. PICK c \in todo :
        /\ todo' = todo \ {c} /\ w[t].pc = "grab"
        /\ run' = run /\ phase' = phase /\ mem' = mem
        /\ w' \in [Workers -> BfsRecord] /\ Others(t)
        /\ w'[t].pc = "node" /\ w'[t].u = c /\ w'[t].nb = rest[c]
  BY <1>0, <1>2, BfsGrabbed
<1>4. w'[t].nb = ChunkNodes(c)
  BY <1>3 DEF rest
<1>5. /\ \A i \in DOMAIN w'[t].nb : w'[t].nb[i] \in N /\ w'[t].nb[i] \div BuChunk = c \div BuChunk
      /\ \A v \in N : v \div BuChunk = c \div BuChunk => \E i \in DOMAIN w'[t].nb : w'[t].nb[i] = v
  <2> DEFINE s == w'[t].nb
  <2>1. s \in Seq(part(c)) /\ \A v \in part(c) : \E i \in DOMAIN s : s[i] = v
    BY <1>1, <1>3, <1>4
  <2>2. \A i \in DOMAIN s : s[i] \in part(c)
    BY <2>1, LenProperties, ElementOfSeq
  <2> QED
    BY <2>1, <2>2 DEF part
<1>6. BfsType' /\ QueueInv(d)' /\ ParentInv(d)' /\ Found' = Found
  <2>1. "node" \in PcsOf[phase]
    BY DEF PcsOf
  <2>2. BfsType'
    BY <1>0, <1>3, <2>1, BfsTypeKept
  <2>3. ParentInv(d)' /\ Found' = Found
    BY <1>0, <1>3, ParentKept DEF ParentInv
  <2>4. QueueInv(d)'
    BY <1>0, <1>3, <2>3, QueueKept
  <2> QED
    BY <2>2, <2>3, <2>4
<1>7. N' = N /\ At(d)' = At(d) /\ At(d + 1)' = At(d + 1)
  BY <1>3 DEF N, At
<1>8. OwnChunks'
  <2>1. c \in Chunks(run.g)
    BY <1>0 DEF BottomUpInv
  <2>2. \A s \in Workers : s # t => w'[s] = w[s]
    BY <1>3 DEF Others
  <2>3. \A s \in Workers : s # t /\ w[s].pc \in {"node", "store"} => w[s].u # c
    BY <1>0 DEF OwnChunks
  <2> QED
    BY <1>0, <1>3, <1>5, <1>7, <2>1, <2>2, <2>3 DEF OwnChunks
<1>9. StoresFit(d)'
  BY <1>0, <1>3, <1>6, <1>7 DEF StoresFit, Others
<1>10. NoneMissed(d)'
  <2> SUFFICES ASSUME NEW v \in At(d + 1)
               PROVE  IF v \in Found
                      THEN v \in mem.curr \/ \E s \in Workers : w'[s].pc = "store" /\ Head(w'[s].nb) = v
                      ELSE (\E a \in todo' : a \div BuChunk = v \div BuChunk) \/ \E s \in Workers : Ahead(s, v)'
    BY <1>3, <1>6, <1>7 DEF NoneMissed
  <2>1. CASE v \in Found
    <3>1. v \in mem.curr \/ \E s \in Workers : s # t /\ w[s].pc = "store" /\ Head(w[s].nb) = v
      BY <1>0, <1>3, <2>1 DEF NoneMissed
    <3> QED
      BY <1>3, <2>1, <3>1 DEF Others
  <2>2. CASE v \notin Found /\ v \div BuChunk = c \div BuChunk
    <3>1. v \in N
      BY DEF At
    <3>2. Ahead(t, v)'
      BY <1>3, <1>5, <2>2, <3>1 DEF Ahead
    <3> QED
      BY <2>2, <3>2
  <2>3. CASE v \notin Found /\ v \div BuChunk # c \div BuChunk
    <3>1. CASE \E a \in todo : a \div BuChunk = v \div BuChunk
      BY <1>3, <2>3, <3>1
    <3>2. CASE \E s \in Workers : Ahead(s, v)
      <4>1. PICK s \in Workers : Ahead(s, v)
        BY <3>2
      <4>2. s # t /\ w'[s] = w[s]
        BY <1>3, <4>1 DEF Ahead, Others
      <4>3. Ahead(s, v)'
        BY <4>1, <4>2 DEF Ahead
      <4> QED
        BY <2>3, <4>3
    <3> QED
      BY <1>0, <2>3, <3>1, <3>2 DEF NoneMissed
  <2> QED
    BY <2>1, <2>2, <2>3
<1>11. BottomUpInv(d)'
  BY <1>0, <1>3, <1>6, <1>7, <1>8, <1>9, <1>10 DEF BottomUpInv
<1> QED
  BY <1>0, <1>3, <1>6, <1>11, BottomUpKeeps

\* What was ahead stays ahead, but for the node a thread is through with.
LEMMA AheadAdvances ==
  ASSUME w \in [Workers -> BfsRecord], NEW t \in Workers, w[t].nb # <<>>, Advance(t, "node")
  PROVE  \A s \in Workers : \A v : Ahead(s, v) => Ahead(s, v)' \/ (s = t /\ v = Head(w[t].nb))
<1> SUFFICES ASSUME NEW s \in Workers, NEW v, Ahead(s, v), ~(s = t /\ v = Head(w[t].nb))
             PROVE  Ahead(s, v)'
  OBVIOUS
<1>1. /\ Others(t) /\ w'[t].pc = "node"
      /\ \A i \in DOMAIN w[t].nb : i # 1 => i - 1 \in DOMAIN w'[t].nb /\ w'[t].nb[i - 1] = w[t].nb[i]
      /\ Head(w[t].nb) = w[t].nb[1]
  BY BfsAdvanced DEF BfsPcs
<1>2. PICK i \in DOMAIN w[s].nb : w[s].nb[i] = v /\ w[s].pc \in {"node", "store"}
  BY DEF Ahead
<1>3. CASE s # t
  BY <1>1, <1>2, <1>3 DEF Others, Ahead
<1>4. CASE s = t
  <2>1. i # 1
    BY <1>1, <1>2, <1>4
  <2> QED
    BY <1>1, <1>2, <1>4, <2>1 DEF Ahead
<1> QED
  BY <1>3, <1>4

\* A thread is through with its chunk, or with the loop.
LEMMA BULeaveKeeps ==
  ASSUME NEW d \in Nat, BfsAt(d), phase = "bu", NEW t \in Workers,
         run' = run, phase' = phase, todo' = todo, mem' = mem,
         w' \in [Workers -> BfsRecord], Others(t), w'[t].pc \in {"grab", "end"},
         w[t].pc = "grab" \/ (w[t].pc = "node" /\ w[t].nb = <<>>)
  PROVE  BfsAt(d)'
<1>0. /\ BfsType /\ QueueInv(d) /\ ParentInv(d) /\ BottomUpInv(d) /\ OwnChunks /\ StoresFit(d) /\ NoneMissed(d)
  BY DEF BfsAt, BottomUpInv
<1>1. BfsType' /\ QueueInv(d)' /\ ParentInv(d)' /\ Found' = Found
  <2>1. "grab" \in PcsOf[phase] /\ "end" \in PcsOf[phase]
    BY DEF PcsOf
  <2>2. BfsType'
    BY <1>0, <2>1, BfsTypeKept
  <2>3. ParentInv(d)' /\ Found' = Found
    BY <1>0, ParentKept DEF ParentInv
  <2>4. QueueInv(d)'
    BY <1>0, <2>3, QueueKept
  <2> QED
    BY <2>2, <2>3, <2>4
<1>2. At(d)' = At(d) /\ At(d + 1)' = At(d + 1)
  BY DEF N, At
<1>3. OwnChunks'
  BY <1>0, OwnChunksKept
<1>4. StoresFit(d)'
  BY <1>0, <1>1, <1>2 DEF StoresFit, Others
<1>5. \A s \in Workers : \A v : Ahead(s, v) => Ahead(s, v)'
  <2> SUFFICES ASSUME NEW s \in Workers, NEW v, Ahead(s, v) PROVE Ahead(s, v)'
    OBVIOUS
  <2>1. s # t
    BY DEF Ahead
  <2> QED
    BY <2>1 DEF Ahead, Others
<1>6. \A s \in Workers : w[s].pc = "store" => w'[s] = w[s]
  BY DEF Others
<1>7. NoneMissed(d)'
  BY <1>0, <1>1, <1>2, <1>5, <1>6 DEF NoneMissed
<1>8. BottomUpInv(d)'
  BY <1>0, <1>1, <1>2, <1>3, <1>4, <1>7 DEF BottomUpInv
<1> QED
  BY <1>1, <1>8, BottomUpKeeps

\* A node that has a parent, or none in the frontier, is passed over.
LEMMA BUPassKeeps ==
  ASSUME NEW d \in Nat, BfsAt(d), phase = "bu", NEW t \in Workers,
         run' = run, phase' = phase, todo' = todo, mem' = mem,
         w[t].pc = "node", w[t].nb # <<>>, Advance(t, "node"),
         Head(w[t].nb) \in Found \/ Head(w[t].nb) \notin At(d + 1)
  PROVE  BfsAt(d)'
<1>0. /\ BfsType /\ QueueInv(d) /\ ParentInv(d) /\ BottomUpInv(d) /\ OwnChunks /\ StoresFit(d) /\ NoneMissed(d)
      /\ w \in [Workers -> BfsRecord]
  BY DEF BfsAt, BfsType, BottomUpInv
<1>1. /\ w' \in [Workers -> BfsRecord] /\ Others(t) /\ w'[t].pc = "node" /\ w'[t].u = w[t].u
      /\ \A i \in DOMAIN w'[t].nb : i + 1 \in DOMAIN w[t].nb /\ w'[t].nb[i] = w[t].nb[i + 1]
  BY <1>0, BfsAdvanced DEF BfsPcs
<1>2. BfsType' /\ QueueInv(d)' /\ ParentInv(d)' /\ Found' = Found
  <2>1. "node" \in PcsOf[phase]
    BY DEF PcsOf
  <2>2. BfsType'
    BY <1>0, <1>1, <2>1, BfsTypeKept
  <2>3. ParentInv(d)' /\ Found' = Found
    BY <1>0, ParentKept DEF ParentInv
  <2>4. QueueInv(d)'
    BY <1>0, <2>3, QueueKept
  <2> QED
    BY <2>2, <2>3, <2>4
<1>3. At(d)' = At(d) /\ At(d + 1)' = At(d + 1)
  BY DEF N, At
<1>4. OwnChunks'
  BY <1>0, <1>1, OwnChunksKept
<1>5. StoresFit(d)'
  BY <1>0, <1>1, <1>2, <1>3 DEF StoresFit, Others
<1>6. \A s \in Workers : \A v : Ahead(s, v) => Ahead(s, v)' \/ v = Head(w[t].nb)
  BY <1>0, AheadAdvances
<1>7. \A s \in Workers : w[s].pc = "store" => w'[s] = w[s]
  BY <1>1 DEF Others
<1>8. NoneMissed(d)'
  BY <1>0, <1>2, <1>3, <1>6, <1>7 DEF NoneMissed
<1>9. BottomUpInv(d)'
  BY <1>0, <1>2, <1>3, <1>4, <1>5, <1>8 DEF BottomUpInv
<1> QED
  BY <1>2, <1>9, BottomUpKeeps

\* A node gets a neighbour in the frontier as its parent; its bit is still to be set.
LEMMA BUFoundKeeps ==
  ASSUME NEW d \in Nat, BfsAt(d), phase = "bu", NEW t \in Workers, NEW y \in mem.front,
         run' = run, phase' = phase, todo' = todo,
         w[t].pc = "node", w[t].nb # <<>>, Head(w[t].nb) \in N, Head(w[t].nb) \notin Found,
         Edge(run.g, y, Head(w[t].nb)),
         mem' = [mem EXCEPT !.parent[Head(w[t].nb)] = y, !.awake_count = @ + 1],
         Keeps(t, "store", mem.curr \cap Word(run.g, Head(w[t].nb)))
  PROVE  BfsAt(d)'
<1> DEFINE h == Head(w[t].nb)
           x == mem.curr \cap Word(run.g, h)
<1>0. /\ BfsType /\ QueueInv(d) /\ ParentInv(d) /\ BottomUpInv(d) /\ OwnChunks /\ StoresFit(d) /\ NoneMissed(d)
      /\ w \in [Workers -> BfsRecord]
  BY DEF BfsAt, BfsType, BottomUpInv
<1>1. x \in SUBSET Int
  <2>1. mem.curr \subseteq N /\ N \subseteq Nat /\ Nat \subseteq Int
    BY <1>0, BfsGraph DEF BfsType
  <2>2. x \subseteq mem.curr
    OBVIOUS
  <2> HIDE DEF x
  <2> QED
    BY ONLY <2>1, <2>2
<1>2. /\ DOMAIN mem' = BfsFields /\ mem'.queue = mem.queue /\ mem'.lq = mem.lq /\ mem'.start = mem.start
      /\ mem'.end = mem.end /\ mem'.front = mem.front /\ mem'.curr = mem.curr
      /\ mem'.parent = [mem.parent EXCEPT ![h] = y]
  BY <1>0 DEF BfsType, BfsFields
<1>3. h \in N /\ h \notin Found /\ Edge(run.g, y, h) /\ Keeps(t, "store", x)
  OBVIOUS
<1> HIDE DEF x, h
<1>4. /\ w' \in [Workers -> BfsRecord] /\ Others(t) /\ w'[t].pc = "store" /\ w'[t].u = w[t].u
      /\ w'[t].nb = w[t].nb /\ w'[t].x = x
  BY <1>0, <1>1, <1>3, BfsKept DEF BfsPcs
<1>5. y \in UpTo(d)
  BY <1>0 DEF ParentInv
<1>6. ParentInv(d)' /\ Found' = Found \cup {h} /\ h \in At(d + 1) /\ mem'.parent \in [N -> Int]
  BY <1>0, <1>2, <1>3, <1>5, ParentSet
<1>7. QueueInv(d)'
  BY <1>0, <1>2, <1>6, QueueKept
<1>8. BfsType'
  <2>1. "store" \in PcsOf[phase]
    BY DEF PcsOf
  <2>2. mem'.front \subseteq N /\ mem'.curr \subseteq N
    BY <1>0, <1>2 DEF BfsType
  <2> QED
    BY <1>0, <1>2, <1>4, <1>6, <2>1, <2>2, BottomUpType
<1>9. At(d)' = At(d) /\ At(d + 1)' = At(d + 1)
  BY DEF N, At
<1>10. OwnChunks'
  BY <1>0, <1>4, OwnChunksKept
<1>11. StoresFit(d)'
  <2> SUFFICES ASSUME NEW s \in Workers, w'[s].pc = "store"
               PROVE  /\ w'[s].nb # <<>> /\ Head(w'[s].nb) \in At(d + 1) \cap Found'
                      /\ w'[s].x = mem.curr \cap Word(run.g, Head(w'[s].nb))
    BY <1>2, <1>9 DEF StoresFit
  <2>1. CASE s = t
    BY <1>4, <1>6, <2>1 DEF h, x
  <2>2. CASE s # t
    BY <1>0, <1>4, <1>6, <2>2 DEF StoresFit, Others
  <2> QED
    BY <2>1, <2>2
<1>12. \A s \in Workers : \A v : Ahead(s, v) => Ahead(s, v)'
  <2> SUFFICES ASSUME NEW s \in Workers, NEW v, Ahead(s, v) PROVE Ahead(s, v)'
    OBVIOUS
  <2>1. CASE s = t
    BY <1>4, <2>1 DEF Ahead
  <2>2. CASE s # t
    BY <1>4, <2>2 DEF Ahead, Others
  <2> QED
    BY <2>1, <2>2
<1>13. \A s \in Workers : w[s].pc = "store" => w'[s] = w[s]
  BY <1>4 DEF Others
<1>14. NoneMissed(d)'
  <2> SUFFICES ASSUME NEW v \in At(d + 1)
               PROVE  IF v \in Found'
                      THEN v \in mem.curr \/ \E s \in Workers : w'[s].pc = "store" /\ Head(w'[s].nb) = v
                      ELSE (\E a \in todo : a \div BuChunk = v \div BuChunk) \/ \E s \in Workers : Ahead(s, v)'
    BY <1>2, <1>9 DEF NoneMissed
  <2>1. CASE v = h
    BY <1>4, <1>6, <2>1 DEF h
  <2>2. CASE v # h
    BY <1>0, <1>6, <1>12, <1>13, <2>2 DEF NoneMissed
  <2> QED
    BY <2>1, <2>2
<1>15. BottomUpInv(d)'
  BY <1>0, <1>2, <1>6, <1>9, <1>10, <1>11, <1>14 DEF BottomUpInv
<1> QED
  BY <1>6, <1>7, <1>8, <1>15, BottomUpKeeps

\* One node of a chunk.
LEMMA BUNodeKeeps ==
  ASSUME NEW d \in Nat, BfsAt(d), phase = "bu", NEW t \in Workers, BUNode(t)
  PROVE  BfsAt(d)'
<1> DEFINE h == Head(w[t].nb)
           in == in_neigh(run.g, h)
           found == {i \in DOMAIN in : in[i] \in mem.front}
<1>0. /\ BfsType /\ QueueInv(d) /\ ParentInv(d) /\ BottomUpInv(d) /\ OwnChunks
      /\ w \in [Workers -> BfsRecord] /\ run' = run /\ phase' = phase /\ todo' = todo /\ w[t].pc = "node"
  BY DEF BfsAt, BfsType, BottomUpInv, BUNode
<1>1. CASE w[t].nb = <<>>
  <2>1. w' = [w EXCEPT ![t] = Free] /\ mem' = mem
    BY <1>1 DEF BUNode
  <2>2. w' \in [Workers -> BfsRecord] /\ Others(t) /\ w'[t].pc = "grab"
    BY <1>0, <2>1, BfsFreed
  <2> QED
    BY <1>0, <1>1, <2>1, <2>2, BULeaveKeeps
<1>2. CASE w[t].nb # <<>>
  <2>1. h \in N
    <3>1. w[t].nb \in Seq(Int)
      BY <1>0 DEF BfsRecord
    <3>2. 1 \in DOMAIN w[t].nb /\ h = w[t].nb[1]
      BY <1>2, <3>1, EmptySeq, LenProperties, HeadTailProperties
    <3> QED
      BY <1>0, <3>2 DEF OwnChunks
  <2>2. /\ in \in Seq(N) /\ DOMAIN in \subseteq Nat
        /\ \A v \in N : Edge(run.g, v, h) <=> \E i \in DOMAIN in : in[i] = v
    BY <1>0, <2>1, BfsLists, LenProperties
  <2>3. h \in Found <=> mem.parent[h] >= 0
    BY <2>1 DEF Found
  <2>4. CASE mem.parent[h] >= 0 \/ found = {}
    <3>1. Advance(t, "node") /\ mem' = mem
      BY <1>2, <2>4 DEF BUNode
    <3>2. h \in Found \/ h \notin At(d + 1)
      <4> SUFFICES ASSUME found = {}, h \in At(d + 1) PROVE FALSE
        BY <2>3, <2>4
      <4>1. run.ref[h] = d + 1 /\ run.ref[h] > 0
        BY DEF At
      <4>2. PICK v \in N : Edge(run.g, v, h) /\ run.ref[h] = run.ref[v] + 1
        BY <1>0, <2>1, <4>1, BfsGraph
      <4>3. run.ref[v] \in Int
        BY <1>0, BfsGraph
      <4>4. v \in At(d) /\ v \in mem.front
        BY <1>0, <4>1, <4>2, <4>3 DEF At, BottomUpInv
      <4> QED
        BY <2>2, <4>2, <4>4
    <3> QED
      BY <1>0, <1>2, <3>1, <3>2, BUPassKeeps
  <2>5. CASE ~(mem.parent[h] >= 0) /\ found # {}
    <3> DEFINE y == in[Min(found)]
    <3>1. /\ mem' = [mem EXCEPT !.parent[h] = y, !.awake_count = @ + 1]
          /\ w' = [w EXCEPT ![t].pc = "store", ![t].x = mem.curr \cap Word(run.g, h)]
      BY <1>2, <2>5 DEF BUNode
    <3>2. Min(found) \in found
      BY <2>2, <2>5, MinIn
    <3>3. y \in mem.front /\ Edge(run.g, y, h)
      <4>1. mem.front \subseteq N
        BY <1>0 DEF BfsType
      <4> QED
        BY <2>2, <3>2, <4>1
    <3>4. Keeps(t, "store", mem.curr \cap Word(run.g, h))
      BY <3>1 DEF Keeps
    <3> HIDE DEF y
    <3> QED
      BY <1>0, <1>2, <2>1, <2>3, <2>5, <3>1, <3>3, <3>4, BUFoundKeeps
  <2> QED
    BY <2>4, <2>5
<1> QED
  BY <1>1, <1>2

\* The bit is set: the word is what the thread has read, so no other bit is lost.
LEMMA BUStoreKeeps ==
  ASSUME NEW d \in Nat, BfsAt(d), phase = "bu", NEW t \in Workers, BUStore(t)
  PROVE  BfsAt(d)'
<1> DEFINE h == Head(w[t].nb)
<1>0. /\ BfsType /\ QueueInv(d) /\ ParentInv(d) /\ BottomUpInv(d) /\ OwnChunks /\ StoresFit(d) /\ NoneMissed(d)
      /\ w \in [Workers -> BfsRecord] /\ run' = run /\ phase' = phase /\ todo' = todo /\ w[t].pc = "store"
      /\ w[t].nb # <<>> /\ Advance(t, "node")
  BY DEF BfsAt, BfsType, BottomUpInv, BUStore, StoresFit
<1>1. /\ h \in At(d + 1) \cap Found /\ w[t].x = mem.curr \cap Word(run.g, h) /\ h \in N
  BY <1>0 DEF StoresFit, At
<1>2. /\ DOMAIN mem' = BfsFields /\ mem'.queue = mem.queue /\ mem'.lq = mem.lq /\ mem'.start = mem.start
      /\ mem'.end = mem.end /\ mem'.front = mem.front /\ mem'.parent = mem.parent
      /\ mem'.curr = mem.curr \cup {h}
  <2>1. mem' = [mem EXCEPT !.curr = (mem.curr \ Word(run.g, h)) \cup w[t].x \cup {h}]
    BY DEF BUStore
  <2>2. (mem.curr \ Word(run.g, h)) \cup w[t].x \cup {h} = mem.curr \cup {h}
    BY <1>1
  <2> QED
    BY <1>0, <2>1, <2>2 DEF BfsType, BfsFields
<1>3. /\ w' \in [Workers -> BfsRecord] /\ Others(t) /\ w'[t].pc = "node" /\ w'[t].u = w[t].u
      /\ \A i \in DOMAIN w'[t].nb : i + 1 \in DOMAIN w[t].nb /\ w'[t].nb[i] = w[t].nb[i + 1]
  BY <1>0, BfsAdvanced DEF BfsPcs
<1>4. ParentInv(d)' /\ Found' = Found
  BY <1>0, <1>2, ParentKept DEF ParentInv
<1>5. QueueInv(d)'
  BY <1>0, <1>2, <1>4, QueueKept
<1>6. BfsType'
  <2>1. "node" \in PcsOf[phase]
    BY DEF PcsOf
  <2>2. mem'.front \subseteq N /\ mem'.curr \subseteq N /\ mem'.parent \in [N -> Int]
    BY <1>0, <1>1, <1>2 DEF BfsType
  <2> QED
    BY <1>0, <1>2, <1>3, <2>1, <2>2, BottomUpType
<1>7. At(d)' = At(d) /\ At(d + 1)' = At(d + 1)
  BY <1>0 DEF N, At
<1>8. OwnChunks'
  BY <1>0, <1>3, OwnChunksKept
<1>9. StoresFit(d)'
  <2> SUFFICES ASSUME NEW s \in Workers, w'[s].pc = "store"
               PROVE  /\ w'[s].nb # <<>> /\ Head(w'[s].nb) \in At(d + 1) \cap Found
                      /\ w'[s].x = mem'.curr \cap Word(run.g, Head(w'[s].nb))
    BY <1>0, <1>4, <1>7 DEF StoresFit
  <2>1. s # t /\ w'[s] = w[s]
    BY <1>3 DEF Others
  <2>2. /\ w[s].nb # <<>> /\ Head(w[s].nb) \in At(d + 1) \cap Found
        /\ w[s].x = mem.curr \cap Word(run.g, Head(w[s].nb))
    BY <1>0, <2>1 DEF StoresFit
  <2>3. h \notin Word(run.g, Head(w[s].nb))
    BY <1>0, <2>1, <2>2, WordsApart
  <2> HIDE DEF h
  <2>4. mem'.curr \cap Word(run.g, Head(w[s].nb)) = mem.curr \cap Word(run.g, Head(w[s].nb))
    BY <1>2, <2>3
  <2> QED
    BY <2>1, <2>2, <2>4
<1>10. \A s \in Workers : \A v : Ahead(s, v) => Ahead(s, v)' \/ v = h
  BY <1>0, AheadAdvances
<1>11. \A s \in Workers : s # t /\ w[s].pc = "store" => w'[s] = w[s]
  BY <1>3 DEF Others
<1>12. NoneMissed(d)'
  <2> SUFFICES ASSUME NEW v \in At(d + 1)
               PROVE  IF v \in Found
                      THEN v \in mem'.curr \/ \E s \in Workers : w'[s].pc = "store" /\ Head(w'[s].nb) = v
                      ELSE (\E a \in todo : a \div BuChunk = v \div BuChunk) \/ \E s \in Workers : Ahead(s, v)'
    BY <1>0, <1>4, <1>7 DEF NoneMissed
  <2>1. CASE v = h
    BY <1>1, <1>2, <2>1
  <2>2. CASE v # h
    BY <1>0, <1>2, <1>10, <1>11, <2>2 DEF NoneMissed
  <2> QED
    BY <2>1, <2>2
<1>13. mem'.curr \subseteq At(d + 1) \cap Found
  BY <1>0, <1>1, <1>2 DEF BottomUpInv
<1>14. BottomUpInv(d)'
  BY <1>0, <1>2, <1>4, <1>7, <1>8, <1>9, <1>12, <1>13 DEF BottomUpInv
<1> QED
  BY <1>0, <1>4, <1>5, <1>6, <1>14, BottomUpKeeps

\* A thread leaves the bottom-up loop.
LEMMA BUEndLoopKeeps ==
  ASSUME NEW d \in Nat, BfsAt(d), phase = "bu", NEW t \in Workers, EndLoop(t)
  PROVE  BfsAt(d)'
<1>1. /\ run' = run /\ phase' = phase /\ todo' = todo /\ mem' = mem /\ w[t].pc = "grab" /\ Go(t, "end")
      /\ w \in [Workers -> BfsRecord]
  BY DEF EndLoop, LoopEnd, BfsAt, BfsType
<1>2. w' \in [Workers -> BfsRecord] /\ Others(t) /\ w'[t].pc = "end"
  BY <1>1, BfsWent DEF BfsPcs
<1> QED
  BY <1>1, <1>2, BULeaveKeeps

----------------------------------------------------------------------------
(* BitmapToQueue.                                                          *)

\* What is to be shown of a step of the loop.
LEMMA ToQueueKeeps ==
  ASSUME NEW d, BfsAt(d), phase = "b2q", phase' = phase, BfsType', Flushed',
         QueueInv(d)', ParentInv(d)', ToQueueInv(d)'
  PROVE  BfsAt(d)'
BY DEF BfsAt, TopDownInv, ToBitmapInv, BottomUpInv

\* One node: its bit is in the bitmap, or there is nothing to do.
LEMMA B2QNodeKeeps ==
  ASSUME NEW d \in Nat, BfsAt(d), phase = "b2q", NEW t \in Workers, B2QNode(t)
  PROVE  BfsAt(d)'
<1>0. /\ BfsType /\ Flushed /\ QueueInv(d) /\ ParentInv(d) /\ ToQueueInv(d)
      /\ w \in [Workers -> BfsRecord] /\ todo \subseteq N
      /\ mem.front = At(d) /\ \A v \in At(d) : v \in todo <=> ~Waiting(v)
  BY DEF BfsAt, BfsType, ToQueueInv
<1>1. PICK n \in todo :
        /\ todo' = todo \ {n} /\ mem' = IF n \in mem.front THEN push_back(mem, t, n) ELSE mem
        /\ run' = run /\ phase' = phase /\ w' = w /\ w[t].pc = "grab"
  BY DEF B2QNode
<1> DEFINE m == push_back(mem, t, n)
<1>2. N' = N /\ At(d)' = At(d) /\ n \in N
  BY <1>0, <1>1 DEF N, At
<1>3. CASE n \notin mem.front
  <2>1. mem' = mem
    BY <1>1, <1>3
  <2>2. ParentInv(d)' /\ Found' = Found
    BY <1>0, <1>1, <2>1, ParentKept DEF ParentInv
  <2>3. QueueInv(d)'
    BY <1>0, <1>1, <2>1, <2>2, QueueKept
  <2>4. BfsType'
    BY <1>0, <1>1, <1>2, <2>1 DEF BfsType, BfsRun
  <2>5. Flushed'
    BY <1>0, <1>1, <2>1 DEF Flushed
  <2>6. \A v : Waiting(v)' <=> Waiting(v)
    BY <2>1 DEF Waiting
  <2>7. ToQueueInv(d)'
    BY <1>0, <1>1, <1>2, <1>3, <2>1, <2>6 DEF ToQueueInv
  <2> QED
    BY <1>1, <2>2, <2>3, <2>4, <2>5, <2>7, ToQueueKeeps
<1>4. CASE n \in mem.front
  <2> DEFINE S == At(Pushing(d))
             e == mem.end
  <2>1. mem' = m
    BY <1>1, <1>4
  <2>2. n \in S /\ ~Waiting(n)
    BY <1>0, <1>4 DEF Pushing
  <2>3. e \in Nat /\ e <= Len(mem.queue) /\ Apart(mem.queue, mem.lq) /\ Past(mem.queue, mem.lq, e, S)
    BY <1>0 DEF QueueInv, BfsType
  <2> HIDE DEF S, e
  <2>4. /\ DOMAIN m = BfsFields
        /\ m.start = mem.start /\ m.end = mem.end /\ m.parent = mem.parent
        /\ m.front = mem.front /\ m.curr = mem.curr
        /\ m.queue \in Seq(N) /\ m.lq \in [Workers -> Seq(N)]
        /\ Apart(m.queue, m.lq) /\ Past(m.queue, m.lq, e, S)
        /\ \A x : Queued(m.queue, m.lq, x) <=> Waiting(x) \/ x = n
        /\ Len(mem.queue) <= Len(m.queue)
        /\ \A i \in 1 .. Len(mem.queue) : m.queue[i] = mem.queue[i]
        /\ \A s \in Workers : s # t => m.lq[s] = mem.lq[s]
    BY <1>0, <1>2, <2>2, <2>3, PushBack
  <2> HIDE DEF m
  <2>5. ParentInv(d)' /\ Found' = Found
    BY <1>0, <1>1, <2>1, <2>4, ParentKept DEF ParentInv
  <2>6. n \in Found
    <3>1. At(d) \subseteq UpTo(d)
      BY DEF At, UpTo
    <3> QED
      BY <1>0, <1>4, <3>1 DEF ParentInv
  <2>7. QueueInv(d)'
    <3>1. \A v \in N : Queued(mem'.queue, mem'.lq, v) => v \in Found'
      BY <1>0, <2>1, <2>4, <2>5, <2>6 DEF QueueInv
    <3>2. Past(mem'.queue, mem'.lq, mem.end, At(Pushing(d)))
      BY <2>1, <2>4 DEF S, e
    <3> QED
      BY <1>0, <1>1, <2>1, <2>4, <3>1, <3>2, QueueGrown
  <2>8. BfsType'
    <3>1. mem'.start \in Nat /\ mem'.end \in Nat /\ mem'.parent \in [N -> Int] /\ mem'.front \subseteq N /\ mem'.curr \subseteq N
      BY <1>0, <2>1, <2>4 DEF BfsType
    <3>2. run \in Runs /\ BfsRun /\ phase \in BfsPhases /\ \A s \in Workers : w[s].pc \in PcsOf[phase]
      BY <1>0 DEF BfsType
    <3> QED
      BY <1>0, <1>1, <1>2, <2>1, <2>4, <3>1, <3>2 DEF BfsType, BfsRun
  <2>9. Flushed'
    BY <1>0, <1>1, <2>1, <2>4 DEF Flushed
  <2>10. \A v : Waiting(v)' <=> Waiting(v) \/ v = n
    BY <2>1, <2>4 DEF Waiting
  <2>11. ToQueueInv(d)'
    BY <1>0, <1>1, <1>2, <2>1, <2>4, <2>10 DEF ToQueueInv
  <2> QED
    BY <1>1, <2>5, <2>7, <2>8, <2>9, <2>11, ToQueueKeeps
<1> QED
  BY <1>3, <1>4

\* A thread leaves the loop and flushes its buffer.
LEMMA B2QFlushKeeps ==
  ASSUME NEW d \in Nat, BfsAt(d), phase = "b2q", NEW t \in Workers, FlushAtEnd(t)
  PROVE  BfsAt(d)'
<1>1. /\ BfsType' /\ Flushed' /\ QueueInv(d)' /\ ParentInv(d)' /\ Found' = Found
      /\ run' = run /\ phase' = phase /\ todo' = todo /\ mem'.front = mem.front
      /\ \A v : Waiting(v)' <=> Waiting(v)
  BY BfsFlushes
<1>2. ToQueueInv(d)
  BY DEF BfsAt
<1>3. N' = N /\ At(d)' = At(d)
  BY <1>1 DEF N, At
<1>4. ToQueueInv(d)'
  BY <1>1, <1>2, <1>3 DEF ToQueueInv
<1> QED
  BY <1>1, <1>4, ToQueueKeeps

----------------------------------------------------------------------------
(* The serial steps.                                                       *)

\* The queue between two loops: the buffers are empty and the window ends where
\* the queue does.
LEMMA QueueReady ==
  ASSUME BfsType, NEW c, QueueInv(c), NEW d \in Nat, run' = run,
         mem'.queue = mem.queue, mem'.lq = mem.lq, \A t \in Workers : mem.lq[t] = <<>>,
         mem'.end = Len(mem.queue), mem'.start \in Nat, mem'.start <= mem'.end,
         \A i \in 1 .. mem'.start : run.ref[mem.queue[i]] <= IF phase' = "bu" THEN d ELSE d - 1,
         phase' \in {"bu", "b2q"} => mem'.start = mem'.end,
         phase' \in {"bfs_top", "td", "q2b"} => \A v \in N : v \in Window(mem)' <=> v \in At(d),
         \A v \in Found : v \in Found'
  PROVE  QueueInv(d)'
<1>1. N' = N /\ At(d)' = At(d) /\ Len(mem.queue) \in Nat
  BY LenProperties DEF N, At, BfsType
<1>2. \A t \in Workers : DOMAIN mem.lq[t] = {}
  OBVIOUS
<1>3. Past(mem.queue, mem.lq, Len(mem.queue), At(Pushing(d))')
  BY <1>1, <1>2 DEF Past
<1>4. Past(mem.queue, mem.lq, mem.end, At(Pushing(d)))'
  BY <1>3
<1>5. \A v \in N' : Waiting(v)' => v \in Found'
  BY <1>1 DEF Waiting, QueueInv
<1>6. Apart(mem.queue, mem.lq)'
  <2>1. Apart(mem.queue, mem.lq)
    BY DEF QueueInv
  <2> QED
    BY <2>1
<1>7. \A i \in 1 .. mem'.start : run'.ref[mem'.queue[i]] <= IF phase' = "bu" THEN d ELSE d - 1
  OBVIOUS
<1>8. mem'.start <= mem'.end /\ mem'.end = Len(mem'.queue) /\ Len(mem'.queue) \in Nat
  BY <1>1
<1> QED
  BY <1>1, <1>4, <1>5, <1>6, <1>7, <1>8 DEF QueueInv

\* What is in the queue at depth d: the nodes up to d - 1, then the window.
LEMMA WindowLast ==
  ASSUME NEW d \in Nat, BfsType, QueueInv(d), phase \in {"bfs_top", "td", "q2b"}
  PROVE  /\ \A i \in 1 .. mem.end : run.ref[mem.queue[i]] <= d
         /\ Window(mem) = At(d)
         /\ mem.start \in Nat /\ mem.end \in Nat /\ mem.start <= mem.end /\ mem.end <= Len(mem.queue)
         /\ Len(mem.queue) \in Nat
<1>1. /\ mem.start \in Nat /\ mem.end \in Nat /\ Len(mem.queue) \in Nat /\ mem.start <= mem.end /\ mem.end <= Len(mem.queue)
      /\ \A i \in 1 .. Len(mem.queue) : mem.queue[i] \in N
      /\ run.ref \in [N -> Nat \cup {-1}]
  BY LenProperties, ElementOfSeq, BfsGraph DEF BfsType, QueueInv
<1>2. Window(mem) \subseteq N
  BY <1>1 DEF Window
<1>3. Window(mem) = At(d)
  <2>1. At(d) \subseteq N
    BY DEF At
  <2> QED
    BY <1>2, <2>1 DEF QueueInv
<1>4. ASSUME NEW i \in 1 .. mem.end PROVE run.ref[mem.queue[i]] <= d
  <2>1. mem.queue[i] \in N /\ run.ref[mem.queue[i]] \in Int
    BY <1>1
  <2>2. CASE i <= mem.start
    <3>1. run.ref[mem.queue[i]] <= d - 1
      BY <1>1, <2>2 DEF QueueInv
    <3> QED
      BY <2>1, <3>1
  <2>3. CASE ~(i <= mem.start)
    <3>1. i \in mem.start + 1 .. mem.end
      BY <1>1, <2>3
    <3>2. mem.queue[i] \in Window(mem)
      BY <3>1 DEF Window
    <3> QED
      BY <1>3, <2>1, <3>2 DEF At
  <2> QED
    BY <2>2, <2>3
<1> QED
  BY <1>1, <1>3, <1>4

\* A level without a node is the last: there is none deeper.
LEMMA NoneDeeper ==
  ASSUME BfsType, NEW d \in Nat, At(d) = {}
  PROVE  \A v \in N : run.ref[v] # -1 => v \in UpTo(d)
<1> DEFINE T == {k \in Nat : k >= d /\ \E v \in N : run.ref[v] = k}
<1>1. run.ref \in [N -> Nat \cup {-1}]
  BY BfsGraph
<1>2. ASSUME T # {} PROVE FALSE
  <2>1. PICK k \in T : \A y \in T : k <= y
    BY <1>2, LeastOne
  <2>2. PICK v \in N : run.ref[v] = k
    BY <2>1
  <2>3. k \in Nat /\ k > d /\ k - 1 \in Nat
    BY <2>1, <2>2 DEF At
  <2>4. PICK u \in N : run.ref[v] = run.ref[u] + 1
    BY <2>2, <2>3, BfsGraph
  <2>5. run.ref[u] = k - 1
    BY <1>1, <2>2, <2>3, <2>4
  <2>6. k - 1 \in T
    BY <2>3, <2>5
  <2> QED
    BY <2>1, <2>3, <2>6
<1>3. ASSUME NEW v \in N, run.ref[v] # -1, v \notin UpTo(d) PROVE FALSE
  <2>1. run.ref[v] \in Nat
    BY <1>1, <1>3
  <2>2. run.ref[v] \in T
    BY <1>3, <2>1 DEF UpTo
  <2> QED
    BY <1>2, <2>2
<1> QED
  BY <1>3

\* The invariant of the run follows from what holds at a depth.
LEMMA BfsRight ==
  ASSUME BfsType, NEW d, QueueInv(d), ParentInv(d)
  PROVE  BfsInv
<1>1. IsInjective(mem.queue)
  BY DEF QueueInv, Apart, IsInjective
<1>2. DOMAIN mem.queue = 1 .. Len(mem.queue) /\ \A i \in 1 .. Len(mem.queue) : mem.queue[i] \in N
  BY LenProperties, ElementOfSeq DEF BfsType
<1>3. \A i \in 1 .. Len(mem.queue) : mem.parent[mem.queue[i]] >= 0
  BY <1>2 DEF QueueInv, Waiting, Queued, Found
<1>4. \A v \in Nodes(run.g) : mem.parent[v] >= 0 /\ v # run.source =>
            /\ Edge(run.g, mem.parent[v], v)
            /\ run.ref[v] = run.ref[mem.parent[v]] + 1
  BY DEF ParentInv, Found, N
<1> QED
  BY <1>1, <1>3, <1>4 DEF BfsInv

\* The search ends: a negative parent is made -1.
LEMMA BfsEnds ==
  ASSUME NEW d \in Nat, BfsAt(d), phase = "bfs_top", DOBFS, QueueEmpty(mem)
  PROVE  BfsAt(d)'
<1>0. BfsType /\ QueueInv(d) /\ ParentInv(d) /\ mem.parent \in [N -> Int]
  BY DEF BfsAt, BfsType
<1>1. /\ mem' = [mem EXCEPT !.parent = [n \in DOMAIN @ |-> IF @[n] < -1 THEN -1 ELSE @[n]]]
      /\ StartLoop("done", {})
  BY DEF DOBFS
<1>2. /\ DOMAIN mem' = BfsFields /\ mem'.queue = mem.queue /\ mem'.lq = mem.lq
      /\ mem'.start = mem.start /\ mem'.end = mem.end /\ mem'.front = mem.front /\ mem'.curr = mem.curr
      /\ mem'.parent = [n \in N |-> IF mem.parent[n] < -1 THEN -1 ELSE mem.parent[n]]
  BY <1>0, <1>1 DEF BfsType, BfsFields
<1>3. BfsType' /\ Flushed' /\ run' = run /\ phase' = "done"
  <2>1. "done" \in BfsPhases /\ {} \subseteq N /\ mem'.parent \in [N -> Int]
    BY <1>0, <1>2 DEF BfsPhases
  <2>2. mem'.start \in Nat /\ mem'.end \in Nat /\ mem'.front \subseteq N /\ mem'.curr \subseteq N
    BY <1>0, <1>2 DEF BfsType
  <2> QED
    BY <1>0, <1>1, <1>2, <2>1, <2>2, BfsStarts
<1>4. N' = N
  BY <1>3 DEF N
<1>5. \A v \in N : mem.parent[v] \in Int /\ (mem'.parent[v] >= 0 <=> mem.parent[v] >= 0)
                   /\ (mem.parent[v] >= 0 => mem'.parent[v] = mem.parent[v])
                   /\ (~(mem.parent[v] >= 0) => mem'.parent[v] = -1)
  BY <1>0, <1>2
<1>6. Found = UpTo(d)
  BY <1>0 DEF ParentInv
<1>7. At(d) = {}
  <2>1. Window(mem) = {}
    BY <1>0 DEF QueueEmpty, Window, BfsType
  <2> QED
    BY <1>0, <2>1, WindowLast
<1>8. DoneInv'
  <2> SUFFICES ASSUME NEW v \in N
               PROVE  IF run.ref[v] = -1 THEN mem'.parent[v] = -1 ELSE mem'.parent[v] >= 0
    BY <1>3, <1>4 DEF DoneInv
  <2>1. CASE run.ref[v] = -1
    <3>1. v \notin Found
      BY <1>6, <2>1 DEF UpTo
    <3> QED
      BY <1>5, <2>1, <3>1 DEF Found
  <2>2. CASE run.ref[v] # -1
    <3>1. v \in Found
      BY <1>0, <1>6, <1>7, <2>2, NoneDeeper
    <3> QED
      BY <1>5, <2>2, <3>1 DEF Found
  <2> QED
    BY <2>1, <2>2
<1>9. BfsInv'
  <2>1. BfsInv
    BY <1>0, BfsRight
  <2>2. \A i \in 1 .. Len(mem.queue) : mem'.parent[mem.queue[i]] >= 0
    <3>1. \A i \in 1 .. Len(mem.queue) : mem.queue[i] \in N
      BY <1>0, LenProperties, ElementOfSeq DEF BfsType
    <3> QED
      BY <1>5, <2>1, <3>1 DEF BfsInv
  <2>3. \A v \in N : mem'.parent[v] >= 0 /\ v # run.source =>
            /\ Edge(run.g, mem'.parent[v], v)
            /\ run.ref[v] = run.ref[mem'.parent[v]] + 1
    BY <1>5, <2>1 DEF BfsInv, N
  <2>4. Nodes(run'.g) = N
    BY <1>3 DEF N
  <2> QED
    BY <1>2, <1>3, <2>1, <2>2, <2>3, <2>4 DEF BfsInv
<1> QED
  BY <1>3, <1>8, <1>9 DEF BfsAt

\* The window goes to the next loop.
LEMMA WindowTaken ==
  ASSUME NEW d \in Nat, BfsAt(d), phase = "bfs_top", NEW p \in {"td", "q2b"}, StartLoop(p, Window(mem)),
         DOMAIN mem' = BfsFields, mem'.queue = mem.queue, mem'.lq = mem.lq,
         mem'.start = mem.start, mem'.end = mem.end,
         mem'.parent = mem.parent, mem'.front = mem.front, mem'.curr = mem.curr
  PROVE  BfsAt(d)'
<1>0. BfsType /\ QueueInv(d) /\ ParentInv(d) /\ \A t \in Workers : mem.lq[t] = <<>>
  BY DEF BfsAt, QueueInv
<1>1. /\ \A i \in 1 .. mem.end : run.ref[mem.queue[i]] <= d
      /\ Window(mem) = At(d)
      /\ mem.start \in Nat /\ mem.end \in Nat /\ mem.start <= mem.end /\ mem.end = Len(mem.queue)
  BY <1>0, WindowLast DEF QueueInv
<1>2. /\ BfsType' /\ Flushed' /\ run' = run /\ phase' = p /\ todo' = At(d)
      /\ \A t \in Workers : w'[t].pc = "grab"
  <2>1. p \in BfsPhases /\ At(d) \subseteq N
    BY DEF BfsPhases, At
  <2>2. mem'.start \in Nat /\ mem'.end \in Nat /\ mem'.parent \in [N -> Int] /\ mem'.front \subseteq N /\ mem'.curr \subseteq N
    BY <1>0 DEF BfsType
  <2> QED
    BY <1>0, <1>1, <2>1, <2>2, BfsStarts
<1>3. N' = N /\ At(d)' = At(d) /\ UpTo(d)' = UpTo(d) /\ UpTo(d + 1)' = UpTo(d + 1) /\ Found' = Found
  BY <1>2 DEF N, At, UpTo, Found
<1>4. QueueInv(d)'
  <2>1. \A i \in 1 .. mem'.start : run.ref[mem.queue[i]] <= d - 1
    BY <1>0 DEF QueueInv
  <2>2. \A v \in N : v \in Window(mem)' <=> v \in At(d)
    BY <1>1 DEF Window
  <2> QED
    BY <1>0, <1>1, <1>2, <1>3, <2>1, <2>2, QueueReady
<1>5. Found \subseteq UpTo(d) /\ UpTo(d) \subseteq UpTo(d + 1)
  BY <1>0, BfsGraph DEF ParentInv, UpTo
<1>6. ParentInv(d)'
  BY <1>0, <1>2, <1>3, <1>5 DEF ParentInv
<1>7. TopDownInv(d)'
  <2>1. \A v \in Found : run.ref[v] # d + 1
    BY <1>5 DEF UpTo
  <2> QED
    BY <1>2, <1>3, <2>1 DEF TopDownInv
<1>8. ToBitmapInv(d)'
  BY <1>2, <1>3 DEF ToBitmapInv
<1>9. BottomUpInv(d)' /\ ToQueueInv(d)'
  BY <1>2 DEF BottomUpInv, ToQueueInv
<1> QED
  BY <1>2, <1>4, <1>6, <1>7, <1>8, <1>9 DEF BfsAt

\* The turn of the main loop chooses the next kind of step or ends.
LEMMA DOBFSKeeps ==
  ASSUME NEW d \in Nat, BfsAt(d), DOBFS
  PROVE  BfsAt(d)'
<1>0. phase = "bfs_top" /\ DOMAIN mem = BfsFields
  BY DEF DOBFS, BfsAt, BfsType
<1>1. CASE QueueEmpty(mem)
  BY <1>0, <1>1, BfsEnds
<1>2. CASE ~QueueEmpty(mem) /\ mem.scout_count > mem.edges_to_check \div run.alpha
  <2>1. StartLoop("q2b", Window(mem)) /\ mem' = mem
    BY <1>2 DEF DOBFS
  <2> QED
    BY <1>0, <2>1, WindowTaken
<1>3. CASE ~QueueEmpty(mem) /\ ~(mem.scout_count > mem.edges_to_check \div run.alpha)
  <2>1. /\ mem' = [mem EXCEPT !.edges_to_check = @ - mem.scout_count, !.scout_count = 0]
        /\ StartLoop("td", Window(mem))
    BY <1>3 DEF DOBFS
  <2>2. /\ DOMAIN mem' = BfsFields /\ mem'.queue = mem.queue /\ mem'.lq = mem.lq
        /\ mem'.start = mem.start /\ mem'.end = mem.end
        /\ mem'.parent = mem.parent /\ mem'.front = mem.front /\ mem'.curr = mem.curr
    BY <1>0, <2>1 DEF BfsFields
  <2> QED
    BY <1>0, <2>1, <2>2, WindowTaken
<1> QED
  BY <1>1, <1>2, <1>3

\* A bottom-up loop starts at depth d: no node of the next level has been looked at.
LEMMA BottomUpStarts ==
  ASSUME NEW c, BfsType, QueueInv(c), ParentInv(c), NEW d \in Nat, \A t \in Workers : mem.lq[t] = <<>>,
         Found = UpTo(d), \A i \in 1 .. Len(mem.queue) : run.ref[mem.queue[i]] <= d,
         StartLoop("bu", Chunks(run.g)),
         DOMAIN mem' = BfsFields, mem'.queue = mem.queue, mem'.lq = mem.lq,
         mem'.start = Len(mem.queue), mem'.end = Len(mem.queue),
         mem'.parent = mem.parent, mem'.curr = {}, At(d) \subseteq mem'.front, mem'.front \subseteq UpTo(d)
  PROVE  BfsAt(d)'
<1>0. N \subseteq Nat /\ run.ref \in [N -> Nat \cup {-1}] /\ Len(mem.queue) \in Nat
  BY BfsGraph, LenProperties DEF BfsType
<1>1. /\ BfsType' /\ Flushed' /\ run' = run /\ phase' = "bu" /\ todo' = Chunks(run.g)
      /\ \A t \in Workers : w'[t].pc = "grab"
  <2>1. "bu" \in BfsPhases /\ Chunks(run.g) \subseteq N
    BY DEF BfsPhases, Chunks, N
  <2>2. /\ mem'.start \in Nat /\ mem'.end \in Nat /\ mem'.parent \in [N -> Int]
        /\ mem'.front \subseteq N /\ mem'.curr \subseteq N
    BY <1>0 DEF BfsType, UpTo
  <2> QED
    BY <2>1, <2>2, BfsStarts
<1>2. N' = N /\ At(d)' = At(d) /\ At(d + 1)' = At(d + 1) /\ UpTo(d)' = UpTo(d) /\ UpTo(d + 1)' = UpTo(d + 1)
      /\ Found' = Found
  BY <1>1 DEF N, At, UpTo, Found
<1>3. QueueInv(d)'
  BY <1>0, <1>1, <1>2, QueueReady
<1>4. ParentInv(d)'
  <2>1. UpTo(d) \subseteq UpTo(d + 1)
    <3> SUFFICES ASSUME NEW v \in UpTo(d) PROVE v \in UpTo(d + 1)
      OBVIOUS
    <3>1. v \in N /\ run.ref[v] \in Int /\ run.ref[v] >= 0 /\ run.ref[v] <= d
      BY <1>0 DEF UpTo
    <3> QED
      BY <3>1 DEF UpTo
  <2> QED
    BY <1>1, <1>2, <2>1 DEF ParentInv
<1>5. ASSUME NEW v \in At(d + 1)
      PROVE  v \notin Found /\ \E a \in Chunks(run.g) : a \div BuChunk = v \div BuChunk
  <2>1. v \in N /\ run.ref[v] = d + 1
    BY DEF At
  <2>2. v \notin Found
    BY <2>1 DEF UpTo
  <2>3. PICK a \in Nat : a <= v /\ a % BuChunk = 0 /\ a \div BuChunk = v \div BuChunk
    BY <1>0, <2>1, ChunkHead
  <2>4. a \in N
    <3>1. run.g.n \in Nat /\ N = 0 .. run.g.n - 1
      BY RunsAssumption DEF BfsType, BfsRun, IsGraph, N, Nodes
    <3> QED
      BY <2>1, <2>3, <3>1
  <2>5. a \in Chunks(run.g)
    BY <2>3, <2>4 DEF Chunks, N
  <2> QED
    BY <2>2, <2>3, <2>5
<1>6. NoneMissed(d)'
  BY <1>1, <1>2, <1>5 DEF NoneMissed
<1>7. OwnChunks' /\ StoresFit(d)'
  BY <1>1 DEF OwnChunks, StoresFit
<1>8. BottomUpInv(d)'
  BY <1>1, <1>2, <1>6, <1>7 DEF BottomUpInv
<1> QED
  BY <1>1, <1>3, <1>4, <1>8 DEF BfsAt, TopDownInv, ToBitmapInv, ToQueueInv

\* From the bitmap of the window into the first bottom-up loop.
LEMMA Q2BEndKeeps ==
  ASSUME NEW d \in Nat, BfsAt(d), Q2BEnd
  PROVE  BfsAt(d)'
<1>0. /\ phase = "q2b" /\ AllEnd /\ BfsType /\ QueueInv(d) /\ ParentInv(d) /\ ToBitmapInv(d)
      /\ \A t \in Workers : mem.lq[t] = <<>>
  BY DEF Q2BEnd, BfsAt, QueueInv
<1> DEFINE m == [slide_window(mem) EXCEPT !.awake_count = mem.end - mem.start]
<1>1. EnterBU(m)
  BY DEF Q2BEnd
<1>2. /\ DOMAIN m = BfsFields /\ m.queue = mem.queue /\ m.lq = mem.lq
      /\ m.start = mem.end /\ m.end = Len(mem.queue)
      /\ m.parent = mem.parent /\ m.front = mem.front
  BY <1>0 DEF slide_window, BfsFields, BfsType
<1> HIDE DEF m
<1>3. /\ DOMAIN mem' = BfsFields /\ mem'.queue = mem.queue /\ mem'.lq = mem.lq
      /\ mem'.start = mem.end /\ mem'.end = Len(mem.queue)
      /\ mem'.parent = mem.parent /\ mem'.front = mem.front /\ mem'.curr = {}
      /\ StartLoop("bu", Chunks(run.g))
  BY <1>1, <1>2 DEF EnterBU, BfsFields
<1>4. mem.end = Len(mem.queue) /\ \A i \in 1 .. Len(mem.queue) : run.ref[mem.queue[i]] <= d
  BY <1>0, WindowLast DEF QueueInv
<1>5. At(d) \subseteq mem.front
  BY <1>0 DEF ToBitmapInv, AllEnd
<1>6. Found = UpTo(d) /\ mem.front \subseteq UpTo(d)
  BY <1>0 DEF ParentInv
<1> QED
  BY <1>0, <1>3, <1>4, <1>5, <1>6, BottomUpStarts

\* At the end of a bottom-up loop the new bitmap is the next level, all of it found.
LEMMA BUFindsAll ==
  ASSUME NEW d \in Nat, BfsAt(d), phase = "bu", AllEnd
  PROVE  mem.curr = At(d + 1) /\ Found = UpTo(d + 1)
<1>0. BfsType /\ ParentInv(d) /\ BottomUpInv(d) /\ NoneMissed(d)
  BY DEF BfsAt, BottomUpInv
<1>1. ASSUME NEW v \in At(d + 1) PROVE v \in Found /\ v \in mem.curr
  BY <1>0 DEF NoneMissed, AllEnd, Ahead
<1>2. mem.curr = At(d + 1)
  BY <1>0, <1>1 DEF BottomUpInv
<1>3. UpTo(d + 1) \subseteq UpTo(d) \cup At(d + 1)
  BY <1>0, BfsGraph DEF UpTo, At
<1>4. Found = UpTo(d + 1)
  BY <1>0, <1>1, <1>3 DEF ParentInv
<1> QED
  BY <1>2, <1>4

\* Another bottom-up loop, or back into the queue, one level deeper.
LEMMA BUEndKeeps ==
  ASSUME NEW d \in Nat, BfsAt(d), BUEnd
  PROVE  BfsAt(d + 1)'
<1>0. /\ phase = "bu" /\ AllEnd /\ BfsType /\ QueueInv(d) /\ ParentInv(d)
      /\ \A t \in Workers : mem.lq[t] = <<>>
  BY DEF BUEnd, BfsAt, QueueInv
<1> DEFINE m == [mem EXCEPT !.front = mem.curr, !.curr = mem.front]
<1>1. /\ DOMAIN m = BfsFields /\ m.queue = mem.queue /\ m.lq = mem.lq
      /\ m.start = mem.start /\ m.end = mem.end
      /\ m.parent = mem.parent /\ m.front = mem.curr /\ m.curr = mem.front
  BY <1>0 DEF BfsFields, BfsType
<1>2. EnterBU(m) \/ (mem' = m /\ StartLoop("b2q", Nodes(run.g)))
  BY DEF BUEnd
<1> HIDE DEF m
<1>3. mem.curr = At(d + 1) /\ Found = UpTo(d + 1) /\ At(d + 1) \subseteq UpTo(d + 1)
  BY <1>0, BUFindsAll DEF At, UpTo
<1>4. /\ Len(mem.queue) \in Nat /\ mem.start = Len(mem.queue) /\ mem.end = Len(mem.queue)
      /\ \A i \in 1 .. Len(mem.queue) : run.ref[mem.queue[i]] <= d
  BY <1>0, LenProperties DEF QueueInv, BfsType
<1>5. \A i \in 1 .. Len(mem.queue) : mem.queue[i] \in N /\ run.ref[mem.queue[i]] <= d + 1
  <2>1. \A i \in 1 .. Len(mem.queue) : mem.queue[i] \in N
    BY <1>0, LenProperties, ElementOfSeq DEF BfsType
  <2>2. \A v \in N : run.ref[v] \in Int
    BY <1>0, BfsGraph
  <2> QED
    BY <1>4, <2>1, <2>2
<1>6. CASE EnterBU(m)
  <2>1. /\ DOMAIN mem' = BfsFields /\ mem'.queue = mem.queue /\ mem'.lq = mem.lq
        /\ mem'.start = Len(mem.queue) /\ mem'.end = Len(mem.queue)
        /\ mem'.parent = mem.parent /\ mem'.front = At(d + 1) /\ mem'.curr = {}
        /\ StartLoop("bu", Chunks(run.g))
    BY <1>1, <1>3, <1>4, <1>6 DEF EnterBU, BfsFields
  <2> DEFINE k == d + 1
  <2>2. /\ k \in Nat /\ Found = UpTo(k) /\ mem'.front = At(k) /\ At(k) \subseteq UpTo(k)
        /\ \A i \in 1 .. Len(mem.queue) : run.ref[mem.queue[i]] <= k
    BY <1>3, <1>5, <2>1
  <2> HIDE DEF k
  <2>3. BfsAt(k)'
    BY <1>0, <2>1, <2>2, BottomUpStarts
  <2> QED
    BY <2>3 DEF k
<1>7. CASE mem' = m /\ StartLoop("b2q", Nodes(run.g))
  <2>1. /\ DOMAIN mem' = BfsFields /\ mem'.queue = mem.queue /\ mem'.lq = mem.lq
        /\ mem'.start = Len(mem.queue) /\ mem'.end = Len(mem.queue)
        /\ mem'.parent = mem.parent /\ mem'.front = At(d + 1) /\ mem'.curr = mem.front
    BY <1>1, <1>3, <1>4, <1>7
  <2>2. BfsType' /\ Flushed' /\ run' = run /\ phase' = "b2q" /\ todo' = N
    <3>1. "b2q" \in BfsPhases /\ Nodes(run.g) = N /\ N \subseteq N
      BY DEF BfsPhases, N
    <3>2. /\ mem'.start \in Nat /\ mem'.end \in Nat /\ mem'.parent \in [N -> Int]
          /\ mem'.front \subseteq N /\ mem'.curr \subseteq N
      BY <1>0, <1>4, <2>1 DEF BfsType, At
    <3> QED
      BY <1>0, <1>7, <2>1, <3>1, <3>2, BfsStarts
  <2>3. N' = N /\ At(d + 1)' = At(d + 1) /\ UpTo(d + 1)' = UpTo(d + 1) /\ Found' = Found
    BY <2>1, <2>2 DEF N, At, UpTo, Found
  <2>4. QueueInv(d + 1)'
    <3>1. d + 1 \in Nat /\ (d + 1) - 1 = d
      OBVIOUS
    <3>2. \A v \in Found : v \in Found'
      BY <2>3
    <3>3. \A i \in 1 .. mem'.start : run.ref[mem.queue[i]] <= (d + 1) - 1
      BY <1>4, <2>1
    <3> QED
      BY <1>0, <1>4, <2>1, <2>2, <3>1, <3>2, <3>3, QueueReady
  <2>5. ParentInv(d + 1)'
    BY <1>0, <1>3, <2>1, <2>2, <2>3 DEF ParentInv
  <2>6. ASSUME NEW v \in At(d + 1) PROVE v \in N /\ ~Queued(mem'.queue, mem'.lq, v)
    <3>1. v \in N /\ run.ref[v] = d + 1
      BY DEF At
    <3>2. \A i \in DOMAIN mem.queue : mem.queue[i] # v
      <4>1. DOMAIN mem.queue = 1 .. Len(mem.queue)
        BY <1>0, LenProperties DEF BfsType
      <4> QED
        BY <1>4, <3>1, <4>1
    <3>3. \A t \in Workers : DOMAIN mem.lq[t] = {}
      BY <1>0
    <3> QED
      BY <2>1, <3>1, <3>2, <3>3 DEF Queued
  <2>7. ToQueueInv(d + 1)'
    BY <2>1, <2>2, <2>3, <2>6 DEF ToQueueInv, Waiting
  <2> QED
    BY <2>2, <2>4, <2>5, <2>7 DEF BfsAt, TopDownInv, ToBitmapInv, BottomUpInv
<1> QED
  BY <1>2, <1>6, <1>7

\* What the loop has put into the queue is the next window.
LEMMA B2QEndKeeps ==
  ASSUME NEW d \in Nat, BfsAt(d), B2QEnd
  PROVE  BfsAt(d)'
<1>0. /\ phase = "b2q" /\ AllEnd /\ BfsType /\ Flushed /\ QueueInv(d) /\ ParentInv(d) /\ ToQueueInv(d)
      /\ mem' = [slide_window(mem) EXCEPT !.scout_count = 1] /\ StartLoop("bfs_top", {})
  BY DEF B2QEnd, BfsAt
<1>1. /\ DOMAIN mem' = BfsFields /\ mem'.queue = mem.queue /\ mem'.lq = mem.lq
      /\ mem'.start = mem.end /\ mem'.end = Len(mem.queue)
      /\ mem'.parent = mem.parent /\ mem'.front = mem.front /\ mem'.curr = mem.curr
  BY <1>0 DEF slide_window, BfsFields, BfsType
<1>2. /\ mem.end \in Nat /\ Len(mem.queue) \in Nat /\ mem.start = mem.end /\ mem.end <= Len(mem.queue)
      /\ DOMAIN mem.queue = 1 .. Len(mem.queue) /\ \A i \in 1 .. Len(mem.queue) : mem.queue[i] \in N
      /\ run.ref \in [N -> Nat \cup {-1}]
  BY <1>0, LenProperties, ElementOfSeq, BfsGraph DEF BfsType, QueueInv
<1>3. BfsType' /\ Flushed' /\ run' = run /\ phase' = "bfs_top"
  <2>1. /\ "bfs_top" \in BfsPhases /\ {} \subseteq N
        /\ mem'.start \in Nat /\ mem'.end \in Nat
        /\ mem'.parent \in [N -> Int] /\ mem'.front \subseteq N /\ mem'.curr \subseteq N
    BY <1>0, <1>1, <1>2 DEF BfsPhases, BfsType
  <2> QED
    BY <1>0, <1>1, <2>1, BfsStarts
<1>4. Found' = Found /\ N' = N /\ At(d)' = At(d) /\ UpTo(d)' = UpTo(d)
  BY <1>1, <1>3 DEF Found, N, At, UpTo
<1>5. \A t \in Workers : mem.lq[t] = <<>> /\ DOMAIN mem.lq[t] = {}
  BY <1>0, AllFlushed
<1>6. \A i \in 1 .. mem.end : run.ref[mem.queue[i]] <= d - 1
  BY <1>0, <1>2 DEF QueueInv
<1>7. \A v \in N : v \in Window(mem)' <=> v \in At(d)
  <2>1. \A v \in N : v \in Window(mem)' <=> \E i \in mem.end + 1 .. Len(mem.queue) : mem.queue[i] = v
    BY <1>1 DEF Window
  <2>2. \A i \in mem.end + 1 .. Len(mem.queue) : mem.queue[i] \in At(d)
    BY <1>0 DEF QueueInv, Past, Pushing
  <2>3. ASSUME NEW v \in At(d) PROVE \E i \in mem.end + 1 .. Len(mem.queue) : mem.queue[i] = v
    <3>1. run.ref[v] = d
      BY DEF At
    <3>2. Waiting(v)
      BY <1>0 DEF ToQueueInv, AllEnd
    <3>3. PICK i \in 1 .. Len(mem.queue) : mem.queue[i] = v
      BY <1>2, <1>5, <3>2 DEF Waiting, Queued
    <3>4. ~(i <= mem.end)
      BY <1>2, <1>6, <3>1, <3>3
    <3> QED
      BY <1>2, <3>3, <3>4
  <2> QED
    BY <2>1, <2>2, <2>3
<1>8. QueueInv(d)'
  BY <1>0, <1>1, <1>2, <1>3, <1>4, <1>5, <1>6, <1>7, QueueReady
<1>9. ParentInv(d)'
  BY <1>0, <1>1, <1>3, <1>4 DEF ParentInv
<1> QED
  BY <1>3, <1>8, <1>9 DEF BfsAt, TopDownInv, ToBitmapInv, BottomUpInv, ToQueueInv

----------------------------------------------------------------------------
(* The whole search.                                                       *)

\* At the start the source is found and in the queue.
LEMMA BfsInit ==
  ASSUME Init, BfsRun
  PROVE  BfsAt(0)
<1>1. /\ run \in Runs /\ run.kernel = "bfs" /\ todo = {} /\ w = [t \in Workers |-> Free]
      /\ phase = "bfs_top" /\ mem = BfsMem(run)
  BY DEF Init, BfsRun, FirstPhase
<1>2. IsGraph(run.g) /\ run.source \in N
  BY <1>1, RunsAssumption DEF N
<1>3. run.g.n \in Nat /\ N = 0 .. run.g.n - 1 /\ N \subseteq Int
  BY <1>2 DEF IsGraph, N, Nodes
<1>4. \A n \in N : out_degree(run.g, n) \in Nat
  <2> SUFFICES ASSUME NEW n \in N PROVE out_degree(run.g, n) \in Nat
    OBVIOUS
  <2>1. n + 1 \in 1 .. run.g.n
    BY <1>3
  <2>2. run.g.out[n + 1] \in Seq(N)
    BY <1>2, <2>1 DEF IsGraph, N
  <2> QED
    BY <2>2, LenProperties DEF out_degree, out_neigh
<1>5. /\ DOMAIN mem = BfsFields /\ mem.queue = <<run.source>> /\ mem.start = 0 /\ mem.end = 1
      /\ mem.lq = [t \in Workers |-> <<>>] /\ mem.front = {} /\ mem.curr = {}
      /\ mem.parent = [n \in N |-> IF n = run.source THEN n
                                   ELSE IF out_degree(run.g, n) # 0 THEN - out_degree(run.g, n) ELSE -1]
  BY <1>1 DEF BfsMem, Queue, BfsFields, N
<1>6. \A v \in N : mem.parent[v] \in Int /\ (mem.parent[v] >= 0 <=> v = run.source)
  BY <1>2, <1>3, <1>4, <1>5
<1>7. mem.parent[run.source] = run.source /\ Found = {run.source}
  BY <1>2, <1>5, <1>6 DEF Found
<1>8. /\ mem.queue \in Seq(N) /\ Len(mem.queue) = 1 /\ DOMAIN mem.queue = {1} /\ mem.queue[1] = run.source
  BY <1>2, <1>5
<1>9. mem.lq \in [Workers -> Seq(N)] /\ \A t \in Workers : mem.lq[t] = <<>> /\ DOMAIN mem.lq[t] = {}
  BY <1>5, EmptySeq
<1>10. BfsType
  <2>1. w \in [Workers -> BfsRecord] /\ \A t \in Workers : w[t].pc = "grab"
    BY <1>1, BfsRecords
  <2>2. "bfs_top" \in BfsPhases /\ PcsOf["bfs_top"] = {"grab"}
    BY DEF BfsPhases, PcsOf
  <2>3. mem.parent \in [N -> Int]
    BY <1>5, <1>6
  <2> QED
    BY <1>1, <1>5, <1>8, <1>9, <2>1, <2>2, <2>3 DEF BfsType, BfsRun
<1>11. At(0) = {run.source} /\ UpTo(0) = {run.source}
  BY <1>10, BfsGraph DEF At, UpTo
<1>12. Window(mem) = {run.source}
  BY <1>5, <1>8 DEF Window
<1>13. Apart(mem.queue, mem.lq) /\ Past(mem.queue, mem.lq, mem.end, At(Pushing(0)))
  BY <1>5, <1>8, <1>9 DEF Apart, Past
<1>14. \A v \in N : Waiting(v) => v \in Found
  BY <1>7, <1>8, <1>9 DEF Waiting, Queued
<1>15. QueueInv(0)
  BY <1>1, <1>5, <1>8, <1>9, <1>11, <1>12, <1>13, <1>14 DEF QueueInv
<1>16. ParentInv(0)
  BY <1>1, <1>2, <1>5, <1>7, <1>11 DEF ParentInv
<1>17. Flushed
  BY <1>9 DEF Flushed
<1> QED
  BY <1>1, <1>10, <1>15, <1>16, <1>17 DEF BfsAt, TopDownInv, ToBitmapInv, BottomUpInv, ToQueueInv

\* The invariant is a state predicate of the variables.
LEMMA BfsStutter ==
  ASSUME NEW d \in Nat, BfsAt(d), UNCHANGED vars
  PROVE  BfsAt(d)'
<1>0. run' = run /\ phase' = phase /\ todo' = todo /\ w' = w /\ mem' = mem /\ N' = N
  BY DEF vars, N
<1>1. Found' = Found /\ At(d)' = At(d) /\ At(d + 1)' = At(d + 1)
  BY <1>0 DEF Found, At
<1>2. BfsType' /\ Flushed'
  BY <1>0 DEF BfsAt, BfsType, BfsRun, Flushed
<1>3. CASE phase = "done"
  <2>1. DoneInv' /\ BfsInv'
    BY <1>0, <1>3 DEF BfsAt, DoneInv, BfsInv
  <2> QED
    BY <1>0, <1>2, <1>3, <2>1 DEF BfsAt
<1>4. CASE phase # "done"
  <2>0. QueueInv(d) /\ ParentInv(d) /\ TopDownInv(d) /\ ToBitmapInv(d) /\ BottomUpInv(d) /\ ToQueueInv(d)
    BY <1>4 DEF BfsAt
  <2>1. ParentInv(d)'
    BY <1>0, <2>0, ParentKept DEF ParentInv
  <2>2. QueueInv(d)'
    BY <1>0, <1>1, <2>0, QueueKept
  <2>3. TopDownInv(d)'
    <3>1. \A u, v : Pending(u, v)' <=> Pending(u, v)
      BY <1>0 DEF Pending
    <3>2. \A v : Waiting(v)' <=> Waiting(v)
      BY <1>0 DEF Waiting
    <3> QED
      BY <1>0, <1>1, <2>0, <3>1, <3>2 DEF TopDownInv
  <2>4. ToBitmapInv(d)'
    BY <1>0, <1>1, <2>0 DEF ToBitmapInv
  <2>5. BottomUpInv(d)'
    <3>1. \A s, v : Ahead(s, v)' <=> Ahead(s, v)
      BY <1>0 DEF Ahead
    <3>2. OwnChunks => OwnChunks'
      BY <1>0 DEF OwnChunks
    <3>3. StoresFit(d) => StoresFit(d)'
      BY <1>0, <1>1 DEF StoresFit
    <3>4. NoneMissed(d) => NoneMissed(d)'
      BY <1>0, <1>1, <3>1 DEF NoneMissed
    <3> QED
      BY <1>0, <1>1, <2>0, <3>2, <3>3, <3>4 DEF BottomUpInv
  <2>6. ToQueueInv(d)'
    <3>1. \A v : Waiting(v)' <=> Waiting(v)
      BY <1>0 DEF Waiting
    <3> QED
      BY <1>0, <1>1, <2>0, <3>1 DEF ToQueueInv
  <2> QED
    BY <1>0, <1>2, <1>4, <2>1, <2>2, <2>3, <2>4, <2>5, <2>6 DEF BfsAt
<1> QED
  BY <1>3, <1>4

\* A step of a thread stays at its depth.
LEMMA BfsStepKeeps ==
  ASSUME NEW d \in Nat, BfsAt(d), NEW t \in Workers, BfsStep(t)
  PROVE  BfsAt(d)'
<1>1. CASE TDGrab(t)
  BY <1>1, TDGrabKeeps DEF TDGrab
<1>2. CASE TDRead(t)
  BY <1>2, TDReadKeeps DEF TDRead
<1>3. CASE TDCas(t)
  BY <1>3, TDCasKeeps DEF TDCas
<1>4. CASE Q2BGrab(t) \/ Q2BRead(t) \/ Q2BCas(t)
  BY <1>4, ToBitmapStep DEF Q2BGrab, Q2BRead, Q2BCas
<1>5. CASE BUGrab(t)
  BY <1>5, BUGrabKeeps DEF BUGrab
<1>6. CASE BUNode(t)
  BY <1>6, BUNodeKeeps DEF BUNode
<1>7. CASE BUStore(t)
  BY <1>7, BUStoreKeeps DEF BUStore
<1>8. CASE B2QNode(t)
  BY <1>8, B2QNodeKeeps DEF B2QNode
<1>9. CASE phase \in {"td", "b2q"} /\ FlushAtEnd(t)
  BY <1>9, TDFlushKeeps, B2QFlushKeeps
<1>10. CASE phase \in {"q2b", "bu"} /\ EndLoop(t)
  BY <1>10, ToBitmapStep, BUEndLoopKeeps
<1> QED
  BY <1>1, <1>2, <1>3, <1>4, <1>5, <1>6, <1>7, <1>8, <1>9, <1>10 DEF BfsStep

\* A serial step stays at its depth or goes on to the next.
LEMMA BfsSerialKeeps ==
  ASSUME NEW d \in Nat, BfsAt(d), BfsSerial
  PROVE  \E e \in Nat : BfsAt(e)'
<1>1. CASE DOBFS
  BY <1>1, DOBFSKeeps
<1>2. CASE TDEnd
  <2>1. BfsAt(d + 1)' /\ d + 1 \in Nat
    BY <1>2, TDEndKeeps
  <2> QED
    BY <2>1
<1>3. CASE Q2BEnd
  BY <1>3, Q2BEndKeeps
<1>4. CASE BUEnd
  <2>1. BfsAt(d + 1)' /\ d + 1 \in Nat
    BY <1>4, BUEndKeeps
  <2> QED
    BY <2>1
<1>5. CASE B2QEnd
  BY <1>5, B2QEndKeeps
<1> QED
  BY <1>1, <1>2, <1>3, <1>4, <1>5 DEF BfsSerial

\* Every step of a search leads from a depth to a depth.
LEMMA BfsNext ==
  ASSUME NEW d \in Nat, BfsAt(d), [Next]_vars
  PROVE  \E e \in Nat : BfsAt(e)'
<1>1. CASE UNCHANGED vars
  BY <1>1, BfsStutter
<1>2. CASE Next
  <2>1. BfsType
    BY DEF BfsAt
  <2>2. CASE \E t \in Workers : BfsStep(t)
    BY <2>2, BfsStepKeeps
  <2>3. CASE BfsSerial
    BY <2>3, BfsSerialKeeps
  <2>4. CASE Stop
    BY <2>4, BfsStutter DEF Stop
  <2> QED
    BY <1>2, <2>1, <2>2, <2>3, <2>4, OnlyBfs
<1> QED
  BY <1>1, <1>2

\* What bfs.cc computes, whatever the order in which its threads read, compare and
\* swap, push and set bits, and whenever it changes direction: the queue holds no
\* node twice, every parent is one level up on an edge, and at the end exactly the
\* nodes the source reaches have a parent.  So neither the compare-and-swap of
\* TDStep, nor the unlocked set_bit of BUStep (whose threads work on words of their
\* own), nor a change of direction loses a node or gives it a parent too far down.
THEOREM ParentsFound == Spec => [](run.kernel = "bfs" => KernelInv /\ ResultCorrect)
<1> DEFINE Inv == BfsRun => \E d \in Nat : BfsAt(d)
<1>1. Init => Inv
  BY BfsInit
<1>2. Inv /\ [Next]_vars => Inv'
  <2> SUFFICES ASSUME Inv, [Next]_vars, BfsRun' PROVE \E e \in Nat : BfsAt(e)'
    OBVIOUS
  <2>1. BfsRun
    BY RunStays DEF BfsRun
  <2>2. PICK d \in Nat : BfsAt(d)
    BY <2>1
  <2> QED
    BY <2>2, BfsNext
<1>3. Inv => (run.kernel = "bfs" => KernelInv /\ ResultCorrect)
  <2> SUFFICES ASSUME NEW d \in Nat, BfsAt(d), run.kernel = "bfs"
               PROVE  KernelInv /\ ResultCorrect
    BY DEF BfsRun
  <2>1. KernelInv
    <3>1. BfsInv
      BY BfsRight DEF BfsAt
    <3> QED
      BY <3>1 DEF KernelInv
  <2>2. ResultCorrect
    <3> SUFFICES ASSUME phase = "done"
                 PROVE  \A v \in Nodes(run.g) : (mem.parent[v] = -1) = (run.ref[v] = -1)
      BY DEF ResultCorrect
    <3>1. DoneInv
      BY DEF BfsAt
    <3> QED
      BY <3>1 DEF DoneInv, N
  <2> QED
    BY <2>1, <2>2
<1> QED
  BY <1>1, <1>2, <1>3, PTL DEF Spec

----------------------------------------------------------------------------
(* Shortest paths, sssp.cc.                                                *)
(*                                                                         *)
(* An edge is relaxed when the distance of its end is no more than that    *)
(* over it.  The invariant says of every edge that it is relaxed or that   *)
(* somebody is going to relax it: its start waits in the bin of its        *)
(* distance, in the copy of a fused bin or at a place of the frontier that *)
(* is not taken yet, or a thread has the edge before it.  When a round     *)
(* ends only the bins are left, and none of those with nodes is below the  *)
(* next bin but above the last: so the nodes below the next bin are        *)
(* settled, the nearest first.                                             *)

SsspRun == run.kernel = "sssp"
SsspPhases == {"ss_top", "relax", "copy", "done"}
EdgePcs == {"new", "cas", "reread"}
SsspPcs == {"grab", "old", "end"} \cup EdgePcs
SsspRecord == [pc : SsspPcs, u : Int, nb : Seq(Int), x : Int, y : Int]
SsspFields == {"dist", "frontier", "shared_indexes", "frontier_tails", "iter",
               "local_bins", "curr_bin_copy"}

\* The places of the frontier nobody has taken yet, or those filled so far.
Places == CASE phase = "relax" -> todo
            [] phase = "copy"  -> 0 .. mem.frontier_tails[Nxt] - 1
            [] OTHER           -> 0 .. mem.frontier_tails[Curr] - 1

\* The arrays have their types; threads are inside their loops.
SsspType ==
    /\ SsspRun /\ run \in Runs /\ phase \in SsspPhases
    /\ DOMAIN mem = SsspFields
    /\ mem.dist \in [N -> 0 .. kDistInf]
    /\ mem.frontier \in Seq(N)
    /\ mem.shared_indexes \in [1 .. 2 -> Nat] /\ mem.frontier_tails \in [1 .. 2 -> Nat]
    /\ \A i \in 1 .. 2 : mem.frontier_tails[i] <= Len(mem.frontier)
    /\ mem.iter \in {0, 1}
    /\ mem.local_bins \in [Workers -> Seq(Seq(N))]
    /\ mem.curr_bin_copy \in [Workers -> Seq(N)]
    /\ w \in [Workers -> SsspRecord]
    /\ IF phase = "relax" THEN todo \subseteq 0 .. mem.frontier_tails[Curr] - 1 ELSE todo = {}

\* Thread t has edges of w[t].u before it; what it read is not too small, what it
\* is going to store is longer than some path.
SsspThread(t) ==
    /\ \A i \in DOMAIN w[t].nb : w[t].u \in N /\ w[t].nb[i] \in N /\ Edge(run.g, w[t].u, w[t].nb[i])
    /\ w[t].pc \in EdgePcs => w[t].nb # <<>>
    /\ w[t].pc = "new" => w[t].x <= kDistInf /\ mem.dist[Head(w[t].nb)] <= w[t].x
    /\ w[t].pc \in {"cas", "reread"} =>
         w[t].y \in Nat /\ w[t].y < kDistInf /\ run.ref[Head(w[t].nb)] <= w[t].y
    /\ w[t].pc = "cas" => w[t].y < w[t].x
    /\ w[t].pc \in {"grab", "end"} => mem.curr_bin_copy[t] = <<>> /\ w[t].nb = <<>>
    /\ phase \in {"ss_top", "done"} => w[t].pc = "grab"
    /\ phase = "copy" => w[t].pc \in {"grab", "end"}
    /\ phase = "relax" /\ w[t].pc = "end" =>
         \A b \in Nat : CurrBin <= b /\ Bin(t, b) # <<>> => NextBin <= b

Relaxed(u, v) == mem.dist[v] <= mem.dist[u] + run.weight[<<u, v>>]

\* Somebody is going to look at all edges of u, ...
InBin(t, u) == \E i \in DOMAIN Bin(t, mem.dist[u] \div run.delta) :
                   Bin(t, mem.dist[u] \div run.delta)[i] = u
InCopy(t, u) == \E i \in DOMAIN mem.curr_bin_copy[t] : mem.curr_bin_copy[t][i] = u
InPlace(u) == \E i \in Places : mem.frontier[i + 1] = u
Listed(u) == InPlace(u) \/ \E t \in Workers : InBin(t, u) \/ InCopy(t, u)

\* ... or thread t at the edge from u to v: it is to read, or holds what is no
\* longer than the way over the edge.
Treats(t, u, v) ==
    /\ w[t].u = u
    /\ \E i \in DOMAIN w[t].nb :
         /\ w[t].nb[i] = v
         /\ i = 1 /\ w[t].pc \in {"cas", "reread"} => w[t].y <= mem.dist[u] + run.weight[<<u, v>>]

Covered(u, v) == Relaxed(u, v) \/ Listed(u) \/ \E t \in Workers : Treats(t, u, v)

\* The nodes nearer than bin b have their distances, which their edges have spread.
Settled(b) ==
    \A u \in N : run.ref[u] < run.delta * b =>
        /\ mem.dist[u] = run.ref[u]
        /\ \A v \in N : Edge(run.g, u, v) => Relaxed(u, v)

Bound == IF phase = "copy" THEN NextBin ELSE CurrBin

DistancesInv ==
    /\ SsspType
    /\ \A t \in Workers : SsspThread(t)
    /\ \A v \in N : run.ref[v] <= mem.dist[v]
    /\ mem.dist[run.source] = 0
    /\ \A u, v \in N : Edge(run.g, u, v) => Covered(u, v)
    /\ Settled(Bound)
    /\ phase = "done" => CurrBin = kMaxBin

----------------------------------------------------------------------------
(* Shortest paths: the run, the threads' records and the bins.             *)

\* What the assumption on the runs says of the graph and of the distances.
LEMMA SsspGraph ==
  ASSUME SsspRun, run \in Runs
  PROVE  /\ N \subseteq Nat /\ run.source \in N /\ run.delta \in Nat \ {0}
         /\ kDistInf \in Nat \ {0} /\ kMaxBin \in Nat /\ kDistInf <= kMaxBin
         /\ run.ref \in [N -> 0 .. kDistInf] /\ run.ref[run.source] = 0
         /\ \A u, v \in N : Edge(run.g, u, v) =>
              run.weight[<<u, v>>] \in Nat \ {0} /\ run.ref[v] <= run.ref[u] + run.weight[<<u, v>>]
         /\ \A v \in N \ {run.source} : run.ref[v] < kDistInf =>
              \E u \in N : Edge(run.g, u, v) /\ run.ref[v] = run.ref[u] + run.weight[<<u, v>>]
<1>1. /\ IsGraph(run.g) /\ run.source \in Nodes(run.g) /\ run.delta \in Nat \ {0}
      /\ \A u, v \in Nodes(run.g) : Edge(run.g, u, v) => run.weight[<<u, v>>] \in Nat \ {0}
      /\ IsDistances(run.g, run.source, run.weight, run.ref)
  BY RunsAssumption DEF SsspRun
<1>2. N \subseteq Nat
  BY <1>1 DEF IsGraph, N, Nodes
<1>3. kDistInf \in Nat \ {0} /\ kMaxBin \in Nat /\ kDistInf <= kMaxBin
  BY SsspAssumption
<1> QED
  BY <1>1, <1>2, <1>3 DEF IsDistances, N

\* The out-list of a node holds its neighbours.
LEMMA SsspLists ==
  ASSUME SsspRun, run \in Runs, NEW u \in N
  PROVE  /\ out_neigh(run.g, u) \in Seq(N)
         /\ \A i \in DOMAIN out_neigh(run.g, u) :
              out_neigh(run.g, u)[i] \in N /\ Edge(run.g, u, out_neigh(run.g, u)[i])
         /\ \A v \in N : Edge(run.g, u, v) => \E i \in DOMAIN out_neigh(run.g, u) : out_neigh(run.g, u)[i] = v
<1>1. IsGraph(run.g)
  BY RunsAssumption DEF SsspRun
<1>2. run.g.n \in Nat /\ N = 0 .. run.g.n - 1 /\ u + 1 \in 1 .. run.g.n
  BY <1>1 DEF IsGraph, N, Nodes
<1>3. run.g.out \in [1 .. run.g.n -> Seq(N)]
  BY <1>1 DEF IsGraph, N
<1>4. out_neigh(run.g, u) \in Seq(N)
  BY <1>2, <1>3 DEF out_neigh
<1>5. DOMAIN out_neigh(run.g, u) = 1 .. Len(out_neigh(run.g, u))
      /\ \A i \in DOMAIN out_neigh(run.g, u) : out_neigh(run.g, u)[i] \in N
  BY <1>4, LenProperties, ElementOfSeq
<1> QED
  BY <1>4, <1>5 DEF Edge, out_degree

\* The records of the team stay records, whatever a thread assigns to its own.
LEMMA SsspRecords ==
  /\ Free \in SsspRecord /\ Free.pc = "grab" /\ Free.nb = <<>>
  /\ \A r \in SsspRecord : \A pc \in SsspPcs : [r EXCEPT !.pc = pc] \in SsspRecord
  /\ \A r \in SsspRecord : \A pc \in SsspPcs : \A x \in Int : [r EXCEPT !.pc = pc, !.x = x] \in SsspRecord
  /\ \A r \in SsspRecord : \A pc \in SsspPcs : \A y \in Int : [r EXCEPT !.pc = pc, !.y = y] \in SsspRecord
  /\ \A r \in SsspRecord : \A pc \in SsspPcs : \A nb \in Seq(Int) :
       [r EXCEPT !.nb = nb, !.pc = pc] \in SsspRecord
  /\ \A r \in SsspRecord : \A u \in Int : \A nb \in Seq(Int) : [r EXCEPT !.u = u, !.nb = nb] \in SsspRecord
  /\ \A r \in SsspRecord : \A pc \in SsspPcs : \A u \in Int : \A nb \in Seq(Int) :
       [r EXCEPT !.pc = pc, !.u = u, !.nb = nb] \in SsspRecord
<1>1. Free \in SsspRecord /\ Free.pc = "grab" /\ Free.nb = <<>>
  BY EmptySeq DEF Free, SsspRecord, SsspPcs
<1>2. \A r \in SsspRecord : \A pc \in SsspPcs : [r EXCEPT !.pc = pc] \in SsspRecord
  BY DEF SsspRecord
<1>3. \A r \in SsspRecord : \A pc \in SsspPcs : \A x \in Int : [r EXCEPT !.pc = pc, !.x = x] \in SsspRecord
  BY DEF SsspRecord
<1>4. \A r \in SsspRecord : \A pc \in SsspPcs : \A y \in Int : [r EXCEPT !.pc = pc, !.y = y] \in SsspRecord
  BY DEF SsspRecord
<1>5. \A r \in SsspRecord : \A pc \in SsspPcs : \A nb \in Seq(Int) :
        [r EXCEPT !.nb = nb, !.pc = pc] \in SsspRecord
  BY DEF SsspRecord
<1>6. \A r \in SsspRecord : \A u \in Int : \A nb \in Seq(Int) : [r EXCEPT !.u = u, !.nb = nb] \in SsspRecord
  BY DEF SsspRecord
<1>7. \A r \in SsspRecord : \A pc \in SsspPcs : \A u \in Int : \A nb \in Seq(Int) :
        [r EXCEPT !.pc = pc, !.u = u, !.nb = nb] \in SsspRecord
  BY DEF SsspRecord
<1> QED
  BY <1>1, <1>2, <1>3, <1>4, <1>5, <1>6, <1>7

\* Thread t goes on to pc with what it has.
LEMMA SsspWent ==
  ASSUME w \in [Workers -> SsspRecord], NEW t \in Workers, NEW pc \in SsspPcs, Go(t, pc)
  PROVE  /\ w' \in [Workers -> SsspRecord] /\ Others(t)
         /\ w'[t].pc = pc /\ w'[t].u = w[t].u /\ w'[t].nb = w[t].nb
         /\ w'[t].x = w[t].x /\ w'[t].y = w[t].y
<1>1. w[t] \in SsspRecord
  OBVIOUS
<1>2. w' = [w EXCEPT ![t] = [w[t] EXCEPT !.pc = pc]]
  BY DEF Go
<1>3. [w[t] EXCEPT !.pc = pc] \in SsspRecord
  BY <1>1, SsspRecords
<1> QED
  BY <1>1, <1>2, <1>3 DEF Others, SsspRecord

\* Thread t is through with the first of its list.
LEMMA SsspAdvanced ==
  ASSUME w \in [Workers -> SsspRecord], NEW t \in Workers, NEW pc \in SsspPcs, w[t].nb # <<>>, Advance(t, pc)
  PROVE  /\ w' \in [Workers -> SsspRecord] /\ Others(t)
         /\ w'[t].pc = pc /\ w'[t].u = w[t].u
         /\ \A i \in DOMAIN w'[t].nb : i + 1 \in DOMAIN w[t].nb /\ w'[t].nb[i] = w[t].nb[i + 1]
         /\ \A i \in DOMAIN w[t].nb : i # 1 => i - 1 \in DOMAIN w'[t].nb /\ w'[t].nb[i - 1] = w[t].nb[i]
<1>1. w[t] \in SsspRecord /\ w[t].nb \in Seq(Int)
  BY DEF SsspRecord
<1>2. Tail(w[t].nb) \in Seq(Int) /\ Len(Tail(w[t].nb)) = Len(w[t].nb) - 1 /\ Len(w[t].nb) \in Nat \ {0}
      /\ \A i \in 1 .. Len(Tail(w[t].nb)) : Tail(w[t].nb)[i] = w[t].nb[i + 1]
  BY <1>1, HeadTailProperties, EmptySeq, LenProperties
<1>3. w' = [w EXCEPT ![t] = [w[t] EXCEPT !.nb = Tail(w[t].nb), !.pc = pc]]
  BY DEF Advance
<1>4. [w[t] EXCEPT !.nb = Tail(w[t].nb), !.pc = pc] \in SsspRecord
  BY <1>1, <1>2, SsspRecords
<1>5. /\ w' \in [Workers -> SsspRecord] /\ Others(t)
      /\ w'[t].pc = pc /\ w'[t].u = w[t].u /\ w'[t].nb = Tail(w[t].nb)
  BY <1>1, <1>3, <1>4 DEF Others, SsspRecord
<1>6. DOMAIN w[t].nb = 1 .. Len(w[t].nb) /\ DOMAIN w'[t].nb = 1 .. Len(w[t].nb) - 1
  BY <1>1, <1>2, <1>5, LenProperties
<1> QED
  BY <1>2, <1>5, <1>6

\* The first of a list that is not empty.
LEMMA FirstOf ==
  ASSUME w \in [Workers -> SsspRecord], NEW t \in Workers, w[t].nb # <<>>
  PROVE  1 \in DOMAIN w[t].nb /\ Head(w[t].nb) = w[t].nb[1] /\ DOMAIN w[t].nb \subseteq Nat \ {0}
<1>1. w[t].nb \in Seq(Int)
  BY DEF SsspRecord
<1> QED
  BY <1>1, HeadTailProperties, EmptySeq, LenProperties

\* A thread's bins are lists of lists: bin b is empty beyond the last of them.
BinAt(bins, b) == IF b < Len(bins) THEN bins[b + 1] ELSE <<>>
Empties(bins, c, after) == after = [bins EXCEPT ![c + 1] = <<>>]
PutsIn(bins, b, v, after) ==
    /\ \A c \in Nat : \A i \in DOMAIN BinAt(bins, c) :
         i \in DOMAIN BinAt(after, c) /\ BinAt(after, c)[i] = BinAt(bins, c)[i]
    /\ \E i \in DOMAIN BinAt(after, b) : BinAt(after, b)[i] = v

\* Every bin is a list of nodes.
LEMMA BinLists ==
  ASSUME NEW S, NEW bins \in Seq(Seq(S)), NEW b \in Nat
  PROVE  BinAt(bins, b) \in Seq(S) /\ \A i \in DOMAIN BinAt(bins, b) : BinAt(bins, b)[i] \in S
<1>1. BinAt(bins, b) \in Seq(S)
  BY LenProperties, ElementOfSeq, EmptySeq DEF BinAt
<1> QED
  BY <1>1, LenProperties, ElementOfSeq

\* Putting v into bin b takes nothing out of any bin.
LEMMA BinPut ==
  ASSUME NEW S, NEW bins \in Seq(Seq(S)), NEW b \in Nat, NEW v \in S
  PROVE  PutInBin(bins, b, v) \in Seq(Seq(S)) /\ PutsIn(bins, b, v, PutInBin(bins, b, v))
<1> DEFINE size == IF b >= Len(bins) THEN b + 1 ELSE Len(bins)
           old(i) == IF i <= Len(bins) THEN bins[i] ELSE <<>>
           new(i) == old(i) \o (IF i = b + 1 THEN <<v>> ELSE <<>>)
           after == PutInBin(bins, b, v)
<1>1. Len(bins) \in Nat /\ size \in Nat /\ b < size /\ Len(bins) <= size
  BY LenProperties
<1>2. after = [i \in 1 .. size |-> new(i)]
  BY DEF PutInBin
<1>3. ASSUME NEW i \in 1 .. size PROVE old(i) \in Seq(S) /\ new(i) \in Seq(S)
  <2>1. old(i) \in Seq(S)
    BY <1>1, LenProperties, ElementOfSeq, EmptySeq
  <2>2. (IF i = b + 1 THEN <<v>> ELSE <<>>) \in Seq(S)
    BY EmptySeq
  <2> QED
    BY <2>1, <2>2, ConcatProperties
<1>4. after \in Seq(Seq(S)) /\ Len(after) = size
  BY <1>1, <1>2, <1>3, SeqDef, LenProperties
<1>5. \A c \in Nat : c < size => BinAt(after, c) = new(c + 1) /\ BinAt(bins, c) = old(c + 1)
  <2> SUFFICES ASSUME NEW c \in Nat, c < size
               PROVE  BinAt(after, c) = new(c + 1) /\ BinAt(bins, c) = old(c + 1)
    OBVIOUS
  <2>1. c + 1 \in 1 .. size /\ (c + 1 <= Len(bins) <=> c < Len(bins))
    BY <1>1
  <2>2. after[c + 1] = new(c + 1)
    BY <1>2, <2>1
  <2>3. BinAt(after, c) = after[c + 1]
    BY <1>4 DEF BinAt
  <2>4. BinAt(bins, c) = old(c + 1)
    BY <2>1 DEF BinAt
  <2> QED
    BY <2>2, <2>3, <2>4
<1>6. \A c \in Nat : ~(c < size) => BinAt(bins, c) = <<>>
  BY <1>1 DEF BinAt
<1> HIDE DEF size, old, after
<1>7. ASSUME NEW c \in Nat, NEW i \in DOMAIN BinAt(bins, c)
      PROVE  i \in DOMAIN BinAt(after, c) /\ BinAt(after, c)[i] = BinAt(bins, c)[i]
  <2>1. c < size
    BY <1>6, <1>7, EmptySeq
  <2>2. old(c + 1) \in Seq(S) /\ c + 1 \in 1 .. size
    BY <1>1, <1>3, <2>1
  <2>3. (IF c + 1 = b + 1 THEN <<v>> ELSE <<>>) \in Seq(S)
    BY EmptySeq
  <2>4. i \in 1 .. Len(old(c + 1)) /\ BinAt(bins, c) = old(c + 1)
    BY <1>5, <1>7, <2>1, <2>2, LenProperties
  <2> DEFINE more == IF c + 1 = b + 1 THEN <<v>> ELSE <<>>
  <2>5. BinAt(after, c) = old(c + 1) \o more
    BY <1>5, <2>1
  <2>6. more \in Seq(S) /\ Len(more) \in Nat /\ Len(old(c + 1)) \in Nat
    BY <2>2, <2>3, LenProperties
  <2> HIDE DEF more
  <2>7. old(c + 1) \o more \in Seq(S)
        /\ Len(old(c + 1) \o more) = Len(old(c + 1)) + Len(more)
        /\ (old(c + 1) \o more)[i] = old(c + 1)[i]
    BY <2>2, <2>4, <2>6, ConcatProperties
  <2> QED
    BY <2>4, <2>5, <2>6, <2>7, LenProperties
<1>8. \E i \in DOMAIN BinAt(after, b) : BinAt(after, b)[i] = v
  <2>1. old(b + 1) \in Seq(S) /\ <<v>> \in Seq(S) /\ Len(<<v>>) = 1 /\ BinAt(after, b) = old(b + 1) \o <<v>>
    <3>1. b + 1 \in 1 .. size
      BY <1>1
    <3>2. old(b + 1) \in Seq(S) /\ BinAt(after, b) = new(b + 1)
      BY <1>1, <1>3, <1>5, <3>1
    <3>3. new(b + 1) = old(b + 1) \o <<v>>
      OBVIOUS
    <3> QED
      BY <3>2, <3>3
  <2>2. Len(old(b + 1)) + 1 \in DOMAIN BinAt(after, b) /\ BinAt(after, b)[Len(old(b + 1)) + 1] = v
    BY <2>1, ConcatProperties, LenProperties
  <2> QED
    BY <2>2
<1> QED
  BY <1>4, <1>7, <1>8 DEF after, PutsIn

\* Emptying bin c leaves the others.
LEMMA BinEmptied ==
  ASSUME NEW S, NEW bins \in Seq(Seq(S)), NEW c \in Nat, NEW after, Empties(bins, c, after)
  PROVE  /\ after \in Seq(Seq(S))
         /\ \A b \in Nat : b # c => BinAt(after, b) = BinAt(bins, b)
         /\ BinAt(after, c) = <<>>
<1>1. Len(bins) \in Nat /\ DOMAIN bins = 1 .. Len(bins) /\ bins \in [1 .. Len(bins) -> Seq(S)]
  BY LenProperties
<1>2. after = [bins EXCEPT ![c + 1] = <<>>] /\ <<>> \in Seq(S)
  BY EmptySeq DEF Empties
<1>3. after \in [1 .. Len(bins) -> Seq(S)]
  BY <1>1, <1>2
<1>4. after \in Seq(Seq(S)) /\ Len(after) = Len(bins)
  <2>1. after \in Seq(Seq(S))
    <3> DEFINE T == Seq(S)
    <3>1. after \in [1 .. Len(bins) -> T] /\ Len(bins) \in Nat
      BY <1>1, <1>3
    <3> HIDE DEF T
    <3>2. [1 .. Len(bins) -> T] \in {[1 .. n -> T] : n \in Nat}
      BY <3>1
    <3>3. after \in UNION {[1 .. n -> T] : n \in Nat}
      BY ONLY <3>1, <3>2
    <3>4. after \in Seq(T)
      BY <3>3, SeqDef, Zenon
    <3> QED
      BY <3>4 DEF T
  <2>2. DOMAIN after = 1 .. Len(bins)
    BY <1>3
  <2> QED
    BY <1>1, <2>1, <2>2, LenProperties
<1> QED
  BY <1>1, <1>2, <1>4 DEF BinAt

----------------------------------------------------------------------------
(* Shortest paths: what a step of a thread leaves as it is.                *)

\* The current and the next copy are the two different ones.
LEMMA Copies ==
  ASSUME SsspType
  PROVE  Curr \in 1 .. 2 /\ Nxt \in 1 .. 2 /\ Curr # Nxt /\ CurrBin \in Nat /\ NextBin \in Nat
         /\ mem.frontier_tails[Curr] \in Nat /\ mem.frontier_tails[Nxt] \in Nat
<1>1. Curr \in 1 .. 2 /\ Nxt \in 1 .. 2 /\ Curr # Nxt
  BY DEF SsspType, Curr, Nxt
<1> QED
  BY <1>1 DEF SsspType, CurrBin, NextBin

\* A node's bin.
LEMMA BinOf ==
  ASSUME SsspType, NEW u \in N
  PROVE  mem.dist[u] \in Nat /\ mem.dist[u] \div run.delta \in Nat
<1>1. mem.dist[u] \in Nat /\ run.delta \in Nat \ {0}
  BY SsspGraph DEF SsspType
<1> QED
  BY <1>1, DivMod

\* The list of thread t is one of nodes.
LEMMA HeadEdge ==
  ASSUME SsspType, NEW t \in Workers, SsspThread(t), w[t].nb # <<>>
  PROVE  w[t].u \in N /\ Head(w[t].nb) \in N /\ Edge(run.g, w[t].u, Head(w[t].nb))
<1>1. 1 \in DOMAIN w[t].nb /\ Head(w[t].nb) = w[t].nb[1]
  BY FirstOf DEF SsspType
<1> QED
  BY <1>1 DEF SsspThread

\* Distances only get smaller, but not too small: what is settled stays settled.
LEMMA SettledKept ==
  ASSUME SsspType, SsspType', run' = run, NEW b, Settled(b),
         \A v \in N : run.ref[v] <= mem'.dist[v] /\ mem'.dist[v] <= mem.dist[v]
  PROVE  Settled(b)'
<1>1. N' = N
  BY DEF N
<1>2. \A v \in N : mem.dist[v] \in Nat /\ mem'.dist[v] \in Nat /\ run.ref[v] \in Nat
  BY <1>1, SsspGraph DEF SsspType
<1>3. SUFFICES ASSUME NEW u \in N, (run.ref[u] < run.delta * b)'
               PROVE  /\ mem'.dist[u] = run.ref[u]
                      /\ \A v \in N : Edge(run.g, u, v) => Relaxed(u, v)'
  BY <1>1 DEF Settled
<1>4. /\ run.ref[u] < run.delta * b
      /\ mem.dist[u] = run.ref[u] /\ \A v \in N : Edge(run.g, u, v) => Relaxed(u, v)
  BY <1>3 DEF Settled
<1>5. mem'.dist[u] = run.ref[u]
  BY <1>2, <1>4
<1>6. ASSUME NEW v \in N, Edge(run.g, u, v) PROVE Relaxed(u, v)'
  <2>1. mem.dist[v] <= mem.dist[u] + run.weight[<<u, v>>] /\ run.weight[<<u, v>>] \in Nat
    BY <1>4, <1>6, SsspGraph DEF Relaxed, SsspType
  <2>2. mem'.dist[v] <= mem'.dist[u] + run.weight[<<u, v>>]
    BY <1>2, <1>4, <1>5, <2>1
  <2> QED
    BY <2>2 DEF Relaxed
<1> QED
  BY <1>5, <1>6

\* What thread s is about does not depend on the other threads' memory.
LEMMA OtherThread ==
  ASSUME SsspType, NEW s \in Workers, SsspThread(s), phase = "relax",
         run' = run, phase' = phase, w'[s] = w[s],
         \A v \in N : mem.dist[v] \in Nat /\ mem'.dist[v] \in Nat /\ mem'.dist[v] <= mem.dist[v],
         mem'.curr_bin_copy[s] = mem.curr_bin_copy[s], mem'.local_bins[s] = mem.local_bins[s],
         CurrBin' = CurrBin, NextBin' \in Nat, NextBin' <= NextBin
  PROVE  SsspThread(s)'
<1>0. N' = N /\ NextBin \in Nat /\ kDistInf \in Nat
  BY Copies, SsspGraph DEF N, SsspType
<1>1. w[s].x \in Int
  BY DEF SsspType, SsspRecord
<1>2. ASSUME w[s].pc = "new" PROVE mem'.dist[Head(w[s].nb)] <= w[s].x
  <2>1. Head(w[s].nb) \in N
    BY <1>2, HeadEdge DEF SsspThread, EdgePcs
  <2>2. mem.dist[Head(w[s].nb)] <= w[s].x
    BY <1>2 DEF SsspThread
  <2> QED
    BY <1>1, <2>1, <2>2
<1>3. \A b \in Nat : Bin(s, b)' = Bin(s, b)
  BY DEF Bin
<1>4. ASSUME w[s].pc = "end", NEW b \in Nat, CurrBin <= b, Bin(s, b) # <<>> PROVE NextBin' <= b
  <2>1. NextBin <= b
    BY <1>4 DEF SsspThread
  <2> QED
    BY <1>0, <2>1
<1> QED
  BY <1>0, <1>2, <1>3, <1>4 DEF SsspThread

\* Which edges are covered when distances stay, whoever moved: what is left to say
\* is what becomes of the places, of the bins and of the thread that moved.
LEMMA CoverKept ==
  ASSUME SsspType, NEW t \in Workers, Others(t), run' = run, mem'.dist = mem.dist,
         NEW u \in N, NEW v \in N, Covered(u, v),
         InPlace(u) => Covered(u, v)',
         \A s \in Workers : InBin(s, u) \/ InCopy(s, u) => Covered(u, v)',
         Treats(t, u, v) => Covered(u, v)'
  PROVE  Covered(u, v)'
<1>1. Relaxed(u, v) => Relaxed(u, v)'
  BY DEF Relaxed
<1>2. \A s \in Workers \ {t} : Treats(s, u, v) => Treats(s, u, v)'
  BY DEF Treats, Others
<1> QED
  BY <1>1, <1>2 DEF Covered, Listed

\* Bins and copies that stay as they are.
LEMMA BinsKept ==
  ASSUME run' = run, mem'.dist = mem.dist, NEW s \in Workers, NEW u,
         mem'.local_bins[s] = mem.local_bins[s], mem'.curr_bin_copy[s] = mem.curr_bin_copy[s]
  PROVE  (InBin(s, u) => InBin(s, u)') /\ (InCopy(s, u) => InCopy(s, u)')
BY DEF InBin, InCopy, Bin

\* A step of thread t in the loop keeps the invariant if it leaves the other
\* threads, does right by t itself and covers every edge again.
LEMMA LoopStepKeeps ==
  ASSUME DistancesInv, phase = "relax", NEW t \in Workers, Others(t), w' \in [Workers -> SsspRecord],
         run' = run, phase' = phase, todo' \subseteq todo,
         DOMAIN mem' = SsspFields, mem'.frontier = mem.frontier,
         mem'.frontier_tails = mem.frontier_tails, mem'.iter = mem.iter,
         mem'.shared_indexes \in [1 .. 2 -> Nat], CurrBin' = CurrBin, NextBin' <= NextBin,
         mem'.local_bins \in [Workers -> Seq(Seq(N))], mem'.curr_bin_copy \in [Workers -> Seq(N)],
         \A s \in Workers \ {t} : /\ mem'.local_bins[s] = mem.local_bins[s]
                                  /\ mem'.curr_bin_copy[s] = mem.curr_bin_copy[s],
         mem'.dist \in [N -> 0 .. kDistInf],
         \A v \in N : run.ref[v] <= mem'.dist[v] /\ mem'.dist[v] <= mem.dist[v],
         SsspThread(t)',
         \A u, v \in N : Edge(run.g, u, v) => Covered(u, v)'
  PROVE  DistancesInv'
<1>0. SsspType /\ Settled(CurrBin) /\ N' = N /\ Curr' = Curr /\ Nxt' = Nxt
  BY DEF DistancesInv, Bound, N, Curr, Nxt
<1>1. SsspType'
  BY <1>0 DEF SsspType, SsspRun
<1>2. ASSUME NEW s \in Workers PROVE SsspThread(s)'
  <2>1. CASE s = t
    BY <2>1
  <2>2. CASE s # t
    <3>1. \A v \in N : mem.dist[v] \in Nat /\ mem'.dist[v] \in Nat
      <4>1. kDistInf \in Nat /\ mem.dist \in [N -> 0 .. kDistInf]
        BY <1>0, SsspGraph DEF SsspType
      <4> QED
        BY <4>1
    <3>2. NextBin' \in Nat
      BY <1>0, <1>1, Copies DEF NextBin
    <3>3. w'[s] = w[s] /\ mem'.local_bins[s] = mem.local_bins[s] /\ mem'.curr_bin_copy[s] = mem.curr_bin_copy[s]
      BY <2>2 DEF Others
    <3>4. SsspThread(s)
      BY DEF DistancesInv
    <3> QED
      BY <1>0, <3>1, <3>2, <3>3, <3>4, OtherThread
  <2> QED
    BY <2>1, <2>2
<1>3. Settled(CurrBin)'
  <2> DEFINE b == CurrBin
  <2>1. Settled(b) /\ b' = b
    BY <1>0
  <2> HIDE DEF b
  <2>2. \A v \in N : run.ref[v] <= mem'.dist[v] /\ mem'.dist[v] <= mem.dist[v]
    OBVIOUS
  <2>3. Settled(b)'
    BY ONLY <1>0, <1>1, <2>1, <2>2, run' = run, SettledKept
  <2> QED
    BY <2>3 DEF b
<1>4. mem'.dist[run.source] = 0
  <2>1. run.source \in N /\ mem.dist[run.source] = 0 /\ run.ref[run.source] = 0 /\ mem'.dist[run.source] \in 0 .. kDistInf
    BY <1>0, SsspGraph DEF DistancesInv, SsspType
  <2>2. mem'.dist[run.source] <= mem.dist[run.source] /\ kDistInf \in Nat
    BY <1>0, <2>1, SsspGraph DEF SsspType
  <2> QED
    BY <2>1, <2>2
<1> QED
  BY <1>0, <1>1, <1>2, <1>3, <1>4 DEF DistancesInv, Bound

\* The same when only thread t itself and the places left change.
LEMMA ThreadStepKeeps ==
  ASSUME DistancesInv, phase = "relax", NEW t \in Workers, Others(t), w' \in [Workers -> SsspRecord],
         run' = run, phase' = phase, todo' \subseteq todo, mem' = mem, SsspThread(t)',
         \A u, v \in N : Edge(run.g, u, v) /\ (InPlace(u) \/ Treats(t, u, v)) => Covered(u, v)'
  PROVE  DistancesInv'
<1>0. SsspType /\ CurrBin' = CurrBin /\ NextBin' = NextBin /\ NextBin \in Nat
  BY Copies DEF DistancesInv, CurrBin, NextBin, Curr, Nxt
<1>1. ASSUME NEW u \in N, NEW v \in N, Edge(run.g, u, v) PROVE Covered(u, v)'
  <2>1. Covered(u, v)
    BY <1>1 DEF DistancesInv
  <2>2. \A s \in Workers : InBin(s, u) \/ InCopy(s, u) => Covered(u, v)'
    BY BinsKept DEF Covered, Listed
  <2> QED
    BY <1>0, <1>1, <2>1, <2>2, CoverKept
<1>2. \A v \in N : run.ref[v] <= mem'.dist[v] /\ mem'.dist[v] <= mem.dist[v]
  <2>1. kDistInf \in Nat /\ mem.dist \in [N -> 0 .. kDistInf] /\ \A v \in N : run.ref[v] <= mem.dist[v]
    BY <1>0, SsspGraph DEF DistancesInv, SsspType
  <2> QED
    BY <2>1
<1>3. /\ DOMAIN mem' = SsspFields /\ mem'.shared_indexes \in [1 .. 2 -> Nat]
      /\ mem'.local_bins \in [Workers -> Seq(Seq(N))] /\ mem'.curr_bin_copy \in [Workers -> Seq(N)]
      /\ mem'.dist \in [N -> 0 .. kDistInf] /\ NextBin' <= NextBin
  BY <1>0 DEF SsspType
<1> QED
  BY <1>0, <1>1, <1>2, <1>3, LoopStepKeeps

----------------------------------------------------------------------------
(* Shortest paths: the steps of RelaxEdges that only read.                 *)

\* The loop over the frontier: a stale entry is left out, the edges of the others
\* are before the thread.
LEMMA SsspGrabKeeps ==
  ASSUME DistancesInv, NEW t \in Workers, SsspGrab(t)
  PROVE  DistancesInv'
<1>0. SsspType /\ SsspThread(t) /\ phase = "relax" /\ w[t].pc = "grab" /\ Settled(CurrBin)
  BY DEF DistancesInv, SsspGrab, Bound
<1>1. PICK i \in todo :
        /\ todo' = todo \ {i} /\ run' = run /\ phase' = phase /\ mem' = mem
        /\ w' = [w EXCEPT ![t] = [@ EXCEPT !.pc = "old", !.u = mem.frontier[i + 1],
                   !.nb = IF mem.dist[mem.frontier[i + 1]] >= run.delta * CurrBin
                          THEN out_neigh(run.g, mem.frontier[i + 1]) ELSE <<>>]]
  BY DEF SsspGrab
<1> DEFINE u == mem.frontier[i + 1]
           nb == IF mem.dist[u] >= run.delta * CurrBin THEN out_neigh(run.g, u) ELSE <<>>
<1>2. u \in N
  <2>1. i \in 0 .. mem.frontier_tails[Curr] - 1 /\ mem.frontier_tails[Curr] <= Len(mem.frontier)
    BY <1>0, Copies DEF SsspType
  <2>2. i + 1 \in 1 .. Len(mem.frontier)
    <3>1. Len(mem.frontier) \in Nat /\ mem.frontier_tails[Curr] \in Nat
      BY <1>0, Copies, LenProperties DEF SsspType
    <3> QED
      BY ONLY <2>1, <3>1
  <2> QED
    BY <1>0, <2>2, ElementOfSeq DEF SsspType
<1>3. N \subseteq Int /\ SsspRun /\ run \in Runs /\ u \in Int
  BY <1>0, <1>2, SsspGraph DEF SsspType
<1>4. nb \in Seq(N) /\ nb \in Seq(Int) /\ \A j \in DOMAIN nb : nb[j] \in N /\ Edge(run.g, u, nb[j])
  <2>1. CASE mem.dist[u] >= run.delta * CurrBin
    <3>1. nb = out_neigh(run.g, u)
      BY <2>1
    <3> QED
      BY <1>2, <1>3, <3>1, SsspLists, SeqMonotonic
  <2>2. CASE ~(mem.dist[u] >= run.delta * CurrBin)
    BY <2>2, EmptySeq
  <2> QED
    BY <2>1, <2>2
<1>5. w' = [w EXCEPT ![t] = [w[t] EXCEPT !.pc = "old", !.u = u, !.nb = nb]]
  BY <1>1
<1>6. mem.dist[u] >= run.delta * CurrBin => nb = out_neigh(run.g, u)
  OBVIOUS
<1> HIDE DEF nb, u
<1>7. /\ w' \in [Workers -> SsspRecord] /\ Others(t)
      /\ w'[t].pc = "old" /\ w'[t].u = u /\ w'[t].nb = nb
  <2>1. w[t] \in SsspRecord /\ "old" \in SsspPcs
    BY <1>0 DEF SsspType, SsspPcs
  <2>2. [w[t] EXCEPT !.pc = "old", !.u = u, !.nb = nb] \in SsspRecord
    BY <1>3, <1>4, <2>1, SsspRecords
  <2> QED
    BY <1>0, <1>5, <2>1, <2>2 DEF Others, SsspRecord, SsspType
<1>8. SsspThread(t)'
  <2>1. N' = N
    BY <1>1 DEF N
  <2> QED
    BY <1>0, <1>1, <1>2, <1>4, <1>7, <2>1 DEF SsspThread, EdgePcs
<1>9. ASSUME NEW a \in N, NEW v \in N, Edge(run.g, a, v), InPlace(a) \/ Treats(t, a, v)
      PROVE  Covered(a, v)'
  <2>1. w[t].nb = <<>>
    BY <1>0 DEF SsspThread
  <2>2. InPlace(a)
    BY <1>9, <2>1 DEF Treats
  <2>3. PICK j \in todo : mem.frontier[j + 1] = a
    BY <1>0, <2>2 DEF InPlace, Places
  <2>4. CASE j # i
    <3>1. InPlace(a)'
      BY <1>0, <1>1, <2>3, <2>4 DEF InPlace, Places
    <3> QED
      BY <3>1 DEF Covered, Listed
  <2>5. CASE j = i
    <3>1. a = u
      BY <2>3, <2>5 DEF u
    <3>2. CASE mem.dist[u] >= run.delta * CurrBin
      <4>1. PICK k \in DOMAIN nb : nb[k] = v
        BY <1>2, <1>3, <1>6, <1>9, <3>1, <3>2, SsspLists
      <4>2. Treats(t, a, v)'
        BY <1>7, <3>1, <4>1 DEF Treats
      <4> QED
        BY <4>2 DEF Covered
    <3>3. CASE ~(mem.dist[u] >= run.delta * CurrBin)
      <4>1. /\ mem.dist[u] \in Nat /\ run.ref[u] \in Nat /\ run.ref[u] <= mem.dist[u]
            /\ run.delta * CurrBin \in Nat
        BY <1>0, <1>2, <1>3, BinOf, SsspGraph, Copies DEF DistancesInv
      <4>2. run.ref[u] < run.delta * CurrBin
        BY <3>3, <4>1
      <4>3. Relaxed(a, v)
        BY <1>0, <1>2, <1>9, <3>1, <4>2 DEF Settled
      <4> QED
        BY <1>1, <4>3 DEF Covered, Relaxed
    <3> QED
      BY <3>2, <3>3
  <2> QED
    BY <2>4, <2>5
<1>10. todo' \subseteq todo
  BY <1>1
<1> QED
  BY <1>0, <1>1, <1>7, <1>8, <1>9, <1>10, ThreadStepKeeps

\* A step that leaves the list of thread t and the places leaves every edge covered.
LEMMA AtEdgeKeeps ==
  ASSUME DistancesInv, phase = "relax", NEW t \in Workers, Others(t), w' \in [Workers -> SsspRecord],
         UNCHANGED <<run, phase, todo, mem>>,
         w'[t].u = w[t].u, w'[t].nb = w[t].nb, SsspThread(t)',
         w[t].pc \in {"cas", "reread"} \/ w'[t].pc \notin {"cas", "reread"}
           \/ w'[t].y <= mem.dist[w[t].u] + run.weight[<<w[t].u, Head(w[t].nb)>>],
         w[t].pc \in {"cas", "reread"} => w'[t].y = w[t].y
  PROVE  DistancesInv'
<1>0. SsspType /\ todo' \subseteq todo
  BY DEF DistancesInv
<1>1. ASSUME NEW a \in N, NEW v \in N, Edge(run.g, a, v), InPlace(a) \/ Treats(t, a, v)
      PROVE  Covered(a, v)'
  <2>1. CASE InPlace(a)
    <3>1. InPlace(a)'
      BY <2>1 DEF InPlace, Places, Curr, Nxt
    <3> QED
      BY <3>1 DEF Covered, Listed
  <2>2. CASE Treats(t, a, v)
    <3>1. PICK i \in DOMAIN w[t].nb :
            /\ w[t].u = a /\ w[t].nb[i] = v
            /\ i = 1 /\ w[t].pc \in {"cas", "reread"} => w[t].y <= mem.dist[a] + run.weight[<<a, v>>]
      BY <2>2 DEF Treats
    <3>2. i = 1 => Head(w[t].nb) = v
      BY <1>0, <3>1, FirstOf, EmptySeq DEF SsspType
    <3>3. i = 1 /\ w'[t].pc \in {"cas", "reread"} => w'[t].y <= mem.dist[a] + run.weight[<<a, v>>]
      BY <3>1, <3>2
    <3>4. Treats(t, a, v)'
      BY <3>1, <3>3 DEF Treats
    <3> QED
      BY <3>4 DEF Covered
  <2> QED
    BY <1>1, <2>1, <2>2
<1> QED
  BY <1>0, <1>1, ThreadStepKeeps

\* Thread t may leave the edge before it when that is relaxed, or when what it holds
\* is longer than the way over the edge: then the start of the edge is listed anew.
LEMMA PassKeeps ==
  ASSUME DistancesInv, phase = "relax", NEW t \in Workers, w[t].nb # <<>>,
         Advance(t, "old"), UNCHANGED <<run, phase, todo, mem>>,
         (w[t].pc \in {"cas", "reread"} => w[t].y <= mem.dist[w[t].u] + run.weight[<<w[t].u, Head(w[t].nb)>>])
           => Relaxed(w[t].u, Head(w[t].nb))
  PROVE  DistancesInv'
<1>0. SsspType /\ SsspThread(t) /\ todo' \subseteq todo
  BY DEF DistancesInv
<1>1. /\ w' \in [Workers -> SsspRecord] /\ Others(t)
      /\ w'[t].pc = "old" /\ w'[t].u = w[t].u
      /\ \A i \in DOMAIN w'[t].nb : i + 1 \in DOMAIN w[t].nb /\ w'[t].nb[i] = w[t].nb[i + 1]
      /\ \A i \in DOMAIN w[t].nb : i # 1 => i - 1 \in DOMAIN w'[t].nb /\ w'[t].nb[i - 1] = w[t].nb[i]
  BY <1>0, SsspAdvanced DEF SsspType, SsspPcs
<1>2. SsspThread(t)'
  <2>1. N' = N
    BY DEF N
  <2>2. \A i \in DOMAIN w'[t].nb : w'[t].u \in N /\ w'[t].nb[i] \in N /\ Edge(run.g, w'[t].u, w'[t].nb[i])
    BY <1>0, <1>1 DEF SsspThread
  <2> QED
    BY <1>1, <2>1, <2>2 DEF SsspThread, EdgePcs
<1>3. ASSUME NEW a \in N, NEW v \in N, Edge(run.g, a, v), InPlace(a) \/ Treats(t, a, v)
      PROVE  Covered(a, v)'
  <2>1. CASE InPlace(a)
    <3>1. InPlace(a)'
      BY <2>1 DEF InPlace, Places, Curr, Nxt
    <3> QED
      BY <3>1 DEF Covered, Listed
  <2>2. CASE Treats(t, a, v)
    <3>1. PICK i \in DOMAIN w[t].nb :
            /\ w[t].u = a /\ w[t].nb[i] = v
            /\ i = 1 /\ w[t].pc \in {"cas", "reread"} => w[t].y <= mem.dist[a] + run.weight[<<a, v>>]
      BY <2>2 DEF Treats
    <3>2. CASE i = 1
      <4>1. Head(w[t].nb) = v
        BY <1>0, <3>1, <3>2, FirstOf DEF SsspType
      <4>2. Relaxed(a, v)
        BY <3>1, <3>2, <4>1
      <4> QED
        BY <4>2 DEF Covered, Relaxed
    <3>3. CASE i # 1
      <4>1. Treats(t, a, v)'
        BY <1>1, <3>1, <3>3 DEF Treats
      <4> QED
        BY <4>1 DEF Covered
    <3> QED
      BY <3>2, <3>3
  <2> QED
    BY <1>3, <2>1, <2>2
<1> QED
  BY <1>0, <1>1, <1>2, <1>3, ThreadStepKeeps

\* Reading the old distance of the next edge's end.
LEMMA RelaxOldReads ==
  ASSUME DistancesInv, NEW t \in Workers, RelaxOld(t), w[t].nb # <<>>
  PROVE  DistancesInv'
<1>0. SsspType /\ SsspThread(t) /\ phase = "relax" /\ w[t].pc = "old"
      /\ w' = [w EXCEPT ![t].pc = "new", ![t].x = mem.dist[Head(w[t].nb)]]
      /\ UNCHANGED <<run, phase, todo, mem>>
  BY DEF DistancesInv, RelaxOld
<1> DEFINE x == mem.dist[Head(w[t].nb)]
<1>1. Head(w[t].nb) \in N
  BY <1>0, HeadEdge
<1>2. x \in Nat /\ x <= kDistInf
  BY <1>0, <1>1, SsspGraph DEF SsspType
<1>3. w' = [w EXCEPT ![t] = [w[t] EXCEPT !.pc = "new", !.x = x]]
  BY <1>0
<1> HIDE DEF x
<1>4. /\ w' \in [Workers -> SsspRecord] /\ Others(t)
      /\ w'[t].pc = "new" /\ w'[t].u = w[t].u /\ w'[t].nb = w[t].nb /\ w'[t].x = x
  <2>1. w[t] \in SsspRecord /\ "new" \in SsspPcs /\ x \in Int
    BY <1>0, <1>2 DEF SsspType, SsspPcs, EdgePcs
  <2>2. [w[t] EXCEPT !.pc = "new", !.x = x] \in SsspRecord
    BY <2>1, SsspRecords
  <2>3. w \in [Workers -> SsspRecord]
    BY <1>0 DEF SsspType
  <2> QED
    BY ONLY <1>3, <2>1, <2>2, <2>3, t \in Workers DEF Others, SsspRecord
<1>5. SsspThread(t)'
  <2>1. N' = N /\ mem'.dist[Head(w'[t].nb)] = x
    BY <1>0, <1>4 DEF N, x
  <2> QED
    BY <1>0, <1>2, <1>4, <2>1 DEF SsspThread, EdgePcs
<1> QED
  BY <1>0, <1>4, <1>5, AtEdgeKeeps

\* The next node of a fused bin: all its edges are before the thread.
LEMMA RelaxOldTakes ==
  ASSUME DistancesInv, NEW t \in Workers, RelaxOld(t), w[t].nb = <<>>, mem.curr_bin_copy[t] # <<>>
  PROVE  DistancesInv'
<1> DEFINE c == mem.curr_bin_copy[t]
           u == Head(c)
<1>0. SsspType /\ SsspThread(t) /\ phase = "relax" /\ w[t].pc = "old"
      /\ w' = [w EXCEPT ![t].u = u, ![t].nb = out_neigh(run.g, u)]
      /\ mem' = [mem EXCEPT !.curr_bin_copy[t] = Tail(c)]
      /\ UNCHANGED <<run, phase, todo>>
  BY DEF DistancesInv, RelaxOld
<1>1. c \in Seq(N) /\ c # <<>>
  BY <1>0 DEF SsspType
<1>2. /\ u \in N /\ Tail(c) \in Seq(N) /\ DOMAIN c = 1 .. Len(c) /\ u = c[1] /\ Len(c) \in Nat \ {0}
      /\ DOMAIN Tail(c) = 1 .. Len(c) - 1 /\ \A i \in 1 .. Len(c) - 1 : Tail(c)[i] = c[i + 1]
  BY <1>1, HeadTailProperties, LenProperties, EmptySeq
<1>3. /\ out_neigh(run.g, u) \in Seq(N) /\ out_neigh(run.g, u) \in Seq(Int) /\ u \in Int
      /\ \A i \in DOMAIN out_neigh(run.g, u) :
           out_neigh(run.g, u)[i] \in N /\ Edge(run.g, u, out_neigh(run.g, u)[i])
      /\ \A v \in N : Edge(run.g, u, v) => \E i \in DOMAIN out_neigh(run.g, u) : out_neigh(run.g, u)[i] = v
  <2>1. N \subseteq Int /\ SsspRun /\ run \in Runs
    BY <1>0, SsspGraph DEF SsspType
  <2> QED
    BY <1>2, <2>1, SsspLists, SeqMonotonic
<1>4. w' = [w EXCEPT ![t] = [w[t] EXCEPT !.u = u, !.nb = out_neigh(run.g, u)]]
  BY <1>0
<1>5. /\ DOMAIN mem' = DOMAIN mem
      /\ \A f \in SsspFields : f # "curr_bin_copy" => mem'[f] = mem[f]
      /\ mem'.curr_bin_copy = [mem.curr_bin_copy EXCEPT ![t] = Tail(c)]
  BY <1>0 DEF SsspType, SsspFields
<1> HIDE DEF u, c
<1>6. /\ w' \in [Workers -> SsspRecord] /\ Others(t)
      /\ w'[t].pc = "old" /\ w'[t].u = u /\ w'[t].nb = out_neigh(run.g, u)
  <2>1. w[t] \in SsspRecord
    BY <1>0 DEF SsspType
  <2>2. [w[t] EXCEPT !.u = u, !.nb = out_neigh(run.g, u)] \in SsspRecord
    BY <1>3, <2>1, SsspRecords
  <2> QED
    BY <1>0, <1>4, <2>1, <2>2 DEF Others, SsspRecord, SsspType
<1>7. /\ mem'.dist = mem.dist /\ mem'.frontier = mem.frontier /\ mem'.frontier_tails = mem.frontier_tails
      /\ mem'.iter = mem.iter /\ mem'.shared_indexes = mem.shared_indexes /\ mem'.local_bins = mem.local_bins
      /\ mem'.curr_bin_copy \in [Workers -> Seq(N)] /\ mem'.curr_bin_copy[t] = Tail(c)
      /\ \A s \in Workers \ {t} : mem'.curr_bin_copy[s] = mem.curr_bin_copy[s]
  BY <1>0, <1>2, <1>5 DEF SsspFields, SsspType
<1>8. SsspThread(t)'
  <2>1. N' = N
    BY <1>0 DEF N
  <2> QED
    BY <1>0, <1>2, <1>3, <1>6, <2>1 DEF SsspThread, EdgePcs
<1>9. ASSUME NEW a \in N, NEW v \in N, Edge(run.g, a, v) PROVE Covered(a, v)'
  <2>1. Covered(a, v)
    BY <1>9 DEF DistancesInv
  <2>2. InPlace(a) => Covered(a, v)'
    <3>1. InPlace(a) => InPlace(a)'
      BY <1>0, <1>7 DEF InPlace, Places, Curr, Nxt
    <3> QED
      BY <3>1 DEF Covered, Listed
  <2>3. ~Treats(t, a, v)
    BY DEF Treats
  <2>4. ASSUME NEW s \in Workers, InBin(s, a) \/ InCopy(s, a) PROVE Covered(a, v)'
    <3>1. CASE InBin(s, a)
      <4>1. InBin(s, a)'
        BY <1>0, <1>7, <3>1 DEF InBin, Bin
      <4> QED
        BY <4>1 DEF Covered, Listed
    <3>2. CASE InCopy(s, a) /\ s # t
      <4>1. InCopy(s, a)'
        BY <1>7, <3>2 DEF InCopy
      <4> QED
        BY <4>1 DEF Covered, Listed
    <3>3. CASE InCopy(s, a) /\ s = t
      <4>1. PICK i \in DOMAIN c : c[i] = a
        BY <3>3 DEF InCopy, c
      <4>2. CASE i = 1
        <5>1. PICK k \in DOMAIN out_neigh(run.g, u) : out_neigh(run.g, u)[k] = v
          BY <1>2, <1>3, <1>9, <4>1, <4>2
        <5>2. Treats(t, a, v)'
          BY <1>2, <1>6, <4>1, <4>2, <5>1 DEF Treats
        <5> QED
          BY <5>2 DEF Covered
      <4>3. CASE i # 1
        <5>1. i - 1 \in DOMAIN Tail(c) /\ Tail(c)[i - 1] = a
          BY <1>2, <4>1, <4>3
        <5>2. InCopy(t, a)'
          BY <1>7, <5>1 DEF InCopy
        <5> QED
          BY <5>2 DEF Covered, Listed
      <4> QED
        BY <4>2, <4>3
    <3> QED
      BY <2>4, <3>1, <3>2, <3>3
  <2> QED
    BY <1>0, <1>6, <1>7, <2>1, <2>2, <2>3, <2>4, CoverKept
<1>10. CurrBin' = CurrBin /\ NextBin' = NextBin /\ NextBin \in Nat /\ mem'.shared_indexes \in [1 .. 2 -> Nat]
       /\ mem'.local_bins \in [Workers -> Seq(Seq(N))] /\ DOMAIN mem' = SsspFields
       /\ mem'.dist \in [N -> 0 .. kDistInf] /\ todo' \subseteq todo
  BY <1>0, <1>5, <1>7, Copies DEF CurrBin, NextBin, Curr, Nxt, SsspType
<1>11. \A v \in N : run.ref[v] <= mem'.dist[v] /\ mem'.dist[v] <= mem.dist[v]
  <2>1. kDistInf \in Nat /\ mem.dist \in [N -> 0 .. kDistInf] /\ \A v \in N : run.ref[v] <= mem.dist[v]
    BY <1>0, SsspGraph DEF DistancesInv, SsspType
  <2> QED
    BY <1>7, <2>1
<1>12. NextBin' <= NextBin
  BY <1>10
<1> QED
  BY <1>0, <1>6, <1>7, <1>8, <1>9, <1>10, <1>11, <1>12, LoopStepKeeps

\* The end of the list, and of the fused bin: the thread is free.
LEMMA RelaxOldFrees ==
  ASSUME DistancesInv, NEW t \in Workers, RelaxOld(t), w[t].nb = <<>>, mem.curr_bin_copy[t] = <<>>
  PROVE  DistancesInv'
<1>0. SsspType /\ SsspThread(t) /\ phase = "relax" /\ w' = [w EXCEPT ![t] = Free]
      /\ UNCHANGED <<run, phase, todo, mem>> /\ todo' \subseteq todo
  BY DEF DistancesInv, RelaxOld
<1>1. /\ w' \in [Workers -> SsspRecord] /\ Others(t) /\ w'[t].pc = "grab" /\ w'[t].nb = <<>>
  BY <1>0, SsspRecords DEF SsspType, Others
<1>2. SsspThread(t)'
  BY <1>0, <1>1 DEF SsspThread, EdgePcs
<1>3. ASSUME NEW a \in N, NEW v \in N, InPlace(a) \/ Treats(t, a, v) PROVE Covered(a, v)'
  <2>1. InPlace(a)
    BY <1>3 DEF Treats
  <2>2. InPlace(a)'
    BY <1>0, <2>1 DEF InPlace, Places, Curr, Nxt
  <2> QED
    BY <2>2 DEF Covered, Listed
<1> QED
  BY <1>0, <1>1, <1>2, <1>3, ThreadStepKeeps

\* The new distance is compared with the old.
LEMMA RelaxNewKeeps ==
  ASSUME DistancesInv, NEW t \in Workers, RelaxNew(t)
  PROVE  DistancesInv'
<1> DEFINE u == w[t].u
           v == Head(w[t].nb)
           new == mem.dist[u] + run.weight[<<u, v>>]
<1>0. SsspType /\ SsspThread(t) /\ phase = "relax" /\ w[t].pc = "new" /\ w[t].nb # <<>>
      /\ w[t].x <= kDistInf /\ mem.dist[v] <= w[t].x
      /\ UNCHANGED <<run, phase, todo, mem>>
      /\ IF new < w[t].x THEN w' = [w EXCEPT ![t].pc = "cas", ![t].y = new] ELSE Advance(t, "old")
  BY DEF DistancesInv, RelaxNew, SsspThread, EdgePcs
<1>1. u \in N /\ v \in N /\ Edge(run.g, u, v)
  BY <1>0, HeadEdge
<1>2. /\ mem.dist[u] \in Nat /\ mem.dist[v] \in Nat /\ run.weight[<<u, v>>] \in Nat /\ kDistInf \in Nat
      /\ run.ref[u] \in Nat /\ run.ref[v] \in Nat
      /\ run.ref[u] <= mem.dist[u] /\ run.ref[v] <= run.ref[u] + run.weight[<<u, v>>] /\ w[t].x \in Int
  <2>1. w[t] \in SsspRecord
    BY <1>0 DEF SsspType
  <2>2. SsspRun /\ run \in Runs
    BY <1>0 DEF SsspType
  <2>3. kDistInf \in Nat /\ \A n \in N : run.ref[n] \in 0 .. kDistInf
    BY <2>2, SsspGraph
  <2>4. run.ref[u] \in Nat /\ run.ref[v] \in Nat
    BY <1>1, <2>3
  <2>5. run.weight[<<u, v>>] \in Nat /\ run.ref[v] <= run.ref[u] + run.weight[<<u, v>>]
    BY <1>1, <2>2, SsspGraph
  <2>6. mem.dist[u] \in Nat /\ mem.dist[v] \in Nat
    BY <1>0, <1>1, BinOf
  <2>7. run.ref[u] <= mem.dist[u]
    BY <1>1 DEF DistancesInv
  <2>8. w[t].x \in Int
    BY <2>1 DEF SsspRecord
  <2> QED
    BY <2>3, <2>4, <2>5, <2>6, <2>7, <2>8
<1>3. CASE new < w[t].x
  <2>1. new \in Nat /\ new < kDistInf /\ run.ref[v] <= new
    BY <1>0, <1>2, <1>3
  <2>2. w' = [w EXCEPT ![t] = [w[t] EXCEPT !.pc = "cas", !.y = new]]
    BY <1>0, <1>3
  <2>3. new = mem.dist[w[t].u] + run.weight[<<w[t].u, Head(w[t].nb)>>]
    OBVIOUS
  <2> HIDE DEF new
  <2>4. /\ w' \in [Workers -> SsspRecord] /\ Others(t)
        /\ w'[t].pc = "cas" /\ w'[t].u = w[t].u /\ w'[t].nb = w[t].nb /\ w'[t].x = w[t].x /\ w'[t].y = new
    <3>1. w[t] \in SsspRecord /\ "cas" \in SsspPcs /\ new \in Int
      BY <1>0, <2>1 DEF SsspType, SsspPcs, EdgePcs
    <3>2. [w[t] EXCEPT !.pc = "cas", !.y = new] \in SsspRecord
      BY <3>1, SsspRecords
    <3> QED
      BY <1>0, <2>2, <3>1, <3>2 DEF Others, SsspRecord, SsspType
  <2>5. SsspThread(t)'
    <3>1. N' = N
      BY <1>0 DEF N
    <3> QED
      BY <1>0, <1>3, <2>1, <2>4, <3>1 DEF SsspThread, EdgePcs
  <2>6. w'[t].y <= mem.dist[w[t].u] + run.weight[<<w[t].u, Head(w[t].nb)>>]
    BY <1>2, <2>1, <2>3, <2>4
  <2> QED
    BY <1>0, <2>4, <2>5, <2>6, AtEdgeKeeps
<1>4. CASE ~(new < w[t].x)
  <2>1. mem.dist[v] <= new
    BY <1>0, <1>2, <1>4
  <2>2. Relaxed(u, v)
    BY <2>1 DEF Relaxed
  <2> QED
    BY <1>0, <1>4, <2>2, PassKeeps
<1> QED
  BY <1>3, <1>4

\* After a failed swap the distance is compared again.
LEMMA RelaxRereadKeeps ==
  ASSUME DistancesInv, NEW t \in Workers, RelaxReread(t)
  PROVE  DistancesInv'
<1> DEFINE u == w[t].u
           v == Head(w[t].nb)
           old == mem.dist[v]
<1>0. SsspType /\ SsspThread(t) /\ phase = "relax" /\ w[t].pc = "reread" /\ w[t].nb # <<>>
      /\ w[t].y \in Nat /\ w[t].y < kDistInf /\ run.ref[v] <= w[t].y
      /\ UNCHANGED <<run, phase, todo, mem>>
      /\ IF w[t].y < old THEN w' = [w EXCEPT ![t].pc = "cas", ![t].x = old] ELSE Advance(t, "old")
  BY DEF DistancesInv, RelaxReread, SsspThread, EdgePcs
<1>1. u \in N /\ v \in N /\ Edge(run.g, u, v)
  BY <1>0, HeadEdge
<1>2. mem.dist[u] \in Nat /\ old \in Nat /\ run.weight[<<u, v>>] \in Nat
  BY <1>0, <1>1, BinOf, SsspGraph DEF SsspType
<1>3. CASE w[t].y < old
  <2>1. w' = [w EXCEPT ![t] = [w[t] EXCEPT !.pc = "cas", !.x = old]]
    BY <1>0, <1>3
  <2> HIDE DEF old
  <2>2. /\ w' \in [Workers -> SsspRecord] /\ Others(t)
        /\ w'[t].pc = "cas" /\ w'[t].u = w[t].u /\ w'[t].nb = w[t].nb /\ w'[t].x = old /\ w'[t].y = w[t].y
    <3>1. w[t] \in SsspRecord /\ "cas" \in SsspPcs /\ old \in Int
      BY <1>0, <1>2 DEF SsspType, SsspPcs, EdgePcs
    <3>2. [w[t] EXCEPT !.pc = "cas", !.x = old] \in SsspRecord
      BY <3>1, SsspRecords
    <3> QED
      BY <1>0, <2>1, <3>1, <3>2 DEF Others, SsspRecord, SsspType
  <2>3. SsspThread(t)'
    <3>1. N' = N
      BY <1>0 DEF N
    <3> QED
      BY <1>0, <1>3, <2>2, <3>1 DEF SsspThread, EdgePcs
  <2> QED
    BY <1>0, <2>2, <2>3, AtEdgeKeeps
<1>4. CASE ~(w[t].y < old)
  <2>1. w[t].y <= mem.dist[u] + run.weight[<<u, v>>] => mem.dist[v] <= mem.dist[u] + run.weight[<<u, v>>]
    BY <1>0, <1>2, <1>4
  <2>2. w[t].y <= mem.dist[u] + run.weight[<<u, v>>] => Relaxed(u, v)
    BY <2>1 DEF Relaxed
  <2> QED
    BY <1>0, <1>4, <2>2, PassKeeps
<1> QED
  BY <1>3, <1>4

----------------------------------------------------------------------------
(* Shortest paths: the steps that change the shared arrays.                *)

\* What a swap assigns: the distance of v is y, and v is in the bin of y.
Improved(t, v, y, after) ==
    /\ after.dist = [mem.dist EXCEPT ![v] = y]
    /\ after.local_bins = [mem.local_bins EXCEPT ![t] = PutInBin(mem.local_bins[t], y \div run.delta, v)]
    /\ \A f \in SsspFields \ {"dist", "local_bins"} : after[f] = mem[f]
    /\ DOMAIN after = SsspFields

\* A swap that succeeds covers the edges of the node it improves by its bin.
LEMMA SwapKeeps ==
  ASSUME DistancesInv, NEW t \in Workers, RelaxCas(t), mem.dist[Head(w[t].nb)] = w[t].x
  PROVE  DistancesInv'
<1>a. PICK v, y, b : v = Head(w[t].nb) /\ y = w[t].y /\ b = y \div run.delta
  OBVIOUS
<1>0. SsspType /\ SsspThread(t) /\ phase = "relax" /\ w[t].pc = "cas" /\ w[t].nb # <<>>
      /\ y \in Nat /\ y < kDistInf /\ run.ref[v] <= y /\ y < mem.dist[v]
      /\ UNCHANGED <<run, phase, todo>> /\ Advance(t, "old") /\ todo' \subseteq todo
      /\ mem' = [mem EXCEPT !.dist[v] = y, !.local_bins[t] = PutInBin(@, b, v)]
  BY <1>a DEF DistancesInv, RelaxCas, SsspThread, EdgePcs
<1>1. w[t].u \in N /\ v \in N /\ Edge(run.g, w[t].u, v) /\ 1 \in DOMAIN w[t].nb /\ v = w[t].nb[1]
  BY <1>a, <1>0, HeadEdge, FirstOf DEF SsspType
<1>2. Improved(t, v, y, mem')
  BY <1>a, <1>0 DEF Improved, SsspType, SsspFields
<1>3. /\ run.delta \in Nat \ {0} /\ b \in Nat /\ kDistInf \in Nat
      /\ \A n \in N : mem.dist[n] \in 0 .. kDistInf /\ run.ref[n] \in 0 .. kDistInf /\ run.ref[n] <= mem.dist[n]
  BY <1>a, <1>0, SsspGraph, DivMod DEF SsspType, DistancesInv
<1>4. /\ w' \in [Workers -> SsspRecord] /\ Others(t)
      /\ w'[t].pc = "old" /\ w'[t].u = w[t].u
      /\ \A i \in DOMAIN w'[t].nb : i + 1 \in DOMAIN w[t].nb /\ w'[t].nb[i] = w[t].nb[i + 1]
      /\ \A i \in DOMAIN w[t].nb : i # 1 => i - 1 \in DOMAIN w'[t].nb /\ w'[t].nb[i - 1] = w[t].nb[i]
  BY <1>0, SsspAdvanced DEF SsspType, SsspPcs
<1>5. /\ mem'.dist \in [N -> 0 .. kDistInf] /\ mem'.dist[v] = y
      /\ \A n \in N \ {v} : mem'.dist[n] = mem.dist[n]
      /\ \A n \in N : run.ref[n] <= mem'.dist[n] /\ mem'.dist[n] <= mem.dist[n]
  <2>1. mem.dist \in [N -> 0 .. kDistInf] /\ mem'.dist = [mem.dist EXCEPT ![v] = y] /\ y \in 0 .. kDistInf
    BY <1>0, <1>2, <1>3 DEF Improved, SsspType
  <2>2. mem'.dist \in [N -> 0 .. kDistInf] /\ mem'.dist[v] = y /\ \A n \in N \ {v} : mem'.dist[n] = mem.dist[n]
    BY <1>1, <2>1
  <2>3. ASSUME NEW n \in N PROVE run.ref[n] <= mem'.dist[n] /\ mem'.dist[n] <= mem.dist[n]
    <3>1. CASE n = v
      BY <1>0, <1>3, <2>2, <3>1
    <3>2. CASE n # v
      BY <1>3, <2>2, <3>2
    <3> QED
      BY <3>1, <3>2
  <2> QED
    BY <2>2, <2>3
<1>6. /\ mem'.local_bins \in [Workers -> Seq(Seq(N))]
      /\ \A s \in Workers \ {t} : mem'.local_bins[s] = mem.local_bins[s]
      /\ \A c \in Nat : \A i \in DOMAIN Bin(t, c) : i \in DOMAIN Bin(t, c)' /\ Bin(t, c)'[i] = Bin(t, c)[i]
      /\ \E i \in DOMAIN Bin(t, b)' : Bin(t, b)'[i] = v
  <2>1. mem.local_bins[t] \in Seq(Seq(N)) /\ mem.local_bins \in [Workers -> Seq(Seq(N))]
    BY <1>0 DEF SsspType
  <2> DEFINE put == PutInBin(mem.local_bins[t], b, v)
  <2>2. /\ put \in Seq(Seq(N))
        /\ \A c \in Nat : \A i \in DOMAIN BinAt(mem.local_bins[t], c) :
             i \in DOMAIN BinAt(put, c) /\ BinAt(put, c)[i] = BinAt(mem.local_bins[t], c)[i]
        /\ \E i \in DOMAIN BinAt(put, b) : BinAt(put, b)[i] = v
    <3>1. b \in Nat /\ v \in N /\ mem.local_bins[t] \in Seq(Seq(N))
      BY <1>1, <1>3, <2>1
    <3>2. put \in Seq(Seq(N)) /\ PutsIn(mem.local_bins[t], b, v, put)
      BY ONLY <3>1, BinPut DEF put
    <3> HIDE DEF put
    <3> QED
      BY ONLY <3>2 DEF PutsIn
  <2>3. mem'.local_bins = [mem.local_bins EXCEPT ![t] = put]
    BY <1>a, <1>2 DEF Improved
  <2> HIDE DEF put
  <2>4. \A c : Bin(t, c) = BinAt(mem.local_bins[t], c) /\ Bin(t, c)' = BinAt(put, c)
    BY <2>1, <2>3 DEF Bin, BinAt
  <2> QED
    BY <1>3, <2>1, <2>2, <2>3, <2>4
<1>7. /\ mem'.frontier = mem.frontier /\ mem'.frontier_tails = mem.frontier_tails
      /\ mem'.iter = mem.iter /\ mem'.shared_indexes = mem.shared_indexes
      /\ mem'.curr_bin_copy = mem.curr_bin_copy /\ DOMAIN mem' = SsspFields
  BY <1>2 DEF Improved, SsspFields
<1>8. SsspThread(t)'
  <2>1. N' = N
    BY <1>0 DEF N
  <2>2. \A i \in DOMAIN w'[t].nb : w'[t].u \in N /\ w'[t].nb[i] \in N /\ Edge(run.g, w'[t].u, w'[t].nb[i])
    BY <1>0, <1>4 DEF SsspThread
  <2> QED
    BY <1>0, <1>4, <2>1, <2>2 DEF SsspThread, EdgePcs
<1>9. ASSUME NEW a \in N, NEW z \in N, Edge(run.g, a, z) PROVE Covered(a, z)'
  <2>1. Covered(a, z)
    BY <1>9 DEF DistancesInv
  <2>2. CASE a = v
    <3>1. InBin(t, v)'
      BY <1>a, <1>0, <1>5, <1>6 DEF InBin
    <3> QED
      BY <2>2, <3>1 DEF Covered, Listed
  <2>3. CASE a # v
    <3>1. mem'.dist[a] = mem.dist[a] /\ mem.dist[a] \in Nat /\ run.weight[<<a, z>>] \in Nat
          /\ mem'.dist[z] \in Nat /\ mem.dist[z] \in Nat /\ mem'.dist[z] <= mem.dist[z]
      <4>1. mem'.dist[a] = mem.dist[a] /\ mem.dist[a] \in 0 .. kDistInf
            /\ mem'.dist[z] \in 0 .. kDistInf /\ mem.dist[z] \in 0 .. kDistInf /\ mem'.dist[z] <= mem.dist[z]
        BY <1>3, <1>5, <2>3
      <4>2. run.weight[<<a, z>>] \in Nat
        BY <1>0, <1>9, SsspGraph DEF SsspType
      <4> QED
        BY <1>3, <4>1, <4>2
    <3>2. CASE Relaxed(a, z)
      <4>1. mem'.dist[z] <= mem'.dist[a] + run.weight[<<a, z>>]
        BY <3>1, <3>2 DEF Relaxed
      <4> QED
        BY <1>0, <4>1 DEF Covered, Relaxed
    <3>3. CASE InPlace(a)
      <4>1. InPlace(a)'
        BY <1>0, <1>7, <3>3 DEF InPlace, Places, Curr, Nxt
      <4> QED
        BY <4>1 DEF Covered, Listed
    <3>4. ASSUME NEW s \in Workers, InBin(s, a) \/ InCopy(s, a) PROVE Covered(a, z)'
      <4>1. CASE InCopy(s, a)
        <5>1. InCopy(s, a)'
          BY <1>7, <4>1 DEF InCopy
        <5> QED
          BY <5>1 DEF Covered, Listed
      <4>2. CASE InBin(s, a) /\ s # t
        <5>1. InBin(s, a)'
          BY <1>0, <1>6, <3>1, <4>2 DEF InBin, Bin
        <5> QED
          BY <5>1 DEF Covered, Listed
      <4>3. CASE InBin(t, a)
        <5>1. PICK c \in Nat : c = mem.dist[a] \div run.delta
          BY <1>0, BinOf
        <5>2. PICK i \in DOMAIN Bin(t, c) : Bin(t, c)[i] = a
          BY <4>3, <5>1 DEF InBin
        <5>3. i \in DOMAIN Bin(t, c)' /\ Bin(t, c)'[i] = a
          BY <1>6, <5>1, <5>2
        <5>4. InBin(t, a)'
          BY <1>0, <3>1, <5>1, <5>3 DEF InBin
        <5> QED
          BY <5>4 DEF Covered, Listed
      <4> QED
        BY <3>4, <4>1, <4>2, <4>3
    <3>5. ASSUME NEW s \in Workers, Treats(s, a, z) PROVE Covered(a, z)'
      <4>1. PICK i \in DOMAIN w[s].nb :
              /\ w[s].u = a /\ w[s].nb[i] = z
              /\ i = 1 /\ w[s].pc \in {"cas", "reread"} => w[s].y <= mem.dist[a] + run.weight[<<a, z>>]
        BY <3>5 DEF Treats
      <4>2. CASE s # t
        <5>1. Treats(s, a, z)'
          BY <1>0, <1>4, <3>1, <4>1, <4>2 DEF Treats, Others
        <5> QED
          BY <5>1 DEF Covered
      <4>3. CASE s = t /\ i = 1
        <5>1. z = v /\ y <= mem.dist[a] + run.weight[<<a, z>>]
          BY <1>a, <1>0, <1>1, <4>1, <4>3
        <5>2. Relaxed(a, z)'
          BY <1>0, <1>5, <3>1, <5>1 DEF Relaxed
        <5> QED
          BY <5>2 DEF Covered
      <4>4. CASE s = t /\ i # 1
        <5>1. Treats(t, a, z)'
          BY <1>4, <4>1, <4>4 DEF Treats
        <5> QED
          BY <5>1 DEF Covered
      <4> QED
        BY <4>2, <4>3, <4>4
    <3> QED
      BY <2>1, <3>2, <3>3, <3>4, <3>5 DEF Covered, Listed
  <2> QED
    BY <2>2, <2>3
<1>10. /\ CurrBin' = CurrBin /\ NextBin' = NextBin /\ NextBin \in Nat
       /\ mem'.shared_indexes \in [1 .. 2 -> Nat] /\ mem'.curr_bin_copy \in [Workers -> Seq(N)]
  BY <1>0, <1>7, Copies DEF CurrBin, NextBin, Curr, Nxt, SsspType
<1>11. NextBin' <= NextBin
  BY <1>10
<1>12. \A s \in Workers \ {t} : mem'.local_bins[s] = mem.local_bins[s] /\ mem'.curr_bin_copy[s] = mem.curr_bin_copy[s]
  BY <1>6, <1>7
<1> QED
  BY <1>0, <1>4, <1>5, <1>6, <1>7, <1>8, <1>9, <1>10, <1>11, <1>12, LoopStepKeeps

\* A swap that fails is tried again, after the distance has been read again.
LEMMA RelaxCasKeeps ==
  ASSUME DistancesInv, NEW t \in Workers, RelaxCas(t)
  PROVE  DistancesInv'
<1>1. CASE mem.dist[Head(w[t].nb)] = w[t].x
  BY <1>1, SwapKeeps
<1>2. CASE mem.dist[Head(w[t].nb)] # w[t].x
  <2>0. SsspType /\ SsspThread(t) /\ phase = "relax" /\ w[t].pc = "cas" /\ w[t].nb # <<>>
        /\ w[t].y \in Nat /\ w[t].y < kDistInf /\ run.ref[Head(w[t].nb)] <= w[t].y
        /\ UNCHANGED <<run, phase, todo, mem>> /\ Go(t, "reread")
    BY <1>2 DEF DistancesInv, RelaxCas, SsspThread, EdgePcs
  <2>1. /\ w' \in [Workers -> SsspRecord] /\ Others(t)
        /\ w'[t].pc = "reread" /\ w'[t].u = w[t].u /\ w'[t].nb = w[t].nb /\ w'[t].y = w[t].y
    BY <2>0, SsspWent DEF SsspType, SsspPcs, EdgePcs
  <2>2. SsspThread(t)'
    <3>1. N' = N
      BY <2>0 DEF N
    <3> QED
      BY <2>0, <2>1, <3>1 DEF SsspThread, EdgePcs
  <2> QED
    BY <2>0, <2>1, <2>2, AtEdgeKeeps
<1> QED
  BY <1>1, <1>2

\* Fusing a bin: its nodes wait in the copy now.
LEMMA FuseBinKeeps ==
  ASSUME DistancesInv, NEW t \in Workers, FuseBin(t)
  PROVE  DistancesInv'
<1>a. PICK c : c = CurrBin
  OBVIOUS
<1>0. SsspType /\ SsspThread(t) /\ phase = "relax" /\ w[t].pc = "grab" /\ c \in Nat
      /\ w[t].nb = <<>> /\ mem.curr_bin_copy[t] = <<>> /\ Bin(t, c) # <<>>
      /\ UNCHANGED <<run, phase, todo>> /\ Go(t, "old") /\ todo' \subseteq todo
      /\ mem' = [mem EXCEPT !.curr_bin_copy[t] = Bin(t, c), !.local_bins[t][c + 1] = <<>>]
  BY <1>a, Copies DEF DistancesInv, FuseBin, LoopEnd, SsspThread
<1>1. /\ w' \in [Workers -> SsspRecord] /\ Others(t)
      /\ w'[t].pc = "old" /\ w'[t].nb = <<>>
  BY <1>0, SsspWent DEF SsspType, SsspPcs
<1>2. /\ mem'.dist = mem.dist /\ mem'.frontier = mem.frontier /\ mem'.frontier_tails = mem.frontier_tails
      /\ mem'.iter = mem.iter /\ mem'.shared_indexes = mem.shared_indexes /\ DOMAIN mem' = SsspFields
      /\ mem'.curr_bin_copy = [mem.curr_bin_copy EXCEPT ![t] = Bin(t, c)]
      /\ mem'.local_bins = [mem.local_bins EXCEPT ![t] = [mem.local_bins[t] EXCEPT ![c + 1] = <<>>]]
  BY <1>0 DEF SsspType, SsspFields
<1>3. mem.local_bins \in [Workers -> Seq(Seq(N))] /\ mem.curr_bin_copy \in [Workers -> Seq(N)]
  BY <1>0 DEF SsspType
<1>4. \A b : Bin(t, b) = BinAt(mem.local_bins[t], b)
  BY DEF Bin, BinAt
<1>5. Bin(t, c) \in Seq(N)
  BY <1>0, <1>3, <1>4, BinLists
<1>6. /\ mem'.local_bins[t] \in Seq(Seq(N))
      /\ \A b \in Nat : b # c => BinAt(mem'.local_bins[t], b) = BinAt(mem.local_bins[t], b)
  <2>1. Empties(mem.local_bins[t], c, mem'.local_bins[t])
    BY <1>2, <1>3 DEF Empties
  <2>2. mem.local_bins[t] \in Seq(Seq(N)) /\ c \in Nat
    BY <1>0, <1>3
  <2> QED
    BY ONLY <2>1, <2>2, BinEmptied
<1>7. /\ mem'.local_bins \in [Workers -> Seq(Seq(N))] /\ mem'.curr_bin_copy \in [Workers -> Seq(N)]
      /\ mem'.curr_bin_copy[t] = Bin(t, c)
      /\ \A s \in Workers \ {t} : mem'.local_bins[s] = mem.local_bins[s] /\ mem'.curr_bin_copy[s] = mem.curr_bin_copy[s]
  BY <1>2, <1>3, <1>5, <1>6
<1>8. SsspThread(t)'
  BY <1>0, <1>1 DEF SsspThread, EdgePcs
<1>9. ASSUME NEW a \in N, NEW v \in N, Edge(run.g, a, v) PROVE Covered(a, v)'
  <2>1. Covered(a, v)
    BY <1>9 DEF DistancesInv
  <2>2. InPlace(a) => Covered(a, v)'
    <3>1. InPlace(a) => InPlace(a)'
      BY <1>0, <1>2 DEF InPlace, Places, Curr, Nxt
    <3> QED
      BY <3>1 DEF Covered, Listed
  <2>3. ~Treats(t, a, v)
    BY <1>0 DEF Treats
  <2>4. ASSUME NEW s \in Workers, InBin(s, a) \/ InCopy(s, a) PROVE Covered(a, v)'
    <3>1. CASE s # t
      <4>1. InBin(s, a)' \/ InCopy(s, a)'
        BY <1>0, <1>2, <1>7, <2>4, <3>1, BinsKept
      <4> QED
        BY <4>1 DEF Covered, Listed
    <3>2. CASE s = t
      <4>1. InBin(t, a)
        BY <1>0, <2>4, <3>2 DEF InCopy
      <4>2. PICK b \in Nat : b = mem.dist[a] \div run.delta
        BY <1>0, BinOf
      <4>3. PICK i \in DOMAIN Bin(t, b) : Bin(t, b)[i] = a
        BY <4>1, <4>2 DEF InBin
      <4>4. CASE b = c
        <5>1. InCopy(t, a)'
          BY <1>7, <4>3, <4>4 DEF InCopy
        <5> QED
          BY <5>1 DEF Covered, Listed
      <4>5. CASE b # c
        <5>1. Bin(t, b)' = Bin(t, b)
          BY <1>4, <1>6, <4>2, <4>5 DEF Bin, BinAt
        <5>2. InBin(t, a)'
          BY <1>0, <1>2, <4>2, <4>3, <5>1 DEF InBin
        <5> QED
          BY <5>2 DEF Covered, Listed
      <4> QED
        BY <4>4, <4>5
    <3> QED
      BY <3>1, <3>2
  <2> QED
    BY <1>0, <1>1, <1>2, <2>1, <2>2, <2>3, <2>4, CoverKept
<1>10. /\ CurrBin' = CurrBin /\ NextBin' = NextBin /\ NextBin \in Nat
       /\ mem'.shared_indexes \in [1 .. 2 -> Nat] /\ mem'.dist \in [N -> 0 .. kDistInf]
  BY <1>0, <1>2, Copies DEF CurrBin, NextBin, Curr, Nxt, SsspType
<1>11. \A v \in N : run.ref[v] <= mem'.dist[v] /\ mem'.dist[v] <= mem.dist[v]
  <2>1. kDistInf \in Nat /\ mem.dist \in [N -> 0 .. kDistInf] /\ \A v \in N : run.ref[v] <= mem.dist[v]
    BY <1>0, SsspGraph DEF DistancesInv, SsspType
  <2> QED
    BY <1>2, <2>1
<1>12. NextBin' <= NextBin
  BY <1>10
<1> QED
  BY <1>0, <1>1, <1>2, <1>7, <1>8, <1>9, <1>10, <1>11, <1>12, LoopStepKeeps

\* What a proposal does to the index of the next bin: it is not above any bin of
\* the thread with nodes in it that the round has not passed.
LEMMA Proposed ==
  ASSUME SsspType, NEW t \in Workers, ProposeBin(t)
  PROVE  /\ \A f \in SsspFields : f # "shared_indexes" => mem'[f] = mem[f]
         /\ DOMAIN mem' = SsspFields /\ mem'.shared_indexes \in [1 .. 2 -> Nat]
         /\ mem'.shared_indexes[Curr] = CurrBin /\ mem'.shared_indexes[Nxt] <= NextBin
         /\ \A b \in Nat : CurrBin <= b /\ Bin(t, b) # <<>> => mem'.shared_indexes[Nxt] <= b
<1> DEFINE nonEmpty == {b \in CurrBin .. Len(mem.local_bins[t]) - 1 : Bin(t, b) # <<>>}
           lowest == CHOOSE b \in nonEmpty : \A c \in nonEmpty : b <= c
<1>0. /\ Curr \in 1 .. 2 /\ Nxt \in 1 .. 2 /\ Curr # Nxt /\ CurrBin \in Nat /\ NextBin \in Nat
      /\ mem.shared_indexes \in [1 .. 2 -> Nat] /\ DOMAIN mem = SsspFields
      /\ Len(mem.local_bins[t]) \in Nat
  BY Copies, LenProperties DEF SsspType
<1>1. mem' = IF nonEmpty = {} THEN mem
             ELSE [mem EXCEPT !.shared_indexes[Nxt] = IF lowest < @ THEN lowest ELSE @]
  BY DEF ProposeBin
<1>2. \A b \in Nat : CurrBin <= b /\ Bin(t, b) # <<>> => b \in nonEmpty
  <2> SUFFICES ASSUME NEW b \in Nat, CurrBin <= b, Bin(t, b) # <<>> PROVE b \in nonEmpty
    OBVIOUS
  <2>1. b < Len(mem.local_bins[t])
    BY DEF Bin
  <2> QED
    BY <1>0, <2>1
<1>3. nonEmpty \subseteq Nat
  BY <1>0
<1>4. nonEmpty # {} => lowest \in nonEmpty /\ \A c \in nonEmpty : lowest <= c
  <2> DEFINE S == nonEmpty
  <2>1. S \subseteq Nat
    BY <1>3
  <2> HIDE DEF S
  <2>2. S # {} => \E x \in S : \A c \in S : x <= c
    BY <2>1, LeastOne
  <2>3. S # {} => (CHOOSE x \in S : \A c \in S : x <= c) \in S
                  /\ \A c \in S : (CHOOSE x \in S : \A d \in S : x <= d) <= c
    BY <2>2
  <2> QED
    BY <2>3 DEF S
<1> HIDE DEF nonEmpty, lowest
<1>5. CASE nonEmpty = {}
  <2>1. mem' = mem
    BY <1>1, <1>5
  <2> QED
    BY <1>0, <1>2, <1>5, <2>1 DEF CurrBin, NextBin
<1>6. CASE nonEmpty # {}
  <2>1. lowest \in Nat /\ \A c \in nonEmpty : lowest <= c
    BY <1>3, <1>4, <1>6
  <2> DEFINE m == IF lowest < NextBin THEN lowest ELSE NextBin
  <2>2. mem' = [mem EXCEPT !.shared_indexes = [mem.shared_indexes EXCEPT ![Nxt] = m]]
    BY <1>0, <1>1, <1>6 DEF NextBin
  <2>3. m \in Nat /\ m <= NextBin /\ m <= lowest
    BY <1>0, <2>1
  <2> HIDE DEF m
  <2>4. /\ mem'.shared_indexes = [mem.shared_indexes EXCEPT ![Nxt] = m]
        /\ \A f \in SsspFields : f # "shared_indexes" => mem'[f] = mem[f]
        /\ DOMAIN mem' = SsspFields
    BY <1>0, <2>2 DEF SsspFields
  <2>5. mem'.shared_indexes \in [1 .. 2 -> Nat] /\ mem'.shared_indexes[Nxt] = m
        /\ mem'.shared_indexes[Curr] = CurrBin
    BY <1>0, <2>3, <2>4 DEF CurrBin
  <2>6. ASSUME NEW b \in Nat, CurrBin <= b, Bin(t, b) # <<>> PROVE m <= b
    <3>1. lowest <= b
      BY <1>2, <2>1, <2>6
    <3> QED
      BY <2>1, <2>3, <3>1
  <2>7. \A b \in Nat : CurrBin <= b /\ Bin(t, b) # <<>> => mem'.shared_indexes[Nxt] <= b
    BY <2>5, <2>6
  <2>8. mem'.shared_indexes[Nxt] <= NextBin
    BY <2>3, <2>5
  <2> QED
    BY <2>4, <2>5, <2>7, <2>8
<1> QED
  BY <1>5, <1>6

\* So a thread that ends the round has no such bin below the next one.
LEMMA ProposeBinKeeps ==
  ASSUME DistancesInv, NEW t \in Workers, ProposeBin(t)
  PROVE  DistancesInv'
<1>0. SsspType /\ SsspThread(t) /\ phase = "relax" /\ w[t].pc = "grab"
      /\ w[t].nb = <<>> /\ mem.curr_bin_copy[t] = <<>>
      /\ UNCHANGED <<run, phase, todo>> /\ Go(t, "end") /\ todo' \subseteq todo
  BY DEF DistancesInv, ProposeBin, LoopEnd, SsspThread
<1>1. /\ w' \in [Workers -> SsspRecord] /\ Others(t)
      /\ w'[t].pc = "end" /\ w'[t].nb = <<>>
  BY <1>0, SsspWent DEF SsspType, SsspPcs
<1>2. /\ mem'.dist = mem.dist /\ mem'.frontier = mem.frontier /\ mem'.frontier_tails = mem.frontier_tails
      /\ mem'.iter = mem.iter /\ mem'.local_bins = mem.local_bins /\ mem'.curr_bin_copy = mem.curr_bin_copy
      /\ DOMAIN mem' = SsspFields /\ mem'.shared_indexes \in [1 .. 2 -> Nat]
  BY <1>0, Proposed DEF SsspFields
<1>3. Curr' = Curr /\ Nxt' = Nxt
  BY <1>2 DEF Curr, Nxt
<1>4. CurrBin' = CurrBin /\ NextBin' <= NextBin
      /\ \A b \in Nat : CurrBin <= b /\ Bin(t, b) # <<>> => NextBin' <= b
  <2>1. CurrBin' = mem'.shared_indexes[Curr] /\ NextBin' = mem'.shared_indexes[Nxt]
    BY <1>3 DEF CurrBin, NextBin
  <2> QED
    BY <1>0, <2>1, Proposed
<1>5. SsspThread(t)'
  <2>1. \A b \in Nat : Bin(t, b)' = Bin(t, b)
    BY <1>2 DEF Bin
  <2> QED
    BY <1>0, <1>1, <1>2, <1>4, <2>1 DEF SsspThread, EdgePcs
<1>6. ASSUME NEW a \in N, NEW v \in N, Edge(run.g, a, v) PROVE Covered(a, v)'
  <2>1. Covered(a, v)
    BY <1>6 DEF DistancesInv
  <2>2. InPlace(a) => Covered(a, v)'
    <3>1. InPlace(a) => InPlace(a)'
      BY <1>0, <1>2 DEF InPlace, Places, Curr, Nxt
    <3> QED
      BY <3>1 DEF Covered, Listed
  <2>3. ~Treats(t, a, v)
    BY <1>0 DEF Treats
  <2>4. \A s \in Workers : InBin(s, a) \/ InCopy(s, a) => Covered(a, v)'
    BY <1>0, <1>2, BinsKept DEF Covered, Listed
  <2> QED
    BY <1>0, <1>1, <1>2, <2>1, <2>2, <2>3, <2>4, CoverKept
<1>7. \A v \in N : run.ref[v] <= mem'.dist[v] /\ mem'.dist[v] <= mem.dist[v]
  <2>1. kDistInf \in Nat /\ mem.dist \in [N -> 0 .. kDistInf] /\ \A v \in N : run.ref[v] <= mem.dist[v]
    BY <1>0, SsspGraph DEF DistancesInv, SsspType
  <2> QED
    BY <1>2, <2>1
<1>8. /\ mem'.local_bins \in [Workers -> Seq(Seq(N))] /\ mem'.curr_bin_copy \in [Workers -> Seq(N)]
      /\ mem'.dist \in [N -> 0 .. kDistInf]
      /\ \A s \in Workers \ {t} : mem'.local_bins[s] = mem.local_bins[s] /\ mem'.curr_bin_copy[s] = mem.curr_bin_copy[s]
  BY <1>0, <1>2 DEF SsspType
<1> QED
  BY <1>0, <1>1, <1>2, <1>4, <1>5, <1>6, <1>7, <1>8, LoopStepKeeps

----------------------------------------------------------------------------
(* Shortest paths: the rounds.                                             *)

\* When a round has ended only the bins are left to relax edges, and none of those
\* the round has reached is below the next bin: going up by distance, the nodes
\* below the next bin have their distances, and their edges have spread them.
LEMMA NextSettled ==
  ASSUME DistancesInv, phase = "relax", AllEnd
  PROVE  Settled(NextBin)
<1>0. /\ SsspType /\ Settled(CurrBin) /\ CurrBin \in Nat /\ NextBin \in Nat /\ todo = {}
      /\ \A t \in Workers : SsspThread(t) /\ w[t].pc = "end"
      /\ mem.dist[run.source] = 0
  BY Copies DEF DistancesInv, Bound, AllEnd
<1>1. /\ run.delta \in Nat \ {0} /\ kDistInf \in Nat /\ run.source \in N /\ run.ref[run.source] = 0
      /\ run.delta * NextBin \in Nat
      /\ \A n \in N : mem.dist[n] \in 0 .. kDistInf /\ run.ref[n] \in 0 .. kDistInf /\ run.ref[n] <= mem.dist[n]
  BY <1>0, SsspGraph DEF SsspType, DistancesInv
<1>2. ASSUME NEW u \in N, run.ref[u] < run.delta * NextBin, mem.dist[u] = run.ref[u],
             NEW v \in N, Edge(run.g, u, v)
      PROVE  Relaxed(u, v)
  <2>1. Covered(u, v)
    BY <1>2 DEF DistancesInv
  <2>2. ~InPlace(u)
    BY <1>0 DEF InPlace, Places
  <2>3. ASSUME NEW t \in Workers PROVE ~InCopy(t, u) /\ ~Treats(t, u, v)
    BY <1>0 DEF InCopy, Treats, SsspThread
  <2>4. ASSUME NEW t \in Workers, InBin(t, u) PROVE Relaxed(u, v)
    <3>1. PICK c \in Nat : c = mem.dist[u] \div run.delta
      BY <1>0, BinOf
    <3>2. Bin(t, c) # <<>>
      BY <2>4, <3>1 DEF InBin
    <3>3. mem.dist[u] \in Nat /\ mem.dist[u] < run.delta * NextBin
      BY <1>1, <1>2
    <3>4. c < NextBin
      BY <1>0, <1>1, <3>1, <3>3, Quotient
    <3>5. ~(CurrBin <= c)
      <4>1. CurrBin <= c => NextBin <= c
        BY <1>0, <3>2 DEF SsspThread
      <4> QED
        BY <1>0, <3>4, <4>1
    <3>6. mem.dist[u] < run.delta * CurrBin
      <4>1. c < CurrBin
        BY <1>0, <3>5
      <4> QED
        BY <1>0, <1>1, <3>1, <3>3, <4>1, Quotient
    <3> QED
      BY <1>0, <1>2, <3>6 DEF Settled
  <2> QED
    BY <2>1, <2>2, <2>3, <2>4 DEF Covered, Listed
<1>3. ASSUME NEW n \in N, run.ref[n] < run.delta * NextBin, mem.dist[n] # run.ref[n] PROVE FALSE
  <2> DEFINE Late == {v \in N : run.ref[v] < run.delta * NextBin /\ mem.dist[v] # run.ref[v]}
             T == {run.ref[v] : v \in Late}
  <2>1. T \subseteq Nat
    BY <1>1
  <2>2. T # {}
    BY <1>3
  <2> HIDE DEF T
  <2>3. PICK x \in T : \A y \in T : x <= y
    BY <2>1, <2>2, LeastOne
  <2>4. PICK v \in Late : run.ref[v] = x
    BY <2>3 DEF T
  <2>5. v \in N \ {run.source} /\ run.ref[v] < kDistInf
    <3>1. v \in N /\ mem.dist[v] # run.ref[v]
      BY <2>4
    <3> QED
      BY <1>0, <1>1, <3>1
  <2>6. PICK u \in N : Edge(run.g, u, v) /\ run.ref[v] = run.ref[u] + run.weight[<<u, v>>]
    BY <1>0, <2>5, SsspGraph DEF SsspType
  <2>7. run.weight[<<u, v>>] \in Nat \ {0}
    BY <1>0, <2>5, <2>6, SsspGraph DEF SsspType
  <2>8. run.ref[u] < run.ref[v] /\ run.ref[u] < run.delta * NextBin
    BY <1>1, <2>4, <2>5, <2>6, <2>7
  <2>9. u \notin Late
    <3>1. SUFFICES ASSUME u \in Late PROVE FALSE
      OBVIOUS
    <3>2. x <= run.ref[u]
      BY <2>3, <3>1 DEF T
    <3> QED
      BY <1>1, <2>4, <2>5, <2>6, <2>8, <3>2
  <2>10. mem.dist[u] = run.ref[u]
    BY <2>6, <2>8, <2>9
  <2>11. Relaxed(u, v)
    BY <1>2, <2>5, <2>6, <2>8, <2>10
  <2>12. mem.dist[v] <= run.ref[v]
    BY <2>6, <2>10, <2>11 DEF Relaxed
  <2> QED
    BY <1>1, <2>4, <2>5, <2>12
<1> QED
  BY <1>2, <1>3 DEF Settled

\* A team that starts a loop is free.
LEMMA TeamFree ==
  ASSUME NEW p, NEW items, StartLoop(p, items)
  PROVE  /\ w' \in [Workers -> SsspRecord] /\ run' = run /\ phase' = p /\ todo' = items
         /\ \A t \in Workers : w'[t].pc = "grab" /\ w'[t].nb = <<>>
BY SsspRecords DEF StartLoop

\* Of a free thread with an empty copy there is nothing to say.
LEMMA FreeThreads ==
  ASSUME \A t \in Workers : w'[t].pc = "grab" /\ w'[t].nb = <<>> /\ mem'.curr_bin_copy[t] = <<>>
  PROVE  \A t \in Workers : SsspThread(t)'
BY DEF SsspThread, EdgePcs

\* Between the loops over edges nobody is at an edge or has a copy.
LEMMA NobodyBusy ==
  ASSUME DistancesInv, phase \in {"ss_top", "copy", "done"} \/ AllEnd
  PROVE  \A t \in Workers : /\ mem.curr_bin_copy[t] = <<>> /\ w[t].nb = <<>>
                            /\ \A u, v : ~InCopy(t, u) /\ ~Treats(t, u, v)
<1> SUFFICES ASSUME NEW t \in Workers
             PROVE  /\ mem.curr_bin_copy[t] = <<>> /\ w[t].nb = <<>>
                    /\ \A u, v : ~InCopy(t, u) /\ ~Treats(t, u, v)
  OBVIOUS
<1>1. w[t].pc \in {"grab", "end"} /\ SsspThread(t)
  BY DEF DistancesInv, SsspThread, AllEnd
<1>2. mem.curr_bin_copy[t] = <<>> /\ w[t].nb = <<>>
  BY <1>1 DEF SsspThread
<1> QED
  BY <1>2 DEF InCopy, Treats

\* A new round over the frontier, or the end.
LEMMA SsspTopKeeps ==
  ASSUME DistancesInv, SsspTop
  PROVE  DistancesInv'
<1>0. /\ SsspType /\ phase = "ss_top" /\ mem' = mem /\ Settled(CurrBin)
      /\ IF CurrBin = kMaxBin THEN StartLoop("done", {})
         ELSE StartLoop("relax", 0 .. mem.frontier_tails[Curr] - 1)
  BY DEF DistancesInv, SsspTop, Bound
<1>1. /\ w' \in [Workers -> SsspRecord] /\ run' = run
      /\ \A t \in Workers : w'[t].pc = "grab" /\ w'[t].nb = <<>>
      /\ \/ phase' = "done" /\ todo' = {} /\ CurrBin = kMaxBin
         \/ phase' = "relax" /\ todo' = 0 .. mem.frontier_tails[Curr] - 1
  BY <1>0, TeamFree
<1>2. N' = N /\ Curr' = Curr /\ Nxt' = Nxt /\ CurrBin' = CurrBin /\ Bound' = CurrBin
  BY <1>0, <1>1 DEF N, Curr, Nxt, CurrBin, Bound
<1>3. SsspType'
  BY <1>0, <1>1, <1>2 DEF SsspType, SsspRun, SsspPhases
<1>4. \A t \in Workers : SsspThread(t)'
  BY <1>0, <1>1, NobodyBusy, FreeThreads
<1>5. Places' = Places
  BY <1>0, <1>1, <1>2 DEF Places
<1>6. ASSUME NEW u \in N, NEW v \in N, Edge(run.g, u, v) PROVE Covered(u, v)'
  <2>1. Relaxed(u, v) \/ Listed(u)
    BY <1>0, <1>6, NobodyBusy DEF DistancesInv, Covered
  <2>2. Relaxed(u, v) => Relaxed(u, v)'
    BY <1>0, <1>1 DEF Relaxed
  <2>3. Listed(u) => Listed(u)'
    BY <1>0, <1>1, <1>5 DEF Listed, InPlace, InBin, InCopy, Bin
  <2> QED
    BY <2>1, <2>2, <2>3 DEF Covered
<1>7. Settled(CurrBin)'
  BY <1>0, <1>1, <1>2 DEF Settled, Relaxed
<1> QED
  BY <1>0, <1>1, <1>2, <1>3, <1>4, <1>6, <1>7 DEF DistancesInv, Bound

\* The end of a round: the next bin takes the place of the current.
LEMMA RelaxEndKeeps ==
  ASSUME DistancesInv, RelaxEnd
  PROVE  DistancesInv'
<1>0. /\ SsspType /\ phase = "relax" /\ AllEnd /\ todo = {} /\ StartLoop("copy", {})
      /\ mem' = [mem EXCEPT !.shared_indexes[Curr] = kMaxBin, !.frontier_tails[Curr] = 0]
      /\ Curr \in 1 .. 2 /\ Nxt \in 1 .. 2 /\ Curr # Nxt /\ kMaxBin \in Nat
  BY Copies, SsspAssumption DEF DistancesInv, RelaxEnd, AllEnd
<1>1. /\ w' \in [Workers -> SsspRecord] /\ run' = run /\ phase' = "copy" /\ todo' = {}
      /\ \A t \in Workers : w'[t].pc = "grab" /\ w'[t].nb = <<>>
  BY <1>0, TeamFree
<1>2. /\ mem'.dist = mem.dist /\ mem'.frontier = mem.frontier /\ mem'.iter = mem.iter
      /\ mem'.local_bins = mem.local_bins /\ mem'.curr_bin_copy = mem.curr_bin_copy /\ DOMAIN mem' = SsspFields
      /\ mem'.shared_indexes = [mem.shared_indexes EXCEPT ![Curr] = kMaxBin]
      /\ mem'.frontier_tails = [mem.frontier_tails EXCEPT ![Curr] = 0]
  BY <1>0 DEF SsspType, SsspFields
<1>3. N' = N /\ Curr' = Curr /\ Nxt' = Nxt
  BY <1>1, <1>2 DEF N, Curr, Nxt
<1>4. mem.shared_indexes \in [1 .. 2 -> Nat] /\ mem.frontier_tails \in [1 .. 2 -> Nat]
      /\ Len(mem.frontier) \in Nat
  BY <1>0, LenProperties DEF SsspType
<1>5. NextBin' = NextBin
  BY <1>0, <1>2, <1>3, <1>4 DEF NextBin
<1>6. SsspType'
  <2>1. mem'.shared_indexes \in [1 .. 2 -> Nat] /\ mem'.frontier_tails \in [1 .. 2 -> Nat]
        /\ \A i \in 1 .. 2 : mem'.frontier_tails[i] <= Len(mem.frontier)
    BY <1>0, <1>2, <1>4 DEF SsspType
  <2> QED
    BY <1>0, <1>1, <1>2, <1>3, <2>1 DEF SsspType, SsspRun, SsspPhases
<1>7. \A t \in Workers : SsspThread(t)'
  BY <1>0, <1>1, <1>2, NobodyBusy, FreeThreads
<1>8. ASSUME NEW u \in N, NEW v \in N, Edge(run.g, u, v) PROVE Covered(u, v)'
  <2>1. Covered(u, v) /\ ~InPlace(u)
    BY <1>0, <1>8 DEF DistancesInv, InPlace, Places
  <2>2. Relaxed(u, v) \/ \E t \in Workers : InBin(t, u)
    BY <1>0, <2>1, NobodyBusy DEF Covered, Listed
  <2>3. Relaxed(u, v) => Relaxed(u, v)'
    BY <1>1, <1>2 DEF Relaxed
  <2>4. ASSUME NEW t \in Workers, InBin(t, u) PROVE Listed(u)'
    <3>1. InBin(t, u)'
      BY <1>1, <1>2, <2>4, BinsKept
    <3> QED
      BY <3>1 DEF Listed
  <2> QED
    BY <2>2, <2>3, <2>4 DEF Covered
<1>9. Settled(NextBin)'
  <2>1. Settled(NextBin)
    BY <1>0, NextSettled
  <2> QED
    BY <1>1, <1>2, <1>3, <1>5, <2>1 DEF Settled, Relaxed
<1>10. (\A v \in N : run.ref[v] <= mem.dist[v]) /\ mem.dist[run.source] = 0
  BY DEF DistancesInv
<1> QED
  BY <1>1, <1>2, <1>3, <1>6, <1>7, <1>8, <1>9, <1>10 DEF DistancesInv, Bound

\* Copying b into f behind its first k places.
Spliced(f, k, b) == SubSeq(f, 1, k) \o b \o SubSeq(f, k + Len(b) + 1, Len(f))

\* The first k places stay, b comes behind them, and the list is no shorter.
LEMMA Splicing ==
  ASSUME NEW S, NEW f \in Seq(S), NEW b \in Seq(S), NEW k \in Nat, k <= Len(f)
  PROVE  /\ Spliced(f, k, b) \in Seq(S)
         /\ Len(f) <= Len(Spliced(f, k, b)) /\ k + Len(b) <= Len(Spliced(f, k, b))
         /\ \A i \in 1 .. k : Spliced(f, k, b)[i] = f[i]
         /\ \A i \in 1 .. Len(b) : Spliced(f, k, b)[k + i] = b[i]
<1> DEFINE pre == SubSeq(f, 1, k)
           post == SubSeq(f, k + Len(b) + 1, Len(f))
<1>1. Len(f) \in Nat /\ Len(b) \in Nat /\ DOMAIN f = 1 .. Len(f)
  BY LenProperties
<1>2. pre \in Seq(S) /\ Len(pre) = k /\ \A i \in 1 .. k : pre[i] = f[i]
  <2>1. \A i \in 1 .. k : f[i] \in S
    BY <1>1, ElementOfSeq
  <2> QED
    BY <1>1, <2>1, SubSeqProperties
<1>3. post \in Seq(S) /\ Len(post) = IF k + Len(b) + 1 <= Len(f) THEN Len(f) - (k + Len(b)) ELSE 0
  <2>1. \A i \in k + Len(b) + 1 .. Len(f) : f[i] \in S
    BY <1>1, ElementOfSeq
  <2> QED
    BY <1>1, <2>1, SubSeqProperties
<1> HIDE DEF pre, post
<1>4. pre \o b \in Seq(S) /\ Len(pre \o b) = k + Len(b)
      /\ (\A i \in 1 .. k : (pre \o b)[i] = f[i]) /\ (\A i \in 1 .. Len(b) : (pre \o b)[k + i] = b[i])
  <2>1. pre \o b \in Seq(S) /\ Len(pre \o b) = k + Len(b)
    BY <1>1, <1>2, ConcatProperties
  <2>2. \A i \in 1 .. k : (pre \o b)[i] = f[i]
    BY <1>1, <1>2, ConcatProperties
  <2>3. \A i \in 1 .. Len(b) : (pre \o b)[k + i] = b[i]
    BY <1>1, <1>2, ConcatProperties
  <2> QED
    BY <2>1, <2>2, <2>3
<1> DEFINE both == pre \o b
<1>5. Spliced(f, k, b) = both \o post
  BY DEF Spliced, pre, post
<1> HIDE DEF both
<1>6. both \in Seq(S) /\ Len(both) = k + Len(b)
      /\ (\A i \in 1 .. k : both[i] = f[i]) /\ (\A i \in 1 .. Len(b) : both[k + i] = b[i])
  BY <1>4 DEF both
<1>7. both \o post \in Seq(S) /\ Len(both \o post) = k + Len(b) + Len(post)
  BY <1>1, <1>3, <1>6, ConcatProperties
<1>8. \A i \in 1 .. k + Len(b) : (both \o post)[i] = both[i]
  <2> SUFFICES ASSUME NEW i \in 1 .. k + Len(b) PROVE (both \o post)[i] = both[i]
    OBVIOUS
  <2>1. \A j \in 1 .. Len(both) + Len(post) :
          (both \o post)[j] = IF j <= Len(both) THEN both[j] ELSE post[j - Len(both)]
    <3>1. both \in Seq(S) /\ post \in Seq(S)
      BY <1>3, <1>6
    <3> QED
      BY ONLY <3>1, ConcatProperties
  <2>2. Len(post) \in Nat /\ i \in 1 .. Len(both) + Len(post) /\ i <= Len(both)
    <3>1. Len(post) \in Nat /\ Len(both) = k + Len(b)
      BY <1>3, <1>6, LenProperties
    <3> QED
      BY <1>1, <3>1
  <2> QED
    BY <2>1, <2>2
<1>9. Len(f) <= k + Len(b) + Len(post) /\ k + Len(b) <= k + Len(b) + Len(post)
  <2>1. Len(post) \in Nat
    BY <1>3, LenProperties
  <2>2. CASE k + Len(b) + 1 <= Len(f)
    BY <1>1, <1>3, <2>1, <2>2
  <2>3. CASE ~(k + Len(b) + 1 <= Len(f))
    BY <1>1, <2>1, <2>3
  <2> QED
    BY <2>2, <2>3
<1>10. (\A i \in 1 .. k : i \in 1 .. k + Len(b)) /\ (\A i \in 1 .. Len(b) : k + i \in 1 .. k + Len(b))
  BY <1>1
<1> QED
  BY <1>5, <1>6, <1>7, <1>8, <1>9, <1>10

\* The nodes of the next bin of thread t wait in the next frontier now.
LEMMA CopyBinKeeps ==
  ASSUME DistancesInv, NEW t \in Workers, CopyBin(t)
  PROVE  DistancesInv'
<1>a. PICK c, k, nxt : c = NextBin /\ k = mem.frontier_tails[Nxt] /\ nxt = Nxt
  OBVIOUS
<1> DEFINE b == Bin(t, c)
<1>0. /\ SsspType /\ phase = "copy" /\ w[t].pc = "grab" /\ todo = {} /\ c \in Nat /\ k \in Nat
      /\ nxt \in 1 .. 2 /\ UNCHANGED <<run, phase, todo>> /\ Go(t, "end") /\ Settled(c)
      /\ mem' = IF c >= Len(mem.local_bins[t]) THEN mem
                ELSE [mem EXCEPT !.frontier_tails[nxt] = k + Len(b),
                                 !.frontier = Spliced(mem.frontier, k, b),
                                 !.local_bins[t][c + 1] = <<>>]
  BY <1>a, Copies DEF DistancesInv, CopyBin, Spliced, SsspType, Bound
<1>1. /\ w' \in [Workers -> SsspRecord] /\ Others(t)
      /\ w'[t].pc = "end" /\ w'[t].nb = w[t].nb
  BY <1>0, SsspWent DEF SsspType, SsspPcs
<1>2. \A s \in Workers : mem.curr_bin_copy[s] = <<>> /\ w[s].nb = <<>> /\ w[s].pc \in {"grab", "end"}
                         /\ \A u, v : ~InCopy(s, u) /\ ~Treats(s, u, v)
  <2>1. \A s \in Workers : w[s].pc \in {"grab", "end"}
    BY <1>0 DEF DistancesInv, SsspThread
  <2> QED
    BY <1>0, <2>1, NobodyBusy
<1>3. mem.frontier \in Seq(N) /\ mem.local_bins \in [Workers -> Seq(Seq(N))] /\ k <= Len(mem.frontier)
      /\ Len(mem.frontier) \in Nat /\ mem.frontier_tails \in [1 .. 2 -> Nat]
      /\ \A i \in 1 .. 2 : mem.frontier_tails[i] <= Len(mem.frontier)
  BY <1>a, <1>0, LenProperties DEF SsspType
<1>4. \A d : Bin(t, d) = BinAt(mem.local_bins[t], d) /\ Bin(t, d)' = BinAt(mem'.local_bins[t], d)
  BY DEF Bin, BinAt
<1>5. b \in Seq(N) /\ Len(b) \in Nat /\ DOMAIN b = 1 .. Len(b)
  <2>1. BinAt(mem.local_bins[t], c) \in Seq(N)
    BY <1>0, <1>3, BinLists
  <2> QED
    BY <1>4, <2>1, LenProperties
<1> HIDE DEF b
<1>6. /\ mem'.dist = mem.dist /\ mem'.iter = mem.iter /\ mem'.shared_indexes = mem.shared_indexes
      /\ mem'.curr_bin_copy = mem.curr_bin_copy /\ DOMAIN mem' = SsspFields
  BY <1>0 DEF SsspType, SsspFields
<1>7. /\ N' = N /\ Curr' = Curr /\ Nxt' = Nxt /\ nxt = Nxt /\ NextBin' = NextBin /\ c = NextBin
      /\ mem.frontier_tails[Nxt] = k
  BY <1>a, <1>0, <1>6 DEF N, Curr, Nxt, NextBin
\* Where the nodes are afterwards.
<1>8. /\ mem'.frontier \in Seq(N) /\ mem'.frontier_tails \in [1 .. 2 -> Nat]
      /\ \A i \in 1 .. 2 : mem'.frontier_tails[i] <= Len(mem'.frontier)
      /\ mem'.local_bins \in [Workers -> Seq(Seq(N))]
      /\ \A s \in Workers \ {t} : mem'.local_bins[s] = mem.local_bins[s]
      /\ \A d \in Nat : d # c => Bin(t, d)' = Bin(t, d)
      /\ \A i \in 0 .. k - 1 : i \in 0 .. mem'.frontier_tails[nxt] - 1 /\ mem'.frontier[i + 1] = mem.frontier[i + 1]
      /\ \A j \in DOMAIN Bin(t, c) : \E i \in 0 .. mem'.frontier_tails[nxt] - 1 : mem'.frontier[i + 1] = Bin(t, c)[j]
  <2>1. CASE c >= Len(mem.local_bins[t])
    <3>1. mem' = mem /\ Bin(t, c) = <<>>
      <4>1. Len(mem.local_bins[t]) \in Nat
        BY <1>3, LenProperties
      <4> QED
        BY <1>0, <2>1, <4>1 DEF Bin
    <3>2. \A d \in Nat : Bin(t, d)' = Bin(t, d)
      BY <3>1 DEF Bin
    <3>3. mem.frontier_tails[nxt] = k /\ DOMAIN Bin(t, c) = {}
      BY <1>a, <3>1
    <3>4. \A i \in 0 .. k - 1 : i \in 0 .. mem'.frontier_tails[nxt] - 1 /\ mem'.frontier[i + 1] = mem.frontier[i + 1]
      BY <3>1, <3>3
    <3>5. \A j \in DOMAIN Bin(t, c) : \E i \in 0 .. mem'.frontier_tails[nxt] - 1 : mem'.frontier[i + 1] = Bin(t, c)[j]
      BY <3>3
    <3> QED
      BY <1>3, <3>1, <3>2, <3>4, <3>5
  <2>2. CASE ~(c >= Len(mem.local_bins[t]))
    <3> DEFINE f == Spliced(mem.frontier, k, b)
    <3>1. /\ f \in Seq(N) /\ Len(mem.frontier) <= Len(f) /\ k + Len(b) <= Len(f)
          /\ \A i \in 1 .. k : f[i] = mem.frontier[i]
          /\ \A i \in 1 .. Len(b) : f[k + i] = b[i]
      <4>1. mem.frontier \in Seq(N) /\ b \in Seq(N) /\ k \in Nat /\ k <= Len(mem.frontier)
        BY <1>0, <1>3, <1>5
      <4> QED
        BY ONLY <4>1, Splicing DEF f
    <3>2. /\ mem'.frontier = f /\ mem'.frontier_tails = [mem.frontier_tails EXCEPT ![nxt] = k + Len(b)]
          /\ mem'.local_bins = [mem.local_bins EXCEPT ![t] = [mem.local_bins[t] EXCEPT ![c + 1] = <<>>]]
      BY <1>0, <2>2 DEF SsspType, SsspFields
    <3> HIDE DEF f
    <3>3. Len(f) \in Nat
      BY <3>1, LenProperties
    <3>4. /\ mem'.frontier_tails \in [1 .. 2 -> Nat] /\ mem'.frontier_tails[nxt] = k + Len(b)
          /\ \A i \in 1 .. 2 : mem'.frontier_tails[i] <= Len(mem'.frontier)
      <4>1. mem'.frontier_tails \in [1 .. 2 -> Nat] /\ mem'.frontier_tails[nxt] = k + Len(b)
            /\ \A i \in 1 .. 2 : i # nxt => mem'.frontier_tails[i] = mem.frontier_tails[i]
        <5>1. k + Len(b) \in Nat /\ nxt \in 1 .. 2 /\ mem.frontier_tails \in [1 .. 2 -> Nat]
          BY <1>0, <1>3, <1>5
        <5> QED
          BY ONLY <3>2, <5>1
      <4>2. ASSUME NEW i \in 1 .. 2 PROVE mem'.frontier_tails[i] <= Len(f)
        <5>1. CASE i = nxt
          BY <3>1, <4>1, <5>1
        <5>2. CASE i # nxt
          <6>1. mem'.frontier_tails[i] = mem.frontier_tails[i] /\ mem.frontier_tails[i] <= Len(mem.frontier)
                /\ Len(mem.frontier) <= Len(f) /\ mem.frontier_tails[i] \in Nat
            BY <1>3, <3>1, <4>1, <5>2
          <6> QED
            BY ONLY <1>3, <3>3, <6>1
        <5> QED
          BY <5>1, <5>2
      <4> QED
        BY <3>2, <4>1, <4>2
    <3>5. /\ mem'.local_bins[t] \in Seq(Seq(N))
          /\ \A d \in Nat : d # c => BinAt(mem'.local_bins[t], d) = BinAt(mem.local_bins[t], d)
      <4>1. Empties(mem.local_bins[t], c, mem'.local_bins[t])
        BY <1>3, <3>2 DEF Empties
      <4>2. mem.local_bins[t] \in Seq(Seq(N)) /\ c \in Nat
        BY <1>0, <1>3
      <4> QED
        BY ONLY <4>1, <4>2, BinEmptied
    <3>6. /\ mem'.local_bins \in [Workers -> Seq(Seq(N))]
          /\ \A s \in Workers \ {t} : mem'.local_bins[s] = mem.local_bins[s]
      BY <1>3, <3>2, <3>5
    <3>7. \A i \in 0 .. k - 1 : i \in 0 .. mem'.frontier_tails[nxt] - 1 /\ mem'.frontier[i + 1] = mem.frontier[i + 1]
      <4> SUFFICES ASSUME NEW i \in 0 .. k - 1
                   PROVE  i \in 0 .. mem'.frontier_tails[nxt] - 1 /\ mem'.frontier[i + 1] = mem.frontier[i + 1]
        OBVIOUS
      <4>1. i + 1 \in 1 .. k /\ i \in 0 .. (k + Len(b)) - 1
        BY <1>0, <1>5
      <4> QED
        BY <3>1, <3>2, <3>4, <4>1
    <3>8. ASSUME NEW j \in DOMAIN Bin(t, c)
          PROVE  \E i \in 0 .. mem'.frontier_tails[nxt] - 1 : mem'.frontier[i + 1] = Bin(t, c)[j]
      <4>1. j \in 1 .. Len(b) /\ b[j] = Bin(t, c)[j]
        BY <1>5, <3>8 DEF b
      <4>2. (k + j) - 1 \in 0 .. mem'.frontier_tails[nxt] - 1 /\ ((k + j) - 1) + 1 = k + j
        BY <1>0, <1>5, <3>4, <4>1
      <4>3. mem'.frontier[((k + j) - 1) + 1] = Bin(t, c)[j]
        BY <3>1, <3>2, <4>1, <4>2
      <4> QED
        BY <4>2, <4>3
    <3> QED
      BY <1>4, <3>1, <3>2, <3>4, <3>5, <3>6, <3>7, <3>8
  <2> QED
    BY <2>1, <2>2
<1>9. SsspType'
  BY <1>0, <1>1, <1>6, <1>7, <1>8 DEF SsspType, SsspRun
<1>10. ASSUME NEW s \in Workers PROVE SsspThread(s)'
  <2>1. w'[s].nb = <<>> /\ w'[s].pc \in {"grab", "end"} /\ mem'.curr_bin_copy[s] = <<>> /\ phase' = "copy"
    BY <1>0, <1>1, <1>2, <1>6 DEF Others
  <2> QED
    BY <2>1 DEF SsspThread, EdgePcs
<1>11. ASSUME NEW u \in N, NEW v \in N, Edge(run.g, u, v) PROVE Covered(u, v)'
  <2>1. Relaxed(u, v) \/ InPlace(u) \/ \E s \in Workers : InBin(s, u)
    BY <1>2, <1>11 DEF DistancesInv, Covered, Listed
  <2>2. Relaxed(u, v) => Relaxed(u, v)'
    BY <1>0, <1>6 DEF Relaxed
  <2>3. Places = 0 .. k - 1 /\ Places' = 0 .. mem'.frontier_tails[nxt] - 1
    BY <1>0, <1>7 DEF Places
  <2>4. InPlace(u) => InPlace(u)'
    BY <1>8, <2>3 DEF InPlace
  <2>5. ASSUME NEW s \in Workers, InBin(s, u) PROVE Listed(u)'
    <3>1. CASE s # t
      <4>1. InBin(s, u)'
        BY <1>0, <1>6, <1>8, <2>5, <3>1 DEF InBin, Bin
      <4> QED
        BY <4>1 DEF Listed
    <3>2. CASE s = t
      <4>1. PICK d \in Nat : d = mem.dist[u] \div run.delta
        BY <1>0, BinOf
      <4>2. PICK j \in DOMAIN Bin(t, d) : Bin(t, d)[j] = u
        BY <2>5, <3>2, <4>1 DEF InBin
      <4>3. CASE d = c
        <5>1. InPlace(u)'
          BY <1>8, <2>3, <4>2, <4>3 DEF InPlace
        <5> QED
          BY <5>1 DEF Listed
      <4>4. CASE d # c
        <5>1. Bin(t, d)' = Bin(t, d)
          BY <1>8, <4>1, <4>4
        <5>2. InBin(t, u)'
          BY <1>0, <1>6, <4>1, <4>2, <5>1 DEF InBin
        <5> QED
          BY <5>2 DEF Listed
      <4> QED
        BY <4>3, <4>4
    <3> QED
      BY <3>1, <3>2
  <2> QED
    BY <2>1, <2>2, <2>4, <2>5 DEF Covered, Listed
<1>12. Settled(NextBin)'
  BY <1>0, <1>6, <1>7 DEF Settled, Relaxed
<1>13. (\A v \in N : run.ref[v] <= mem.dist[v]) /\ mem.dist[run.source] = 0
  BY DEF DistancesInv
<1> QED
  BY <1>0, <1>6, <1>7, <1>9, <1>10, <1>11, <1>12, <1>13 DEF DistancesInv, Bound

\* The two copies change places.
LEMMA CopyEndKeeps ==
  ASSUME DistancesInv, CopyEnd
  PROVE  DistancesInv'
<1>0. /\ SsspType /\ phase = "copy" /\ mem' = [mem EXCEPT !.iter = 1 - mem.iter] /\ StartLoop("ss_top", {})
      /\ mem.iter \in {0, 1} /\ Settled(NextBin)
  BY DEF DistancesInv, CopyEnd, SsspType, Bound
<1>1. /\ w' \in [Workers -> SsspRecord] /\ run' = run /\ phase' = "ss_top" /\ todo' = {}
      /\ \A t \in Workers : w'[t].pc = "grab" /\ w'[t].nb = <<>>
  BY <1>0, TeamFree
<1>2. /\ mem'.dist = mem.dist /\ mem'.frontier = mem.frontier /\ mem'.frontier_tails = mem.frontier_tails
      /\ mem'.shared_indexes = mem.shared_indexes /\ mem'.iter = 1 - mem.iter /\ mem'.iter \in {0, 1}
      /\ mem'.local_bins = mem.local_bins /\ mem'.curr_bin_copy = mem.curr_bin_copy /\ DOMAIN mem' = SsspFields
  BY <1>0 DEF SsspType, SsspFields
<1>3. N' = N /\ Curr' = Nxt /\ CurrBin' = NextBin /\ Places' = Places
  <2>1. Curr' = Nxt
    BY <1>0, <1>2 DEF Curr, Nxt
  <2> QED
    BY <1>0, <1>1, <1>2, <2>1 DEF N, CurrBin, NextBin, Places
<1>4. SsspType'
  BY <1>0, <1>1, <1>2, <1>3 DEF SsspType, SsspRun, SsspPhases
<1>5. \A t \in Workers : SsspThread(t)'
  BY <1>0, <1>1, <1>2, NobodyBusy, FreeThreads
<1>6. ASSUME NEW u \in N, NEW v \in N, Edge(run.g, u, v) PROVE Covered(u, v)'
  <2>1. Relaxed(u, v) \/ Listed(u)
    BY <1>0, <1>6, NobodyBusy DEF DistancesInv, Covered
  <2>2. Relaxed(u, v) => Relaxed(u, v)'
    BY <1>1, <1>2 DEF Relaxed
  <2>3. Listed(u) => Listed(u)'
    BY <1>1, <1>2, <1>3 DEF Listed, InPlace, InBin, InCopy, Bin
  <2> QED
    BY <2>1, <2>2, <2>3 DEF Covered
<1>7. Settled(CurrBin)'
  BY <1>0, <1>1, <1>2, <1>3 DEF Settled, Relaxed
<1>8. (\A v \in N : run.ref[v] <= mem.dist[v]) /\ mem.dist[run.source] = 0
  BY DEF DistancesInv
<1> QED
  BY <1>1, <1>2, <1>3, <1>4, <1>5, <1>6, <1>7, <1>8 DEF DistancesInv, Bound

----------------------------------------------------------------------------
(* Shortest paths: the whole kernel.                                       *)

\* At the start only the source has a distance, and it is in the frontier.
LEMMA DistancesInit ==
  ASSUME Init, SsspRun
  PROVE  DistancesInv
<1>1. /\ run \in Runs /\ run.kernel = "sssp" /\ todo = {} /\ w = [t \in Workers |-> Free]
      /\ phase = "ss_top" /\ mem = SsspMem(run)
  BY DEF Init, SsspRun, FirstPhase
<1>2. /\ run.delta \in Nat \ {0} /\ kDistInf \in Nat \ {0} /\ kMaxBin \in Nat /\ run.source \in N
      /\ run.ref[run.source] = 0 /\ \A n \in N : run.ref[n] \in 0 .. kDistInf
  BY <1>1, SsspGraph
<1>3. /\ DOMAIN mem = SsspFields /\ mem.frontier = <<run.source>> /\ mem.shared_indexes = <<0, kMaxBin>>
      /\ mem.frontier_tails = <<1, 0>> /\ mem.iter = 0
      /\ mem.local_bins = [t \in Workers |-> <<>>] /\ mem.curr_bin_copy = [t \in Workers |-> <<>>]
      /\ mem.dist = [n \in N |-> IF n = run.source THEN 0 ELSE kDistInf]
  BY <1>1 DEF SsspMem, SsspFields, N
<1>4. Curr = 1 /\ CurrBin = 0 /\ mem.frontier_tails[Curr] = 1 /\ Bound = 0
  BY <1>1, <1>3 DEF Curr, CurrBin, Bound
<1>5. SsspType
  <2>1. mem.frontier \in Seq(N) /\ Len(mem.frontier) = 1
    BY <1>2, <1>3
  <2>2. mem.shared_indexes \in [1 .. 2 -> Nat] /\ mem.frontier_tails \in [1 .. 2 -> Nat]
        /\ \A i \in 1 .. 2 : mem.frontier_tails[i] <= 1
    BY <1>2, <1>3
  <2>3. mem.local_bins \in [Workers -> Seq(Seq(N))] /\ mem.curr_bin_copy \in [Workers -> Seq(N)]
    <3>1. <<>> \in Seq(Seq(N)) /\ <<>> \in Seq(N)
      BY EmptySeq
    <3> QED
      BY <1>3, <3>1
  <2>4. w \in [Workers -> SsspRecord]
    BY <1>1, SsspRecords
  <2>5. mem.dist \in [N -> 0 .. kDistInf]
    BY <1>2, <1>3
  <2> QED
    BY <1>1, <1>3, <2>1, <2>2, <2>3, <2>4, <2>5 DEF SsspType, SsspRun, SsspPhases
<1>6. ASSUME NEW t \in Workers PROVE SsspThread(t)
  <2>1. w[t].pc = "grab" /\ w[t].nb = <<>> /\ mem.curr_bin_copy[t] = <<>>
    BY <1>1, <1>3, SsspRecords
  <2> QED
    BY <2>1 DEF SsspThread, EdgePcs
<1>7. ASSUME NEW v \in N PROVE run.ref[v] <= mem.dist[v]
  BY <1>2, <1>3
<1>8. ASSUME NEW u \in N, NEW v \in N, Edge(run.g, u, v) PROVE Covered(u, v)
  <2>1. CASE u = run.source
    <3>1. 0 \in Places /\ mem.frontier[0 + 1] = u
      BY <1>1, <1>3, <1>4, <2>1 DEF Places
    <3> QED
      BY <3>1 DEF Covered, Listed, InPlace
  <2>2. CASE u # run.source
    <3>1. run.weight[<<u, v>>] \in Nat
      BY <1>1, <1>8, <1>5, SsspGraph DEF SsspType
    <3>2. mem.dist[u] = kDistInf /\ mem.dist[v] <= kDistInf /\ mem.dist[v] \in Nat
      BY <1>2, <1>3, <2>2
    <3>3. mem.dist[v] <= mem.dist[u] + run.weight[<<u, v>>]
      BY <1>2, <3>1, <3>2
    <3> QED
      BY <3>3 DEF Covered, Relaxed
  <2> QED
    BY <2>1, <2>2
<1>9. Settled(0)
  <2>1. \A u \in N : ~(run.ref[u] < run.delta * 0)
    BY <1>2
  <2> QED
    BY <2>1 DEF Settled
<1>10. mem.dist[run.source] = 0
  BY <1>2, <1>3
<1> QED
  BY <1>1, <1>4, <1>5, <1>6, <1>7, <1>8, <1>9, <1>10 DEF DistancesInv

\* The invariant is a state predicate of the variables.
LEMMA DistancesStutter ==
  ASSUME DistancesInv, UNCHANGED vars
  PROVE  DistancesInv'
<1>0. run' = run /\ phase' = phase /\ todo' = todo /\ w' = w /\ mem' = mem
  BY DEF vars
<1>1. N' = N /\ Curr' = Curr /\ Nxt' = Nxt /\ CurrBin' = CurrBin /\ NextBin' = NextBin
      /\ Bound' = Bound /\ Places' = Places
  BY <1>0 DEF N, Curr, Nxt, CurrBin, NextBin, Bound, Places
<1>2. SsspType'
  BY <1>0, <1>1 DEF DistancesInv, SsspType, SsspRun
<1>3. ASSUME NEW t \in Workers PROVE SsspThread(t)'
  <2>1. SsspThread(t) /\ \A b \in Nat : Bin(t, b)' = Bin(t, b)
    BY <1>0 DEF DistancesInv, Bin
  <2> QED
    BY <1>0, <1>1, <2>1 DEF SsspThread
<1>4. ASSUME NEW u \in N, NEW v \in N, Edge(run.g, u, v) PROVE Covered(u, v)'
  <2>1. Covered(u, v)
    BY <1>4 DEF DistancesInv
  <2>2. Relaxed(u, v) => Relaxed(u, v)'
    BY <1>0 DEF Relaxed
  <2>3. Listed(u) => Listed(u)'
    BY <1>0, <1>1 DEF Listed, InPlace, InBin, InCopy, Bin
  <2>4. \A t \in Workers : Treats(t, u, v) => Treats(t, u, v)'
    BY <1>0 DEF Treats
  <2> QED
    BY <2>1, <2>2, <2>3, <2>4 DEF Covered
<1>5. Settled(Bound)'
  BY <1>0, <1>1 DEF DistancesInv, Settled, Relaxed
<1> QED
  BY <1>0, <1>1, <1>2, <1>3, <1>4, <1>5 DEF DistancesInv

\* The kernels have phases of their own.
LEMMA OnlySssp ==
  ASSUME SsspType, Next
  PROVE  (\E t \in Workers : SsspStep(t)) \/ SsspSerial \/ Stop
<1>1. phase \in {"ss_top", "relax", "copy", "done"}
  BY DEF SsspType, SsspPhases
<1>2. ~CcSerial
  BY <1>1 DEF CcSerial, AfforestNext, LinkEnd, SvNext, HookEnd, CompressEnd
<1>3. ~BcSerial
  BY <1>1 DEF BcSerial, PBFSLevel, BcLevelEnd, BcUp, BcBackEnd
<1>4. ~BfsSerial
  BY <1>1 DEF BfsSerial, DOBFS, TDEnd, Q2BEnd, BUEnd, B2QEnd
<1>5. ~CsrSerial
  BY <1>1 DEF CsrSerial, CsrStart, CountEnd, FillEnd
<1>6. ASSUME NEW t \in Workers PROVE ~CcStep(t)
  BY <1>1 DEF CcStep, LinkGrab, LinkRestGrab, LinkP1, LinkP2, LinkHigh, LinkCas, LinkUp, LinkUp2,
              HookGrab, HookU, HookV, HookRoot, HookSet, CompressGrab, CompressTest, CompressJump, Linking, CcPhases
<1>7. ASSUME NEW t \in Workers PROVE ~BcStep(t)
  BY <1>1 DEF BcStep, BcGrab, BcRead, BcCas, BcSucc, BcCount, BcBack
<1>8. ASSUME NEW t \in Workers PROVE ~BfsStep(t)
  BY <1>1 DEF BfsStep, TDGrab, TDRead, TDCas, Q2BGrab, Q2BRead, Q2BCas, BUGrab, BUNode, BUStore, B2QNode
<1>9. ASSUME NEW t \in Workers PROVE ~CsrStep(t)
  BY <1>1 DEF CsrStep, CountGrab, CountAdd, FillGrab, FillTake, FillPut
<1> QED
  BY <1>2, <1>3, <1>4, <1>5, <1>6, <1>7, <1>8, <1>9 DEF Next, Work, Serial, Step

\* Every step keeps the invariant.
LEMMA DistancesNext ==
  ASSUME DistancesInv, [Next]_vars
  PROVE  DistancesInv'
<1>1. CASE UNCHANGED vars
  BY <1>1, DistancesStutter
<1>2. ASSUME NEW t \in Workers, SsspStep(t) PROVE DistancesInv'
  <2>1. CASE RelaxOld(t)
    BY <2>1, RelaxOldReads, RelaxOldTakes, RelaxOldFrees
  <2> QED
    BY <1>2, <2>1, SsspGrabKeeps, RelaxNewKeeps, RelaxCasKeeps, RelaxRereadKeeps, FuseBinKeeps,
       ProposeBinKeeps, CopyBinKeeps DEF SsspStep
<1>3. CASE SsspSerial
  BY <1>3, SsspTopKeeps, RelaxEndKeeps, CopyEndKeeps DEF SsspSerial
<1>4. CASE Stop
  BY <1>4, DistancesStutter DEF Stop
<1>5. Next => (\E t \in Workers : SsspStep(t)) \/ SsspSerial \/ Stop
  BY OnlySssp DEF DistancesInv
<1> QED
  BY <1>1, <1>2, <1>3, <1>4, <1>5

\* What sssp.cc computes, whatever the order in which its threads read, compare and
\* swap distances, fuse their bins, propose the next and copy it: distances are
\* never too short, before a round over a bin those below it are settled, and at the
\* end they are the distances of the graph, for every width delta of the bins and
\* every threshold.  So no improvement is lost: not by a swap that fails, nor by a
\* frontier entry that is skipped, nor by a bin that is fused while others fill it.
THEOREM DistancesFound == Spec => [](run.kernel = "sssp" => KernelInv /\ ResultCorrect)
<1> DEFINE Inv == SsspRun => DistancesInv
<1>1. Init => Inv
  BY DistancesInit
<1>2. Inv /\ [Next]_vars => Inv'
  BY RunStays, DistancesNext DEF SsspRun
<1>3. Inv => (run.kernel = "sssp" => KernelInv /\ ResultCorrect)
  <2> SUFFICES ASSUME DistancesInv, run.kernel = "sssp"
               PROVE  KernelInv /\ ResultCorrect
    BY DEF SsspRun
  <2>0. /\ SsspType /\ kDistInf \in Nat /\ kMaxBin \in Nat /\ kDistInf <= kMaxBin /\ run.delta \in Nat \ {0}
        /\ run.ref \in [N -> 0 .. kDistInf] /\ mem.dist \in [N -> 0 .. kDistInf]
        /\ \A v \in N : run.ref[v] <= mem.dist[v]
    BY SsspGraph DEF DistancesInv, SsspType
  <2>1. KernelInv
    <3>1. \A v \in N : mem.dist[v] >= run.ref[v]
      BY <2>0
    <3>2. phase = "ss_top" => \A v \in N : run.ref[v] < run.delta * CurrBin => mem.dist[v] = run.ref[v]
      BY DEF DistancesInv, Bound, Settled
    <3>3. SsspInv
      BY <3>1, <3>2 DEF SsspInv, N
    <3> QED
      BY <3>3 DEF KernelInv
  <2>2. ResultCorrect
    <3> SUFFICES ASSUME phase = "done" PROVE mem.dist = run.ref
      BY DEF ResultCorrect
    <3>1. Settled(kMaxBin)
      BY DEF DistancesInv, Bound
    <3>2. ASSUME NEW v \in N PROVE mem.dist[v] = run.ref[v]
      <4>1. run.ref[v] \in 0 .. kDistInf /\ mem.dist[v] \in 0 .. kDistInf /\ run.ref[v] <= mem.dist[v]
        BY <2>0
      <4>2. CASE run.ref[v] = kDistInf
        BY <2>0, <4>1, <4>2
      <4>3. CASE run.ref[v] # kDistInf
        <5>1. run.ref[v] < kMaxBin
          BY <2>0, <4>1, <4>3
        <5>2. kMaxBin <= run.delta * kMaxBin /\ run.delta * kMaxBin \in Nat
          BY <2>0, Z3
        <5>3. run.ref[v] < run.delta * kMaxBin
          BY <2>0, <4>1, <5>1, <5>2
        <5> QED
          BY <3>1, <5>3 DEF Settled
      <4> QED
        BY <4>2, <4>3
    <3> QED
      BY <2>0, <3>2
  <2> QED
    BY <2>1, <2>2
<1> QED
  BY <1>1, <1>2, <1>3, PTL DEF Spec

=============================================================================
