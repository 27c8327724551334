----------------------------- MODULE Streamflow -----------------------------
(***************************************************************************)
(* Metis's allocator: size-class pageblocks owned by a thread, lock-free   *)
(* frees by other threads, buddy allocation of pages in superpages, and    *)
(* the page map that tells free() what it was given (RADIX_TREE and NUMA,  *)
(* as Makefrag builds it).  Blocks are never orphaned and the global lists *)
(* are always empty: streamflow_thread_finalize does nothing and           *)
(* MAX_GLOBAL_INACTIVE is 0.                                               *)
(*                                                                         *)
(* The address space is a set of slots of one superpage; pages are         *)
(* numbered through all slots.  A step is what a thread does to its own    *)
(* data up to the next access to a word or a lock others use too.          *)
(***************************************************************************)
EXTENDS Integers, Sequences, FiniteSets, FiniteSetsExt, SequencesExt

CONSTANTS
  Threads,
  NSlots,       \* superpages of address space (bound)
  OrderMax,     \* BUDDY_ORDER_MAX
  MaxInactive,  \* MAX_PRIVATE_INACTIVE
  ObjSize,      \* reverse_size_class, by class
  PbPages,      \* compute_pageblock_size in pages, by class
  PoolSize,     \* mem_pool_size, by pages of the block
  Scenarios     \* what the threads ask for, and how often

VARIABLES
  conf,   \* constant: the scenario
  sup,    \* superpage headers, by slot
  rec,    \* the page map
  blk,    \* pageblock headers and the links in their objects, by page
  heap,   \* thread-local: active and inactive pageblocks, superpages
  live,   \* the objects the application holds
  th      \* the calls in progress

vars == <<conf, sup, rec, blk, heap, live, th>>

Slot == 0 .. NSlots - 1
SP == 2 ^ (OrderMax - 1)
Page == 0 .. NSlots * SP - 1
Class == DOMAIN ObjSize
SlotOf(p) == p \div SP

(* An object, or page range: its first page, its index in a pageblock, and *)
(* what it was asked as.                                                   *)
Obj(p, i, k, n) == [p |-> p, i |-> i, k |-> k, n |-> n]
NoObj == Obj(0, 0, "none", 0)

Idle(ops) == [pc |-> "idle", n |-> 0, cls |-> 0, p |-> 0, obj |-> NoObj,
              seen |-> [next |-> 0, count |-> 0], ops |-> ops]

(***************************************************************************)
(* Double lists.                                                           *)
(***************************************************************************)

double_list_insert_front(x, s) == <<x>> \o s
double_list_remove(x, s) == SelectSeq(s, LAMBDA y : y # x)
double_list_rotate_back(s) == Append(Tail(s), Head(s))

(***************************************************************************)
(* Buddies.  A chunk of an order is named by its first page in the slot;   *)
(* the chunk of a higher order it belongs to starts at the next lower      *)
(* multiple of that order's size.                                          *)
(***************************************************************************)

quick_log2(n) == CHOOSE o \in 0 .. OrderMax : 2 ^ o = n
find_index(x, o) == x \div 2 ^ o
(* Mutant: an odd buddy does not become the start of the merged chunk.     *)
ChunkAtOdd(x, o) == x

ChunkAt(x, o) == find_index(x, o) * 2 ^ o
find_buddy(x, o) == IF find_index(x, o) % 2 = 0 THEN x + 2 ^ o ELSE x - 2 ^ o
find_bit_index(x, o) == <<o, find_index(x, o) \div 2>>

Toggle(bits, S) == (bits \ S) \cup (S \ bits)

NoSuper == [st |-> "none", own |-> "none", free |-> [o \in 0 .. OrderMax - 1 |-> <<>>],
            bits |-> {}, big |-> 0]

(* Take the first chunk of the closest order.  What is split off stays     *)
(* free on the left, the chunk moves to the right.                         *)
buddy_alloc(s, order) ==
  LET curr == Min({o \in order .. OrderMax - 1 : s.free[o] # <<>>})
      x == Head(s.free[curr])
      Left(o) == x + 2 ^ curr - 2 ^ (o + 1)
      free == [o \in DOMAIN s.free |->
                 IF o = curr THEN Tail(s.free[o])
                 ELSE IF o \in order .. curr - 1 THEN double_list_insert_front(Left(o), s.free[o])
                 ELSE s.free[o]]
      lower == {o \in 0 .. s.big - 1 : free[o] # <<>>}
  IN  [s |-> [s EXCEPT !.free = free,
                       !.bits = Toggle(@, {find_bit_index(x, curr)}
                                  \cup {find_bit_index(Left(o), o) : o \in order .. curr - 1}),
                       !.big = IF free[@] # <<>> THEN @
                               ELSE IF lower # {} THEN Max(lower) ELSE OrderMax + 1],
       x |-> x + 2 ^ curr - 2 ^ order]

(* Merge as long as the bit says that the buddy is free.                   *)
buddy_free(s, x, order) ==
  LET stop == Min({o \in order .. OrderMax - 1 :
                     o = OrderMax - 1 \/ find_bit_index(x, o) \notin s.bits})
      merged == order .. stop - 1
      free == [o \in DOMAIN s.free |->
                 IF o \in merged THEN double_list_remove(find_buddy(ChunkAt(x, o), o), s.free[o])
                 ELSE IF o = stop THEN double_list_insert_front(ChunkAt(x, o), s.free[o])
                 ELSE s.free[o]]
  IN  IF stop = OrderMax - 1 THEN NoSuper
      ELSE [s EXCEPT !.free = free,
                     !.bits = Toggle(@, {find_bit_index(x, o) : o \in order .. stop}),
                     !.big = IF stop > @ \/ @ > OrderMax THEN stop ELSE @]

(***************************************************************************)
(* Pageblock headers.                                                      *)
(***************************************************************************)

NObjs(b) == PoolSize[b.pages] \div ObjSize[b.cls]

(* A block new or used for another class: nothing allocated yet.  The      *)
(* links are whatever is in memory.                                        *)
Fresh(t, c, pages, nxt) ==
  [own |-> t, cls |-> c, pages |-> pages, freed |-> 0, unalloc |-> 1,
   nfree |-> PoolSize[pages] \div ObjSize[c], gar |-> [next |-> 0, count |-> 0], nxt |-> nxt]

NoLinks == [i \in 1 .. Max({PoolSize[n] : n \in DOMAIN PoolSize}) |-> 0]

NoBlock == [Fresh("none", 1, 1, NoLinks) EXCEPT !.nfree = 0]

(***************************************************************************)
(* Superpages.  Each thread has its own, under its own lock; whoever frees *)
(* takes the lock of the owner, so both are one step.                      *)
(***************************************************************************)

(* External: mmap finds the lowest free addresses.                         *)
page_alloc == Min({s \in Slot : sup[s].st = "none"})

get_free_superpage(t, order) ==
  LET fits == SelectSeq(heap[t].sps, LAMBDA s : sup[s].big < OrderMax /\ sup[s].big >= order)
  IN  IF fits # <<>> THEN [s |-> Head(fits), h |-> sup[Head(fits)], sps |-> heap[t].sps]
      ELSE [s |-> page_alloc,
            h |-> [NoSuper EXCEPT !.st = "super", !.own = t, !.free[OrderMax - 1] = <<0>>,
                                  !.big = OrderMax - 1],
            sps |-> double_list_insert_front(page_alloc, heap[t].sps)]

supermap(t) ==
  LET g == get_free_superpage(t, quick_log2(th[t].n))
      b == buddy_alloc(g.h, quick_log2(th[t].n))
  IN  /\ th[t].pc = "map"
      /\ sup' = [sup EXCEPT ![g.s] = b.s]
      /\ heap' = [heap EXCEPT ![t].sps = g.sps]
      /\ th' = [th EXCEPT ![t].pc = "register", ![t].p = g.s * SP + b.x]
      /\ UNCHANGED <<conf, rec, blk, live>>

superunmap(t) ==
  LET s == SlotOf(th[t].p)
      h == buddy_free(sup[s], th[t].p % SP, quick_log2(th[t].n))
      u == sup[s].own
  IN  /\ th[t].pc = "unmap"
      /\ sup' = [sup EXCEPT ![s] = h]
      /\ heap' = IF h = NoSuper THEN [heap EXCEPT ![u].sps = double_list_remove(s, @)] ELSE heap
      /\ blk' = [blk EXCEPT ![th[t].p] = NoBlock]
      /\ th' = [th EXCEPT ![t] = Idle(@.ops)]
      /\ UNCHANGED <<conf, rec, live>>

(***************************************************************************)
(* The page map.                                                           *)
(***************************************************************************)

(* Mutant: only the first page, as for medium objects.                     *)
register_pagesFirst(p, n, r) == rec' = [rec EXCEPT ![p] = r]
register_pages(p, n, r) ==
  rec' = [q \in Page |-> IF q \in p .. p + n - 1 THEN r ELSE rec[q]]

object_extract(p) == rec[p]

(***************************************************************************)
(* Pageblocks.                                                             *)
(***************************************************************************)

(* The whole chain in one compare-and-swap.                                *)
garbage_collect(b) ==
  [b EXCEPT !.freed = b.gar.next, !.nfree = @ + b.gar.count, !.gar = [next |-> 0, count |-> 0]]

(* Reserve an object: one freed before, or the next never used.            *)
Reserve(b) ==
  IF b.freed # 0
  THEN [b |-> [b EXCEPT !.freed = b.nxt[b.freed], !.nfree = @ - 1], i |-> b.freed]
  ELSE [b |-> [b EXCEPT !.unalloc = IF @ + 1 > NObjs(b) THEN 0 ELSE @ + 1, !.nfree = @ - 1],
        i |-> b.unalloc]

(* The end of an allocation: the object is the caller's; realloc goes on   *)
(* to free the old one.                                                    *)
Return(t, o) ==
  /\ live' = live \cup {o}
  /\ th' = [th EXCEPT ![t] = IF @.obj = NoObj THEN Idle(@.ops)
                             ELSE [Idle(@.ops) EXCEPT !.pc = "free", !.obj = th[t].obj]]

(* Take an object from block p, which is the head of list a.               *)
TakeFrom(t, p, b, a, in) ==
  LET r == Reserve(b)
  IN  /\ blk' = [blk EXCEPT ![p] = r.b]
      /\ heap' = [heap EXCEPT ![t].act[b.cls] = IF r.b.nfree = 0 THEN double_list_rotate_back(a) ELSE a,
                              ![t].ina = in]
      /\ Return(t, Obj(p, r.i, "small", ObjSize[b.cls]))

(* sf_malloc of a small object, up to supermap: the head of the active     *)
(* list, collected when it has nothing left, then (get_free_pageblock) an  *)
(* inactive block of the right size.                                       *)
MallocSmall(t) ==
  LET c == th[t].n
      a0 == heap[t].act[c]
      p == Head(a0)
      b == IF blk[p].nfree = 0 THEN garbage_collect(blk[p]) ELSE blk[p]
      none == a0 = <<>> \/ b.nfree = 0
      a == IF a0 # <<>> /\ none THEN double_list_rotate_back(a0) ELSE a0
      in == heap[t].ina
      q == Head(in[PbPages[c]])
      d == IF blk[q].cls = c THEN blk[q]
           ELSE [Fresh(t, c, blk[q].pages, blk[q].nxt) EXCEPT !.gar = blk[q].gar]
  IN  /\ th[t].pc = "small" /\ UNCHANGED <<conf, sup, rec>>
      /\ \/ ~none /\ TakeFrom(t, p, b, a0, in)
         \/ /\ none = TRUE
            /\ in[PbPages[c]] # <<>>
            /\ TakeFrom(t, q, d, double_list_insert_front(q, a), [in EXCEPT ![PbPages[c]] = Tail(@)])
         \/ /\ none = TRUE
            /\ in[PbPages[c]] = <<>>
            /\ heap' = [heap EXCEPT ![t].act[c] = a]
            /\ th' = [th EXCEPT ![t].pc = "map", ![t].cls = c, ![t].n = PbPages[c]]
            /\ UNCHANGED <<blk, live>>

(* The rest of get_free_pageblock and sf_malloc with pages from supermap.  *)
NewBlock(t) ==
  LET c == th[t].cls
      p == th[t].p
  IN  /\ th[t].pc = "register" /\ c > 0
      /\ register_pages(p, th[t].n, [type |-> "small", n |-> p])
      /\ TakeFrom(t, p, Fresh(t, c, th[t].n, NoLinks), double_list_insert_front(p, heap[t].act[c]),
                  heap[t].ina)
      /\ UNCHANGED <<conf, sup>>

(* medium_or_large_alloc with pages from supermap.                         *)
NewMedium(t) ==
  /\ th[t].pc = "register" /\ th[t].cls = 0
  /\ register_pages(th[t].p, 1, [type |-> "medium", n |-> th[t].n])
  /\ Return(t, Obj(th[t].p, 0, "medium", th[t].n))
  /\ UNCHANGED <<conf, sup, blk, heap>>

(* ... and with pages straight from the system.                            *)
NewLarge(t) ==
  /\ th[t].pc = "large"
  /\ sup' = [sup EXCEPT ![page_alloc].st = "large"]
  /\ register_pages(page_alloc * SP, 1, [type |-> "large", n |-> th[t].n])
  /\ Return(t, Obj(page_alloc * SP, 0, "large", th[t].n))
  /\ UNCHANGED <<conf, blk, heap>>

(***************************************************************************)
(* free.                                                                   *)
(***************************************************************************)

(* What the page map says decides; a block of the thread's own is handled  *)
(* right away, an empty one cached or, with enough cached, returned.       *)
local_free(t, p, i) ==
  LET b == [blk[p] EXCEPT !.nxt[i] = blk[p].freed, !.freed = i, !.nfree = @ + 1]
      a == heap[t].act[b.cls]
      rest == double_list_remove(p, a)
      in == heap[t].ina[b.pages]
  IN  /\ blk' = [blk EXCEPT ![p] = b]
      /\ IF b.nfree < NObjs(b)
         THEN /\ heap' = [heap EXCEPT ![t].act[b.cls] =
                            IF p # Head(a) /\ b.nfree > 1 THEN double_list_insert_front(p, rest) ELSE a]
              /\ th' = [th EXCEPT ![t] = Idle(@.ops)]
         ELSE IF Len(in) < MaxInactive
         THEN /\ heap' = [heap EXCEPT ![t].act[b.cls] = rest, ![t].ina[b.pages] = <<p>> \o @]
              /\ th' = [th EXCEPT ![t] = Idle(@.ops)]
         ELSE /\ heap' = [heap EXCEPT ![t].act[b.cls] = rest]
              /\ th' = [th EXCEPT ![t] = [Idle(@.ops) EXCEPT !.pc = "unmap", !.p = p, !.n = b.pages]]

sf_free(t) ==
  LET o == th[t].obj
      r == object_extract(o.p)
      p == r.n
  IN  /\ th[t].pc = "free" /\ UNCHANGED <<conf, rec, live>>
      /\ \/ /\ r.type = "large"
            /\ sup' = [sup EXCEPT ![SlotOf(o.p)] = NoSuper]
            /\ th' = [th EXCEPT ![t] = Idle(@.ops)] /\ UNCHANGED <<blk, heap>>
         \/ /\ r.type = "medium"
            /\ th' = [th EXCEPT ![t] = [Idle(@.ops) EXCEPT !.pc = "unmap", !.p = o.p, !.n = r.n]]
            /\ UNCHANGED <<sup, blk, heap>>
         \/ /\ r.type = "small" /\ blk[p].own = t
            /\ local_free(t, p, o.i) /\ UNCHANGED sup
         \/ /\ r.type = "small" /\ blk[p].own # t
            /\ th' = [th EXCEPT ![t].pc = "remote", ![t].p = p]
            /\ UNCHANGED <<sup, blk, heap>>

(* remote_free: link the object in front of the garbage seen ...           *)
remote_free(t) ==
  LET p == th[t].p
  IN  /\ th[t].pc = "remote"
      /\ blk' = [blk EXCEPT ![p].nxt[th[t].obj.i] = blk[p].gar.next]
      /\ th' = [th EXCEPT ![t].pc = "swap", ![t].seen = blk[p].gar]
      /\ UNCHANGED <<conf, sup, rec, heap, live>>

(* Mutants: the new head is stored whatever the old one is; the value      *)
(* expected has been counted up already.                                   *)
RemoteSwapBlind(t) ==
  LET p == th[t].p
  IN  /\ th[t].pc = "swap"
      /\ blk' = [blk EXCEPT ![p].gar = [next |-> th[t].obj.i, count |-> th[t].seen.count + 1]]
      /\ th' = [th EXCEPT ![t] = Idle(@.ops)]
      /\ UNCHANGED <<conf, sup, rec, heap, live>>
RemoteSwapCounted(t) ==
  LET p == th[t].p
      seen == [th[t].seen EXCEPT !.count = @ + 1]
  IN  /\ th[t].pc = "swap"
      /\ \/ /\ blk[p].gar = seen
            /\ blk' = [blk EXCEPT ![p].gar = [next |-> th[t].obj.i, count |-> seen.count]]
            /\ th' = [th EXCEPT ![t] = Idle(@.ops)]
         \/ /\ blk[p].gar # seen
            /\ th' = [th EXCEPT ![t].pc = "remote"] /\ UNCHANGED blk
      /\ UNCHANGED <<conf, sup, rec, heap, live>>

(* ... and swap it in if that is still so, or start again.                 *)
RemoteSwap(t) ==
  LET p == th[t].p
  IN  /\ th[t].pc = "swap"
      /\ \/ /\ blk[p].gar = th[t].seen
            /\ blk' = [blk EXCEPT ![p].gar = [next |-> th[t].obj.i, count |-> th[t].seen.count + 1]]
            /\ th' = [th EXCEPT ![t] = Idle(@.ops)]
         \/ /\ blk[p].gar # th[t].seen
            /\ th' = [th EXCEPT ![t] = [@ EXCEPT !.pc = "remote", !.seen = [next |-> 0, count |-> 0]]]
            /\ UNCHANGED blk
      /\ UNCHANGED <<conf, sup, rec, heap, live>>

(***************************************************************************)
(* The calls of the application.                                           *)
(***************************************************************************)

(* A request is for a small object of a class, for pages, or for more than *)
(* a superpage; pages are rounded up to a power of 2.                      *)
RoundUp(n) == Min({2 ^ o : o \in {x \in 0 .. OrderMax - 1 : 2 ^ x >= n}})

Call(t, r, o) ==
  [th EXCEPT ![t] = [@ EXCEPT !.pc = CASE r.k = "small" -> "small" [] r.k = "medium" -> "map"
                                       [] r.k = "large" -> "large",
                              !.n = IF r.k = "medium" THEN RoundUp(r.n) ELSE r.n,
                              !.cls = 0, !.obj = o, !.ops = @ - 1]]

malloc(t, r) ==
  /\ th[t].pc = "idle" /\ th[t].ops > 0
  /\ th' = Call(t, r, NoObj) /\ UNCHANGED <<conf, sup, rec, blk, heap, live>>

free(t, o) ==
  /\ th[t].pc = "idle" /\ o \in live
  /\ live' = live \ {o}
  /\ th' = [th EXCEPT ![t].pc = "free", ![t].obj = o]
  /\ UNCHANGED <<conf, sup, rec, blk, heap>>

(* What realloc keeps in place: the same size or class, and what has not   *)
(* shrunk to half.                                                         *)
InPlace(o, r) ==
  /\ o.k = r.k
  /\ CASE o.k = "small"  -> ObjSize[r.n] = o.n \/ (ObjSize[r.n] < o.n /\ ObjSize[r.n] > o.n \div 2)
       [] o.k = "medium" -> RoundUp(r.n) = o.n
       [] o.k = "large"  -> r.n = o.n \/ (r.n < o.n /\ r.n > o.n \div 2)

(* A large object that stays large (hacked_mremap) keeps its address when  *)
(* it shrinks, and moves to a new mapping when it grows; either way it is  *)
(* registered again, and nothing is unmapped: the old mapping is leaked.   *)
(* Any other is a new object and a free.                                   *)
realloc(t, o, r) ==
  /\ th[t].pc = "idle" /\ th[t].ops > 0 /\ o \in live /\ ~InPlace(o, r)
  /\ \/ LET s == IF r.n > o.n THEN page_alloc ELSE SlotOf(o.p)
        IN  /\ o.k = "large" /\ r.k = "large"
            /\ sup' = [sup EXCEPT ![s].st = "large"]
            /\ register_pages(s * SP, 1, [type |-> "large", n |-> r.n])
            /\ live' = (live \ {o}) \cup {Obj(s * SP, 0, "large", r.n)}
            /\ th' = [th EXCEPT ![t].ops = @ - 1] /\ UNCHANGED <<blk, heap>>
     \/ /\ ~(o.k = "large" /\ r.k = "large")
        /\ live' = live \ {o}
        /\ th' = Call(t, r, o) /\ UNCHANGED <<sup, rec, blk, heap>>
  /\ UNCHANGED conf

(***************************************************************************)
(* The specification.                                                      *)
(***************************************************************************)

Init ==
  /\ conf \in Scenarios
  /\ sup = [s \in Slot |-> NoSuper]
  /\ rec = [p \in Page |-> [type |-> "none", n |-> 0]]
  /\ blk = [p \in Page |-> NoBlock]
  /\ heap = [t \in Threads |-> [act |-> [c \in Class |-> <<>>], sps |-> <<>>,
                                ina |-> [n \in DOMAIN PoolSize |-> <<>>]]]
  /\ live = {}
  /\ th = [t \in Threads |-> Idle(conf.ops[t])]

Step(t) ==
  \/ MallocSmall(t) \/ supermap(t) \/ NewBlock(t) \/ NewMedium(t) \/ NewLarge(t)
  \/ sf_free(t) \/ superunmap(t) \/ remote_free(t) \/ RemoteSwap(t)

Use(t) ==
  /\ t \in conf.who
  /\ \/ \E r \in conf.reqs : malloc(t, r)
     \/ \E o \in live : free(t, o)
     \/ \E o \in live, r \in conf.resize : realloc(t, o, r)

Next == \E t \in Threads : Step(t) \/ Use(t)

(* While a call is in progress the program does not stop: weaker than weak *)
(* fairness of every thread, and enough, the calls being finitely many.    *)
Fairness == []<>(\A t \in Threads : th[t].pc = "idle") \/ []<><<TRUE>>_vars

Spec == Init /\ [][Next]_vars /\ Fairness

(***************************************************************************)
(* Properties.                                                             *)
(***************************************************************************)

(* Objects out of the allocator's hands: with the application, or on their *)
(* way back.                                                               *)
Held == live \cup {th[t].obj : t \in {u \in Threads : th[u].obj # NoObj
                    /\ th[u].pc \notin {"idle", "unmap"}}}

(* The blocks in somebody's lists.                                         *)
Lists(t) == FlattenSeq(heap[t].act) \o FlattenSeq(heap[t].ina)

Blocks == UNION {ToSet(Lists(t)) : t \in Threads}

(* The objects of a chain, with its length; a chain that does not end has  *)
(* a length that does not match.                                           *)
Chain(b, i, n) ==
  LET at[k \in 0 .. n] == IF k = 0 THEN i ELSE IF at[k - 1] = 0 THEN 0 ELSE b.nxt[at[k - 1]]
  IN  {at[k] : k \in 0 .. n} \ {0}

(* Every object of a block is in exactly one place: never used, freed,     *)
(* garbage for the owner to collect, or held; the two counters count them; *)
(* and every block is in one list of its owner, under its own class or     *)
(* size (sf_malloc, local_free, remote_free, garbage_collect and the       *)
(* reuse of inactive blocks for other classes).                            *)
BlockInv ==
  \A p \in Blocks :
    LET b == blk[p]
        N == NObjs(b)
        unused == IF b.unalloc = 0 THEN {} ELSE b.unalloc .. N
        freed == Chain(b, b.freed, N)
        garbage == Chain(b, b.gar.next, N)
        held == {o.i : o \in {x \in Held : x.k = "small" /\ x.p = p}}
    IN  /\ unused \cup freed \cup garbage \cup held = 1 .. N
        /\ Cardinality(unused) + Cardinality(freed) + Cardinality(garbage) + Cardinality(held) = N
        /\ b.nfree = Cardinality(unused) + Cardinality(freed) /\ b.gar.count = Cardinality(garbage)
        /\ \A t \in Threads : Len(SelectSeq(Lists(t), LAMBDA q : q = p)) = IF t = b.own THEN 1 ELSE 0
        /\ b.own = sup[SlotOf(p)].own
        /\ p \in ToSet(heap[b.own].act[b.cls]) \/ b.nfree = N

(* The chunks in use, as pairs of first page and number of pages.          *)
Used == {<<p, blk[p].pages>> : p \in Blocks}
         \cup {<<o.p, o.n>> : o \in {x \in Held : x.k = "medium"}}
         \cup {<<th[t].p, th[t].n>> : t \in {u \in Threads : th[u].pc \in {"register", "unmap"}}}

(* Chunks in use and free chunks tile every superpage, so no memory is     *)
(* given out twice or lost; free buddies are always merged; the bit of a   *)
(* pair of buddies tells whether one of them is free (and the other not),  *)
(* and the largest free order is what it says; an empty superpage goes     *)
(* back to the system (buddy_alloc, buddy_free, supermap and superunmap    *)
(* from several threads).                                                  *)
BuddyInv ==
  \A s \in {x \in Slot : sup[x].st = "super"} :
    LET h == sup[s]
        Free(o) == {h.free[o][k] : k \in DOMAIN h.free[o]}
        used == {<<u[1] % SP, u[2]>> : u \in {x \in Used : SlotOf(x[1]) = s}}
        chunks == used \cup UNION {{<<x, 2 ^ o>> : x \in Free(o)} : o \in DOMAIN h.free}
        orders == {o \in DOMAIN h.free : Free(o) # {}}
    IN  /\ \A q \in 0 .. SP - 1 : Cardinality({c \in chunks : q \in c[1] .. c[1] + c[2] - 1}) = 1
        /\ \A o \in 0 .. OrderMax - 2 : \A x \in Free(o) :
             find_buddy(x, o) \notin Free(o) /\ find_bit_index(x, o) \in h.bits
        /\ \A b \in h.bits : b[1] < OrderMax - 1 =>
             \E x \in Free(b[1]) : find_bit_index(x, b[1]) = b
        /\ h.big = IF orders = {} THEN OrderMax + 1 ELSE Max(orders)
        /\ used # {}

(* What free() will read in the page map about any object is true, however *)
(* often its pages have been used for something else before: records are   *)
(* never removed, and medium objects register their first page only        *)
(* (radix_register, radix_extract and the callers of register_pages).  A   *)
(* large object has a mapping of its own, wherever realloc has moved it.   *)
RecordsTrue ==
  \A o \in live :
    LET r == object_extract(o.p)
    IN  /\ r.type = o.k
        /\ r.n = IF o.k = "small" THEN o.p ELSE o.n
        /\ o.k = "small" => /\ o.p \in Blocks /\ ObjSize[blk[o.p].cls] = o.n
                            /\ \A q \in o.p .. o.p + blk[o.p].pages - 1 : rec[q] = r
        /\ o.k = "large" => /\ sup[SlotOf(o.p)].st = "large"
                            /\ \A x \in live \ {o} : SlotOf(x.p) # SlotOf(o.p)

(* Every call returns: the loop of remote_free ends.                       *)
CallsReturn == \A t \in Threads : (th[t].pc # "idle") ~> (th[t].pc = "idle")
=============================================================================
