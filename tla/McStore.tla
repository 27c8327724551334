------------------------------ MODULE McStore ------------------------------
(***************************************************************************)
(* memcached's item store: items.c, assoc.c, slabs.c and the locking of    *)
(* thread.c, with the commands of memcached.c that use it and the get loop *)
(* of test_thread.c.  Worker and test threads, the hash table maintenance  *)
(* thread, the slab rebalancer and the LRU crawler interleave.             *)
(*                                                                         *)
(* A section under cache_lock or slabs_lock is one step; an item lock is   *)
(* held across steps, because the lookup and the reference count increment *)
(* of do_item_get are two steps.  Keys are their own hash values.          *)
(*                                                                         *)
(* do_item_get unlinks an item of the page being moved away without        *)
(* cache_lock (its mutex_lock is commented out).  That section is open to  *)
(* the steps of the others; once one of them writes what the section       *)
(* writes as well, torn is set: both wrote the same pointers and counts    *)
(* unlocked, what they leave is undefined, and the behaviour stops there.  *)
(***************************************************************************)
EXTENDS Integers, Sequences, FiniteSets, SequencesExt

CONSTANTS
  Workers, Testers,  \* threads; the testers only get, through test_zipfian
  NKeys,             \* keys 1 .. NKeys, hashed to themselves
  NLocks,            \* size of item_locks
  Perslab,           \* Perslab[id]: chunks in a page of slab class id
  NPages,            \* bound: pages that can be malloced
  HashPower,         \* initial power of the hash table
  UpdateInterval,    \* ITEM_UPDATE_INTERVAL
  Wrap,              \* incr wraps at this value (2^64)
  MaxTime,           \* bound: the clock
  Scenarios          \* what may happen in a behaviour, see conf

Threads == Workers \cup Testers
Keys == 1 .. NKeys
Class == 1 .. Len(Perslab)
MaxPer == 2                       \* bound: chunks of one page
Chunk == 1 .. NPages * MaxPer
NULL == 0
None == "none"
MaxRef == 65536                   \* the reference count is an unsigned short
Tries == 5                        \* LRU tail items looked at by do_item_alloc
Crawler(id) == -id                \* the pseudo item crawlers[id]
Page(p) == [j \in 1 .. MaxPer |-> (p - 1) * MaxPer + j]
Used(p, id) == {Page(p)[j] : j \in 1 .. Perslab[id]}  \* chunks when id owns p
StoreCmds == {"set", "add", "replace", "append", "prepend", "cas"}
Commands == StoreCmds \cup {"get", "touch", "delete", "incr"}

(* A scenario: who runs which commands, how many of them (fewer than a     *)
(* reference count can tell apart), with which memory and what expiry      *)
(* times; what else may happen, and how often.  pages: what slabs_init and *)
(* slabs_preallocate left in every class, numbered from 1.                 *)
Scenario ==
  [who : SUBSET Threads, cmds : SUBSET Commands, ops : Nat, limit : Nat,
   pages : [Class -> Seq(1 .. NPages)], exps : SUBSET Nat, evict : BOOLEAN,
   angry : BOOLEAN, expand : BOOLEAN, moves : Nat, crawls : Nat, tocrawl : Nat,
   clock : BOOLEAN, flush : SUBSET Nat, flushed : Nat, len : Nat]

PagesOf(s) == UNION {Range(s.pages[id]) : id \in Class}

ASSUME StoreAssumption ==
  /\ IsFiniteSet(Threads) /\ None \notin Threads
  /\ NKeys \in Nat /\ NLocks \in Nat \ {0} /\ NPages \in Nat /\ Wrap \in Nat \ {0}
  /\ Perslab \in Seq(1 .. MaxPer) /\ Len(Perslab) < 255
  /\ HashPower \in Nat /\ 2^HashPower \in Nat \ {0}
  /\ UpdateInterval \in Nat /\ MaxTime \in Nat
  /\ \A s \in Scenarios :
       /\ s \in Scenario /\ s.ops + 3 * Cardinality(Threads) + 3 < MaxRef
       /\ PagesOf(s) = 1 .. Cardinality(PagesOf(s))
       /\ \A id \in Class : IsInjective(s.pages[id])
       /\ \A a, b \in Class : a # b => Range(s.pages[a]) \cap Range(s.pages[b]) = {}

VARIABLES
  conf,    \* constant: what may happen, and how often; and, in flushed,
           \* the last cas id when flush_all was last called
  mem,     \* items, LRU lists, slabs and hash table
  th,      \* the threads' commands and local variables
  ilock,   \* item_locks
  glock,   \* item_global_lock
  ltype,   \* item_lock_type of every thread
  mt,      \* assoc_maintenance_thread
  rb,      \* slab_rebal, slab_rebalance_signal and slabs_rebalance_lock
  cr,      \* the LRU crawler
  now,     \* current_time
  oldest,  \* settings.oldest_live
  leaked,  \* references test_zipfian never gives back
  torn     \* auxiliary: an unlocked unlink was overlapped, see Overlap

vars == <<conf, mem, th, ilock, glock, ltype, mt, rb, cr, now, oldest, leaked, torn>>

(* A doubly linked list without c, wherever in it c is.                    *)
Without(s, c) ==
  LET i == CHOOSE j \in DOMAIN s : s[j] = c
  IN  IF c \notin Range(s) THEN s
      ELSE [j \in 1 .. Len(s) - 1 |-> IF j < i THEN s[j] ELSE s[j + 1]]

(***************************************************************************)
(* slabs.c: chunks, free lists, pages.                                     *)
(***************************************************************************)

NoItem == [key |-> 0, val |-> <<>>, cas |-> 0, ref |-> 0, fl |-> {},
           cls |-> 0, time |-> 0, exp |-> 0]

(* The smallest class an item of this size fits in, 0 if none.             *)
slabs_clsid(size) == IF size \in Class THEN size ELSE 0

do_slabs_free(m, c, id) ==
  [m EXCEPT !.heap[c].fl = @ \cup {"SLABBED"}, !.slots[id] = <<c>> \o @]

(* Every chunk of the page goes to the front of the free list in turn.     *)
split_slab_page_into_freelist(m, p, id) ==
  LET n == Perslab[id]
  IN  [m EXCEPT !.heap = [c \in Chunk |-> IF c \in Used(p, id)
                           THEN [m.heap[c] EXCEPT !.fl = @ \cup {"SLABBED"}] ELSE m.heap[c]],
                !.slots[id] = [j \in 1 .. n |-> Page(p)[n + 1 - j]] \o @]

(* The memory limit does not bind the first page of a class.               *)
do_slabs_newslab(m, id) ==
  IF (m.malloced >= conf.limit /\ Len(m.pages[id]) > 0) \/ m.malloced >= NPages
  THEN m
  ELSE LET p == m.malloced + 1
       IN  split_slab_page_into_freelist(
             [m EXCEPT !.malloced = p, !.pages[id] = Append(@, p)], p, id)

(* A state and the chunk taken from the free list, or NULL.                *)
do_slabs_alloc(m, id) ==
  LET n == IF m.slots[id] = <<>> THEN do_slabs_newslab(m, id) ELSE m
  IN  IF n.slots[id] = <<>> THEN [m |-> n, it |-> NULL]
      ELSE [m |-> [n EXCEPT !.slots[id] = Tail(@)], it |-> Head(n.slots[id])]

(***************************************************************************)
(* assoc.c: the hash table, and the old one while expanding.               *)
(***************************************************************************)

(* Mutant: one bucket too far.                                             *)
InOldAfter(m, hv) == m.expanding /\ hv % 2^(m.power - 1) > m.bucket

InOld(m, hv) == m.expanding /\ hv % 2^(m.power - 1) >= m.bucket

Chain(m, hv) == IF InOld(m, hv) THEN m.old[hv % 2^(m.power - 1)]
                                ELSE m.tab[hv % 2^m.power]

SetChain(m, hv, s) == IF InOld(m, hv) THEN [m EXCEPT !.old[hv % 2^(m.power - 1)] = s]
                                      ELSE [m EXCEPT !.tab[hv % 2^m.power] = s]

(* The first item of the chain with this key, or NULL.                     *)
assoc_find(m, k) ==
  LET s == Chain(m, k)
      hits == {i \in DOMAIN s : m.heap[s[i]].key = k}
  IN  IF hits = {} THEN NULL ELSE s[CHOOSE i \in hits : \A j \in hits : i <= j]

assoc_start_expand(m) ==
  IF ~m.expanding /\ m.items > (2^m.power * 3) \div 2 /\ conf.expand
  THEN [m EXCEPT !.started = TRUE] ELSE m

assoc_insert(m, c, hv) ==
  assoc_start_expand([SetChain(m, hv, <<c>> \o Chain(m, hv)) EXCEPT !.items = @ + 1])

(* Deletes by key: whichever item of that key the chain shows first.       *)
assoc_delete(m, k) ==
  LET c == assoc_find(m, k)
  IN  IF c = NULL THEN m
      ELSE [SetChain(m, k, Without(Chain(m, k), c)) EXCEPT !.items = @ - 1]

(***************************************************************************)
(* items.c: LRU lists (head first), links, references.                     *)
(***************************************************************************)

item_link_q(m, c) == [m EXCEPT !.lru[m.heap[c].cls] = <<c>> \o @]

item_unlink_q(m, c) ==
  [m EXCEPT !.lru[m.heap[c].cls] = Without(@, c)]

refcount_incr(m, c) == [m EXCEPT !.heap[c].ref = (@ + 1) % MaxRef]
refcount_decr(m, c) == [m EXCEPT !.heap[c].ref = (@ + MaxRef - 1) % MaxRef]

item_free(m, c) == do_slabs_free([m EXCEPT !.heap[c].cls = 0], c, m.heap[c].cls)

do_item_remove(m, c) ==
  LET n == refcount_decr(m, c)
  IN  IF n.heap[c].ref = 0 THEN item_free(n, c) ELSE n

do_item_link(m, c) ==
  LET n == [m EXCEPT !.heap[c].fl = @ \cup {"LINKED"}, !.heap[c].time = now,
                     !.heap[c].cas = m.casid + 1, !.casid = @ + 1]
  IN  refcount_incr(item_link_q(assoc_insert(n, c, n.heap[c].key), c), c)

do_item_unlink(m, c) ==
  IF "LINKED" \in m.heap[c].fl
  THEN LET n == assoc_delete([m EXCEPT !.heap[c].fl = @ \ {"LINKED"}], m.heap[c].key)
       IN  do_item_remove(item_unlink_q(n, c), c)
  ELSE m

(* To the head of its LRU list, at most once per update interval.          *)
do_item_update(m, c) ==
  IF m.heap[c].time < now - UpdateInterval /\ "LINKED" \in m.heap[c].fl
  THEN item_link_q([item_unlink_q(m, c) EXCEPT !.heap[c].time = now], c)
  ELSE m

do_item_replace(m, old, new) == do_item_link(do_item_unlink(m, old), new)

LockOf(hv) == hv % NLocks
item_trylock(hv) == ilock[LockOf(hv)] = None

(* The flush test of do_item_alloc and of the crawler.                     *)
Flushed(x) == x.time <= oldest /\ oldest <= now
Reclaimable(x) == (x.exp # 0 /\ x.exp < now) \/ Flushed(x)

(* Mutant: references of others are not looked at.                         *)
TailLookAny(a, c, cur_hv) ==
  IF a.found # NULL \/ a.tries = 0 \/ c < 0 THEN a
  ELSE IF a.m.heap[c].key = cur_hv \/ ~item_trylock(a.m.heap[c].key)
  THEN [a EXCEPT !.tries = @ - 1]
  ELSE [a EXCEPT !.found = c]

(* One look at a tail item: a crawler is passed over, an item that cannot  *)
(* be locked costs a try, one that others refer to goes back to the head.  *)
TailLook(a, c, cur_hv) ==
  IF a.found # NULL \/ a.tries = 0 \/ c < 0 THEN a
  ELSE IF a.m.heap[c].key = cur_hv \/ ~item_trylock(a.m.heap[c].key)
  THEN [a EXCEPT !.tries = @ - 1]
  ELSE IF a.m.heap[c].ref # 1 THEN [a EXCEPT !.m = do_item_update(@, c)]
  ELSE [a EXCEPT !.found = c]

TailSearch(m, id, cur_hv) ==
  LET q == m.lru[id]
      after[j \in 0 .. Len(q)] ==
        IF j = 0 THEN [m |-> m, found |-> NULL, tries |-> Tries]
        ELSE LET a == after[j - 1] IN TailLook(a, q[Len(q) + 1 - j], cur_hv)
  IN  after[Len(q)]

(* The item leaves the hash table and the LRU and is reused as it is.      *)
Reuse(m, c, why) ==
  LET n == do_item_unlink(refcount_incr(m, c), c)
  IN  [m |-> [refcount_decr(n, c) EXCEPT !.heap[c].cls = 0], it |-> c, how |-> why]

(* A new item with one reference, or NULL.  cur_hv: the hash value whose   *)
(* lock the caller holds, 0 if none.                                       *)
do_item_alloc(m, k, v, exp, cur_hv) ==
  LET id == slabs_clsid(Len(v))
      a == TailSearch(m, id, cur_hv)
      s == do_slabs_alloc(a.m, id)
      r == IF a.found # NULL /\ Reclaimable(a.m.heap[a.found])
           THEN Reuse(a.m, a.found, "reclaimed")
           ELSE IF s.it = NULL /\ a.found # NULL /\ conf.evict
           THEN Reuse(s.m, a.found, "evicted")
           ELSE [m |-> s.m, it |-> s.it, how |-> "slab"]
  IN  IF id = 0 THEN [m |-> m, it |-> NULL, how |-> "too large"]
      ELSE IF r.it = NULL THEN r
      ELSE [r EXCEPT !.m.heap[r.it] =
              [key |-> k, val |-> v, cas |-> 0, ref |-> 1, fl |-> {},
               cls |-> id, time |-> @.time, exp |-> exp]]

(***************************************************************************)
(* slabs.c: asking for a page to be moved.  The answer is REASSIGN_RUNNING *)
(* while somebody holds slabs_rebalance_lock.                              *)
(***************************************************************************)

(* Next class after cur, in a circle, that can spare a page.               *)
slabs_reassign_pick_any(m, r, dst) ==
  LET n == Len(Perslab)
      nth(j) == ((r.cur + j - 1) % n) + 1
      js == {j \in Class : nth(j) # dst /\ Len(m.pages[nth(j)]) > 1}
      src == nth(CHOOSE x \in js : \A y \in js : x <= y)
  IN  IF js = {} THEN [src |-> -1, cur |-> nth(n)] ELSE [src |-> src, cur |-> src]

slabs_reassign(m, r, src0, dst) ==
  LET q == IF src0 = -1 THEN slabs_reassign_pick_any(m, r, dst)
                        ELSE [src |-> src0, cur |-> r.cur]
  IN  IF r.lock # None \/ r.signal # 0 \/ src0 = dst THEN r
      ELSE IF q.src \notin Class \/ dst \notin Class \/ Len(m.pages[q.src]) < 2
      THEN [r EXCEPT !.cur = q.cur]
      ELSE [r EXCEPT !.cur = q.cur, !.s = q.src, !.d = dst, !.signal = 1]

(* slab_automove = 2: every eviction asks for a page for its class.        *)
AfterAlloc(a, id) ==
  rb' = IF a.how = "evicted" /\ conf.angry THEN slabs_reassign(a.m, rb, -1, id) ELSE rb

(* do_item_get drops items of the page that is being moved away.           *)
Moving(c) == rb.signal # 0 /\ rb.page # 0 /\ \E j \in 1 .. Perslab[rb.s] : Page(rb.page)[j] = c

(***************************************************************************)
(* The threads.  it and old are references the thread counts as its own;   *)
(* p is a pointer it has looked up and not yet counted.                    *)
(***************************************************************************)

Idle == [pc |-> "idle", cmd |-> None, k |-> 0, v |-> <<>>, exp |-> 0, cas |-> 0,
         it |-> NULL, old |-> NULL, p |-> NULL, res |-> None, out |-> <<>>]

Goto(t, pc) == [th EXCEPT ![t].pc = pc]

CanLock(t, hv) == IF ltype[t] = "granular" THEN ilock[LockOf(hv)] = None
                                           ELSE glock = None

item_lock(t, hv) ==
  /\ CanLock(t, hv)
  /\ IF ltype[t] = "granular"
     THEN ilock' = [ilock EXCEPT ![LockOf(hv)] = t] /\ UNCHANGED glock
     ELSE glock' = t /\ UNCHANGED ilock

item_unlock(t, hv) ==
  IF ltype[t] = "granular"
  THEN ilock' = [ilock EXCEPT ![LockOf(hv)] = None] /\ UNCHANGED glock
  ELSE glock' = None /\ UNCHANGED ilock

(* Another step, under cache_lock or in such a section itself, writes the  *)
(* LRU lists, their items' times or hash_items while a thread is in the    *)
(* unlocked section of do_item_get.                                        *)
Overlap ==
  /\ \E t \in Threads : th[t].pc = "drop" /\ th'[t].pc = "drop"
  /\ \/ mem'.lru # mem.lru \/ mem'.items # mem.items
     \/ \E c \in Chunk : mem'.heap[c].time # mem.heap[c].time

(* Part of every action: there is no further step after an overlap.        *)
Watched == ~torn /\ torn' = Overlap

Quiet == UNCHANGED <<conf, ltype, mt, cr, now, oldest>> /\ Watched
NoLocks == UNCHANGED <<ilock, glock>>

(* An expiry time: 0 is never, else so many seconds from now (clients that *)
(* send a point in time instead mean the same).                            *)
realtime(e) == IF e = 0 THEN 0 ELSE now + e

(* A command arrives.  A cas carries the id of some version of the key.    *)
Begin(t) ==
  /\ th[t].pc = "idle" /\ conf.ops > 0 /\ t \in conf.who
  /\ conf' = [conf EXCEPT !.ops = @ - 1]
  /\ \E cmd \in (IF t \in Testers THEN {"get"} ELSE conf.cmds), k \in Keys :
       \E e \in (IF cmd \in StoreCmds \cup {"touch"} THEN conf.exps ELSE {0}),
          id \in (IF cmd = "cas" THEN {mem.heap[c].cas : c \in Chunk} ELSE {0}) :
         th' = [th EXCEPT ![t] =
           [Idle EXCEPT !.pc = IF cmd \in StoreCmds THEN "alloc" ELSE "lookup",
                        !.cmd = cmd, !.k = k, !.v = [j \in 1 .. conf.len |-> k], !.cas = id,
                        !.exp = realtime(e)]]
  /\ UNCHANGED <<mem, ltype, mt, rb, cr, now, oldest, leaked>> /\ NoLocks /\ Watched

(* process_update_command: without memory a set must not leave the old     *)
(* value behind, so it goes on as a delete.                                *)
ItemAlloc(t) ==
  LET q == th[t]
      a == do_item_alloc(mem, q.k, q.v, q.exp, 0)
  IN  /\ q.pc = "alloc"
      /\ mem' = a.m /\ AfterAlloc(a, slabs_clsid(Len(q.v)))
      /\ th' = IF a.it # NULL
               THEN [th EXCEPT ![t].pc = "upload", ![t].it = a.it]
               ELSE [th EXCEPT ![t].pc = IF q.cmd = "set" THEN "lookup" ELSE "return",
                               ![t].cmd = IF q.cmd = "set" THEN "purge" ELSE @, ![t].res = "failed"]
      /\ UNCHANGED leaked /\ Quiet /\ NoLocks

(* The data is in: store it, or drop it (bad data, or the connection is    *)
(* gone).                                                                  *)
Uploaded(t) ==
  /\ th[t].pc = "upload"
  /\ \/ th' = Goto(t, "lookup")
     \/ th' = [th EXCEPT ![t].pc = "remove", ![t].res = "failed"]
  /\ UNCHANGED <<mem, rb, leaked>> /\ Quiet /\ NoLocks

(* item_lock and the lookup of do_item_get.                                *)
Lookup(t) ==
  /\ th[t].pc = "lookup"
  /\ item_lock(t, th[t].k)
  /\ th' = [th EXCEPT ![t].pc = "count", ![t].p = assoc_find(mem, th[t].k)]
  /\ UNCHANGED <<mem, rb, leaked>> /\ Quiet

(* The item is from before a flush, or expired.                            *)
Stale(c) ==
  LET x == mem.heap[c]
  IN  \/ oldest # 0 /\ oldest <= now /\ x.time <= oldest
      \/ x.exp # 0 /\ x.exp <= now

(* Items do_item_get does not return.                                      *)
Gone(c) == Moving(c) \/ Stale(c)

(* do_item_get found an item of the page being moved away: it counts the   *)
(* reference and goes on to unlink the item, without cache_lock.           *)
GetMoving(t) ==
  LET c == th[t].p
  IN  /\ th[t].pc = "count" /\ c # NULL /\ Moving(c)
      /\ mem' = refcount_incr(mem, c)
      /\ th' = [th EXCEPT ![t].pc = "drop", ![t].p = NULL, ![t].old = c]
      /\ UNCHANGED <<rb, leaked>> /\ Quiet /\ NoLocks

(* The end of that section: item and reference are gone, do_item_get       *)
(* returns NULL.  item_get lets the lock go, the callers GetOld is about   *)
(* keep it.                                                                *)
DropMoved(t) ==
  LET q == th[t]
      keep == q.cmd \in StoreCmds \cup {"incr"}
  IN  /\ q.pc = "drop"
      /\ mem' = do_item_remove(do_item_unlink(mem, q.old), q.old)
      /\ IF keep
         THEN th' = [th EXCEPT ![t].pc = "apply", ![t].old = NULL] /\ NoLocks
         ELSE /\ th' = [th EXCEPT ![t].pc = "return", ![t].old = NULL,
                                  ![t].res = IF q.cmd = "purge" THEN @ ELSE "NOT_FOUND"]
              /\ item_unlock(t, q.k)
      /\ UNCHANGED <<rb, leaked>> /\ Quiet

(* The rest of do_item_get for any other item: count the reference, and    *)
(* give it back when the item is not to be returned.                       *)
do_item_get(m, c) ==
  LET n == refcount_incr(m, c)
  IN  IF c = NULL THEN [m |-> m, it |-> NULL]
      ELSE IF Stale(c) THEN [m |-> do_item_remove(do_item_unlink(n, c), c), it |-> NULL]
      ELSE [m |-> [n EXCEPT !.heap[c].fl = @ \cup {"FETCHED"}], it |-> c]

(* item_get and item_touch, called by get, touch, delete and the failed    *)
(* set.  A hit answers with the value; a delete remembers the version.     *)
ItemGet(t) ==
  LET q == th[t]
      g == do_item_get(mem, q.p)
      x == mem.heap[g.it]
      del == q.cmd \in {"delete", "purge"}
  IN  /\ q.pc = "count" /\ q.cmd \in {"get", "touch", "delete", "purge"} /\ ~Moving(q.p)
      /\ mem' = IF q.cmd = "touch" /\ g.it # NULL
                THEN [g.m EXCEPT !.heap[g.it].exp = q.exp] ELSE g.m
      /\ th' = [th EXCEPT ![t] = IF g.it = NULL
                  THEN [q EXCEPT !.pc = "return", !.p = NULL,
                                 !.res = IF q.cmd = "purge" THEN @ ELSE "NOT_FOUND"]
                  ELSE [q EXCEPT !.pc = IF del THEN "unlink" ELSE "update", !.p = NULL,
                                 !.it = g.it, !.res = IF del THEN @ ELSE "VALUE",
                                 !.out = CASE q.cmd = "purge" -> @ [] q.cmd = "delete" -> <<x.cas>>
                                           [] OTHER -> x.val]]
      /\ item_unlock(t, q.k)
      /\ UNCHANGED <<rb, leaked>> /\ Quiet

(* Mutant: the item lock is released after the lookup.                     *)
GetOldUnlocked(t) ==
  LET q == th[t]
      g == do_item_get(mem, q.p)
  IN  /\ q.pc = "count" /\ q.cmd \in StoreCmds \cup {"incr"} /\ ~Moving(q.p)
      /\ mem' = g.m
      /\ th' = [th EXCEPT ![t].p = NULL, ![t].old = g.it, ![t].pc = "apply"]
      /\ item_unlock(t, q.k)
      /\ UNCHANGED <<rb, leaked>> /\ Quiet

(* do_item_get called by do_store_item and do_add_delta, lock kept.        *)
GetOld(t) ==
  LET q == th[t]
      g == do_item_get(mem, q.p)
  IN  /\ q.pc = "count" /\ q.cmd \in StoreCmds \cup {"incr"} /\ ~Moving(q.p)
      /\ mem' = g.m
      /\ th' = [th EXCEPT ![t].p = NULL, ![t].old = g.it, ![t].pc = "apply"]
      /\ UNCHANGED <<rb, leaked>> /\ Quiet /\ NoLocks

(* The combined value of append and prepend.                               *)
Combine(cmd, old, v) == IF cmd = "append" THEN old \o v ELSE v \o old

(* Mutant: do_store_item keeps the reference to the old item.              *)
ReleaseOldNot(m, old) == m

ReleaseOld(m, old) == IF old = NULL THEN m ELSE do_item_remove(m, old)

(* do_store_item after its do_item_get, and the unlock of store_item.      *)
DoStoreItem(t) ==
  LET q == th[t]
      old == q.old
      x == mem.heap[old]
      comb == q.cmd \in {"append", "prepend"}
      a == do_item_alloc(mem, q.k, Combine(q.cmd, x.val, q.v), x.exp, q.k)
      put(m, new) == IF old # NULL THEN do_item_replace(m, old, new)
                                   ELSE do_item_link(m, new)
      Answer(m, r) == /\ mem' = ReleaseOld(m, old)
                      /\ th' = [th EXCEPT ![t].pc = "remove", ![t].old = NULL, ![t].res = r]
  IN  /\ q.pc = "apply" /\ q.cmd \in StoreCmds
      /\ \/ /\ old # NULL /\ q.cmd = "add"
            /\ Answer(do_item_update(mem, old), "NOT_STORED") /\ UNCHANGED rb
         \/ /\ old = NULL /\ q.cmd \in {"replace", "append", "prepend"}
            /\ Answer(mem, "NOT_STORED") /\ UNCHANGED rb
         \/ /\ q.cmd = "cas" /\ UNCHANGED rb
            /\ IF old = NULL THEN Answer(mem, "NOT_FOUND")
               ELSE IF x.cas = q.cas THEN Answer(put(mem, q.it), "STORED")
               ELSE Answer(mem, "EXISTS")
         \/ /\ old # NULL /\ comb /\ AfterAlloc(a, slabs_clsid(Len(x.val) + Len(q.v)))
            /\ IF a.it = NULL THEN Answer(a.m, "failed")
               ELSE Answer(do_item_remove(put(a.m, a.it), a.it), "STORED")
         \/ /\ q.cmd = "set" \/ (q.cmd = "add" /\ old = NULL)
               \/ (q.cmd = "replace" /\ old # NULL)
            /\ Answer(put(mem, q.it), "STORED") /\ UNCHANGED rb
      /\ item_unlock(t, q.k)
      /\ UNCHANGED leaked /\ Quiet

(* do_add_delta after its do_item_get, and the unlock of add_delta: in     *)
(* place when nobody else refers to the item, else through a new item.     *)
DoAddDelta(t) ==
  LET q == th[t]
      c == q.old
      x == mem.heap[c]
      v == <<(x.val[1] + 1) % Wrap>>
      a == do_item_alloc(mem, q.k, v, x.exp, q.k)
      new == do_item_replace(a.m, c, a.it)
      Answer(m, r) == /\ mem' = m
                      /\ th' = [th EXCEPT ![t].pc = "return", ![t].old = NULL, ![t].res = r]
  IN  /\ q.pc = "apply" /\ q.cmd = "incr"
      /\ \/ c = NULL /\ Answer(mem, "NOT_FOUND") /\ UNCHANGED rb
         \/ /\ c # NULL /\ Len(x.val) > 1
            /\ Answer(do_item_remove(mem, c), "NON_NUMERIC") /\ UNCHANGED rb
         \/ /\ c # NULL /\ Len(x.val) = 1 /\ x.ref = 2 /\ UNCHANGED rb
            /\ Answer(do_item_remove(do_item_update(
                        [mem EXCEPT !.heap[c].val = v, !.heap[c].cas = mem.casid + 1,
                                    !.casid = @ + 1], c), c), "OK")
         \/ /\ c # NULL /\ Len(x.val) = 1 /\ x.ref > 2 /\ AfterAlloc(a, 1)
            /\ IF a.it = NULL THEN Answer(do_item_remove(a.m, c), "failed")
               ELSE Answer(do_item_remove(do_item_remove(
                      [new EXCEPT !.heap[c].cas = new.heap[a.it].cas], a.it), c), "OK")
      /\ item_unlock(t, q.k)
      /\ UNCHANGED leaked /\ Quiet

(* item_update after a hit.  test_zipfian forgets the reference here.      *)
ItemUpdate(t) ==
  LET c == th[t].it
  IN  /\ th[t].pc = "update" /\ CanLock(t, th[t].k)
      /\ mem' = do_item_update(mem, c)
      /\ IF t \in Testers
         THEN th' = [th EXCEPT ![t] = Idle] /\ leaked' = [leaked EXCEPT ![c] = @ + 1]
         ELSE th' = Goto(t, "remove") /\ UNCHANGED leaked
      /\ UNCHANGED rb /\ Quiet /\ NoLocks

(* item_unlink of delete and of the failed set.                            *)
ItemUnlink(t) ==
  /\ th[t].pc = "unlink" /\ CanLock(t, th[t].k)
  /\ mem' = do_item_unlink(mem, th[t].it)
  /\ th' = [th EXCEPT ![t].pc = "remove", ![t].res = IF th[t].cmd = "delete" THEN "DELETED" ELSE @,
                      ![t].out = <<>>]
  /\ UNCHANGED <<rb, leaked>> /\ Quiet /\ NoLocks

(* item_remove: the command's reference goes, and the command is over.     *)
ItemRemove(t) ==
  /\ th[t].pc = "remove" /\ CanLock(t, th[t].k)
  /\ mem' = do_item_remove(mem, th[t].it)
  /\ th' = [th EXCEPT ![t] = Idle]
  /\ UNCHANGED <<rb, leaked>> /\ Quiet /\ NoLocks

ReturnCmd(t) ==
  /\ th[t].pc = "return" /\ th' = [th EXCEPT ![t] = Idle]
  /\ UNCHANGED <<mem, rb, leaked>> /\ Quiet /\ NoLocks


(* The walk of do_item_flush_expired: from the head to the first old item, *)
(* or to a crawler, whose time is 0.                                       *)
FlushClass(m, id, live) ==
  LET old(c) == c < 0 \/ m.heap[c].time < live
      q == m.lru[id]
      stop == {j \in DOMAIN q : old(q[j])}
      n == IF stop = {} THEN Len(q) ELSE (CHOOSE j \in stop : \A l \in stop : j <= l) - 1
  IN  FoldLeft(LAMBDA s, j : do_item_unlink(s, q[j]), m, [j \in 1 .. n |-> j])

(* flush_all, now or later: under cache_lock, without item locks.  There   *)
(* is one oldest_live: a later flush_all replaces what an earlier one set. *)
FlushAll(t) ==
  /\ th[t].pc = "idle" /\ conf.ops > 0 /\ t \in conf.who \cap Workers
  /\ \E d \in conf.flush :
       LET live == now + d - 1
       IN  /\ oldest' = live
           /\ mem' = IF live = 0 THEN mem
                     ELSE FoldLeft(LAMBDA s, id : FlushClass(s, id, live), mem,
                                   [id \in Class |-> id])
           /\ conf' = [conf EXCEPT !.ops = @ - 1, !.flushed = mem.casid]
  /\ UNCHANGED <<th, ltype, mt, rb, cr, now, leaked>> /\ NoLocks /\ Watched

clock_handler ==
  /\ now < MaxTime /\ conf.clock /\ now' = now + 1
  /\ UNCHANGED <<conf, mem, th, ltype, mt, rb, cr, oldest, leaked>> /\ NoLocks /\ Watched

(***************************************************************************)
(* assoc_maintenance_thread and switch_item_lock_type.                     *)
(***************************************************************************)

MaintQuiet == UNCHANGED <<conf, th, ilock, glock, cr, now, oldest, leaked>> /\ Watched

(* Woken: pause the rebalancer, tell every worker to use the global lock.  *)
MaintPause ==
  /\ mt.pc = "wait" /\ mem.started /\ rb.lock = None
  /\ rb' = [rb EXCEPT !.lock = "maint"]
  /\ mt' = [mt EXCEPT !.pc = "global", !.todo = Workers]
  /\ UNCHANGED <<mem, ltype>> /\ MaintQuiet

(* A worker reads the notification between two events and reports in; it   *)
(* may be waiting for data to store or for an answer to be sent.           *)
SwitchLockType(t) ==
  /\ t \in mt.todo
  /\ \/ th[t].pc \in {"idle", "upload"}
     \/ th[t].pc = "remove" /\ th[t].cmd = "get"
  /\ ltype' = [ltype EXCEPT ![t] = mt.pc]
  /\ mt' = [mt EXCEPT !.todo = @ \ {t}]
  /\ UNCHANGED <<mem, rb>> /\ MaintQuiet

(* assoc_expand; without memory for the new table nothing changes.         *)
assoc_expand ==
  /\ mt.pc = "global" /\ mt.todo = {}
  /\ \/ /\ mem' = [mem EXCEPT !.old = mem.tab, !.power = @ + 1, !.expanding = TRUE,
                              !.bucket = 0, !.tab = [b \in 0 .. 2^(mem.power + 1) - 1 |-> <<>>]]
        /\ mt' = [mt EXCEPT !.pc = "move"]
     \/ /\ mt' = [mt EXCEPT !.pc = "granular", !.todo = Workers] /\ UNCHANGED mem
  /\ UNCHANGED <<rb, ltype>> /\ MaintQuiet

(* One bucket of the old table, under the global item lock.                *)
MoveBucket ==
  LET b == mem.bucket
      add(tab, c) == [tab EXCEPT ![mem.heap[c].key % 2^mem.power] = <<c>> \o @]
      last == b + 1 = 2^(mem.power - 1)
  IN  /\ mt.pc = "move" /\ glock = None
      /\ mem' = [mem EXCEPT !.tab = FoldLeft(add, mem.tab, mem.old[b]),
                            !.old[b] = <<>>, !.bucket = b + 1, !.expanding = ~last]
      /\ mt' = IF last THEN [mt EXCEPT !.pc = "granular", !.todo = Workers] ELSE mt
      /\ UNCHANGED <<rb, ltype>> /\ MaintQuiet

(* Mutant: slabs_rebalancer_resume is forgotten.                           *)
MaintResumeAlone ==
  /\ mt.pc = "granular" /\ mt.todo = {}
  /\ mem' = [mem EXCEPT !.started = FALSE]
  /\ mt' = [mt EXCEPT !.pc = "wait"]
  /\ UNCHANGED <<ltype, rb>> /\ MaintQuiet

(* All workers are back to fine-grained locks: wait for the next time.     *)
MaintResume ==
  /\ mt.pc = "granular" /\ mt.todo = {}
  /\ rb' = [rb EXCEPT !.lock = None]
  /\ mem' = [mem EXCEPT !.started = FALSE]
  /\ mt' = [mt EXCEPT !.pc = "wait"]
  /\ UNCHANGED ltype /\ MaintQuiet

(***************************************************************************)
(* The slab rebalancer.                                                    *)
(***************************************************************************)

RebalQuiet == UNCHANGED <<th, ilock, glock, ltype, mt, cr, now, oldest, leaked>> /\ Watched

(* slabs reassign <src> <dst>; src -1 lets the server choose.              *)
Reassign ==
  /\ conf.moves > 0
  /\ conf' = [conf EXCEPT !.moves = @ - 1]
  /\ \E src \in Class \cup {-1}, dst \in Class : rb' = slabs_reassign(mem, rb, src, dst)
  /\ UNCHANGED mem /\ RebalQuiet

(* slab_rebalance_start, with the lock the condition variable gives back.  *)
slab_rebalance_start ==
  LET no_go == rb.s = rb.d \/ Len(mem.pages[rb.s]) < 2
  IN  /\ rb.signal = 1 /\ rb.lock = None
      /\ rb' = IF no_go THEN [rb EXCEPT !.signal = 0]
               ELSE [rb EXCEPT !.lock = "rebal", !.signal = 2, !.pos = 1, !.busy = 0,
                               !.done = FALSE, !.page = mem.pages[rb.s][1]]
      /\ UNCHANGED <<conf, mem>> /\ RebalQuiet

(* What slab_rebalance_move makes of one chunk.                            *)
MoveChunk(m, c) ==
  LET n == refcount_incr(m, c)
      r == n.heap[c].ref
      clear(k) == [m |-> [k EXCEPT !.heap[c].ref = 0, !.heap[c].fl = {}, !.heap[c].cls = 255],
                   busy |-> 0]
  IN  IF m.heap[c].cls = 255 THEN [m |-> m, busy |-> 0]
      ELSE IF ~item_trylock(m.heap[c].key) THEN [m |-> m, busy |-> 1]
      ELSE IF r = 1 /\ "SLABBED" \in n.heap[c].fl
      THEN clear([n EXCEPT !.slots[rb.s] = Without(@, c)])
      ELSE IF r = 2 /\ "LINKED" \in n.heap[c].fl THEN clear(do_item_unlink(n, c))
      ELSE [m |-> refcount_decr(n, c), busy |-> 1]

slab_rebalance_move ==
  LET x == MoveChunk(mem, Page(rb.page)[rb.pos])
      busy == rb.busy + x.busy
      end == rb.pos = Perslab[rb.s]
  IN  /\ rb.lock = "rebal" /\ ~rb.done
      /\ mem' = x.m
      /\ rb' = IF ~end THEN [rb EXCEPT !.pos = @ + 1, !.busy = busy]
               ELSE IF busy > 0 THEN [rb EXCEPT !.pos = 1, !.busy = 0]
               ELSE [rb EXCEPT !.done = TRUE, !.busy = 0]
      /\ UNCHANGED conf /\ RebalQuiet

(* The page is wiped and becomes free chunks of the other class.           *)
slab_rebalance_finish ==
  LET p == rb.page
      q == mem.pages[rb.s]
      wiped == [mem EXCEPT !.heap = [c \in Chunk |->
                  IF c \in Range(Page(p)) THEN NoItem ELSE @[c]],
                !.pages[rb.s] = [j \in 1 .. Len(q) - 1 |-> IF j = 1 THEN q[Len(q)] ELSE q[j]],
                !.pages[rb.d] = Append(@, p)]
  IN  /\ rb.done
      /\ mem' = split_slab_page_into_freelist(wiped, p, rb.d)
      /\ rb' = [rb EXCEPT !.lock = None, !.signal = 0, !.s = 0, !.d = 0, !.page = 0,
                          !.pos = 0, !.done = FALSE]
      /\ UNCHANGED conf /\ RebalQuiet

(***************************************************************************)
(* The LRU crawler.                                                        *)
(***************************************************************************)

CrawlQuiet == UNCHANGED <<th, ilock, glock, ltype, mt, rb, now, oldest, leaked>> /\ Watched

(* lru_crawler crawl <ids>: tocrawl is not initialised, so other classes   *)
(* may be crawled as well.  Refused while a crawl runs.                    *)
lru_crawler_crawl ==
  /\ conf.crawls > 0 /\ cr.on = {}
  /\ conf' = [conf EXCEPT !.crawls = @ - 1]
  /\ \E S \in SUBSET Class :
       LET on == {id \in S : mem.lru[id] # <<>>}
       IN  /\ cr' = [on |-> on, left |-> [id \in Class |-> conf.tocrawl]]
           /\ mem' = [mem EXCEPT !.lru = [id \in Class |->
                        IF id \in on THEN Append(@[id], Crawler(id)) ELSE @[id]]]
  /\ CrawlQuiet

(* crawler_crawl_q: change places with the item before, NULL at the head.  *)
crawler_crawl_q(q, id) ==
  LET i == CHOOSE j \in DOMAIN q : q[j] = Crawler(id)
  IN  IF i = 1 THEN [q |-> q, search |-> NULL]
      ELSE [q |-> [q EXCEPT ![i - 1] = Crawler(id), ![i] = q[i - 1]], search |-> q[i - 1]]

crawler_unlink_q(m, id) == [m EXCEPT !.lru[id] = Without(@, Crawler(id))]

item_crawler_evaluate(m, c) ==
  IF Reclaimable(m.heap[c])
  THEN do_item_remove(do_item_unlink(refcount_incr(m, c), c), c) ELSE m

(* One turn of item_crawler_thread in class id, under cache_lock.          *)
CrawlItem(id) ==
  LET x == crawler_crawl_q(mem.lru[id], id)
      m == [mem EXCEPT !.lru[id] = x.q]
      c == x.search
      left == IF cr.left[id] = 0 THEN 0 ELSE cr.left[id] - 1
      stop == c = NULL \/ (cr.left[id] # 0 /\ left < 1)
  IN  /\ id \in cr.on
      /\ mem' = IF stop THEN crawler_unlink_q(m, id)
                ELSE IF item_trylock(m.heap[c].key) /\ m.heap[c].ref = 1
                THEN item_crawler_evaluate(m, c) ELSE m
      /\ cr' = [on |-> IF stop THEN cr.on \ {id} ELSE cr.on,
                left |-> [cr.left EXCEPT ![id] = left]]
      /\ UNCHANGED conf /\ CrawlQuiet

(***************************************************************************)
(* The specification.                                                      *)
(***************************************************************************)

(* The free list of a class that got these pages one after the other.      *)
FreeList(ps, n) ==
  [i \in 1 .. n * Len(ps) |-> Page(ps[Len(ps) - ((i - 1) \div n)])[n - ((i - 1) % n)]]

(* slabs_init and slabs_preallocate: so many pages in every class.         *)
slabs_init(pages) ==
  [heap |-> [c \in Chunk |-> IF \E id \in Class : \E p \in Range(pages[id]) : c \in Used(p, id)
                              THEN [NoItem EXCEPT !.fl = {"SLABBED"}] ELSE NoItem],
   lru |-> [id \in Class |-> <<>>],
   slots |-> [id \in Class |-> FreeList(pages[id], Perslab[id])], pages |-> pages,
   malloced |-> Cardinality(UNION {Range(pages[id]) : id \in Class}),
   tab |-> [b \in 0 .. 2^HashPower - 1 |-> <<>>], old |-> <<>>, power |-> HashPower,
   expanding |-> FALSE, bucket |-> 0, items |-> 0, started |-> FALSE, casid |-> 0]

Init ==
  /\ conf \in Scenarios
  /\ mem = slabs_init(conf.pages)
  /\ th = [t \in Threads |-> Idle]
  /\ ilock = [l \in 0 .. NLocks - 1 |-> None] /\ glock = None
  /\ ltype = [t \in Threads |-> "granular"]
  /\ mt = [pc |-> "wait", todo |-> {}]
  /\ rb = [lock |-> None, signal |-> 0, s |-> 0, d |-> 0, page |-> 0, pos |-> 0,
           busy |-> 0, done |-> FALSE, cur |-> 0]
  /\ cr = [on |-> {}, left |-> [id \in Class |-> 0]]
  /\ now = UpdateInterval + 2 /\ oldest = 0
  /\ leaked = [c \in Chunk |-> 0] /\ torn = FALSE

ThreadStep(t) ==
  \/ ItemAlloc(t) \/ Uploaded(t) \/ Lookup(t) \/ GetMoving(t) \/ DropMoved(t)
  \/ ItemGet(t) \/ GetOld(t) \/ DoStoreItem(t) \/ DoAddDelta(t)
  \/ ItemUpdate(t) \/ ItemUnlink(t) \/ ItemRemove(t) \/ ReturnCmd(t) \/ SwitchLockType(t)

Background ==
  \/ MaintPause \/ assoc_expand \/ MoveBucket \/ MaintResume
  \/ slab_rebalance_start \/ slab_rebalance_move \/ slab_rebalance_finish
  \/ \E id \in Class : CrawlItem(id)

Next ==
  \/ \E t \in Threads : Begin(t) \/ ThreadStep(t) \/ FlushAll(t)
  \/ Background \/ Reassign \/ lru_crawler_crawl \/ clock_handler

(* A thread with a command in progress, or a new lock type to take up,     *)
(* that no lock holds back.                                                *)
Runnable(t) ==
  /\ ~torn
  /\ \/ th[t].pc \in {"alloc", "upload", "count", "drop", "apply", "return"}
     \/ th[t].pc \in {"lookup", "update", "unlink", "remove"} /\ CanLock(t, th[t].k)
     \/ th[t].pc = "idle" /\ t \in mt.todo

(* Commands in progress go on (weak fairness, written out with Runnable    *)
(* for ENABLED), and so does every background thread; nobody has to send   *)
(* another command.                                                        *)
Fairness ==
  /\ \/ []<>(\A t \in Threads : ~Runnable(t))
     \/ []<><<\E t \in Threads : ThreadStep(t)>>_vars
  /\ WF_vars(MaintPause \/ assoc_expand \/ MoveBucket \/ MaintResume)
  /\ WF_vars(slab_rebalance_start \/ slab_rebalance_move \/ slab_rebalance_finish)
  /\ WF_vars(\E id \in Class : CrawlItem(id))

Spec == Init /\ [][Next]_vars /\ Fairness

(***************************************************************************)
(* Properties.                                                             *)
(***************************************************************************)

(* Every chunk is in exactly one place: in the free list of its page's     *)
(* class, linked (in its LRU list once and found by assoc_find under its   *)
(* key, however far an expansion has got), referenced only, or set aside   *)
(* by the rebalancer.  Buckets move only while no worker uses fine-grained *)
(* item locks (assoc.c, items.c, slabs.c, thread.c).  So it is as long as  *)
(* nobody has overlapped an unlocked unlink of do_item_get.                *)
StoreInv == ~torn =>
  /\ \A id \in Class :
       /\ \A j \in DOMAIN mem.slots[id] :
            LET c == mem.slots[id][j]
            IN  /\ mem.heap[c].cls = 0 /\ mem.heap[c].ref = 0
                /\ "SLABBED" \in mem.heap[c].fl
                /\ \E p \in Range(mem.pages[id]) : c \in Range(Page(p))
       /\ IsInjective(mem.slots[id]) /\ IsInjective(mem.lru[id])
       /\ {c \in Range(mem.lru[id]) : c > 0} =
            {c \in Chunk : "LINKED" \in mem.heap[c].fl /\ mem.heap[c].cls = id}
       /\ Crawler(id) \in Range(mem.lru[id]) <=> id \in cr.on
       /\ \A p \in Range(mem.pages[id]) : \A j \in 1 .. Perslab[id] :
            LET c == Page(p)[j]
            IN  mem.heap[c].ref = 0 => c \in Range(mem.slots[id]) \/ mem.heap[c].cls = 255
  /\ \A c \in Chunk : "LINKED" \in mem.heap[c].fl => assoc_find(mem, mem.heap[c].key) = c
  /\ mem.items = Cardinality({c \in Chunk : "LINKED" \in mem.heap[c].fl})
  /\ mt.pc = "move" => \A l \in DOMAIN ilock : ilock[l] \notin Workers

(* The reference count of an item is the number of references: one for the *)
(* hash table, one for each command that uses it, and those test_zipfian   *)
(* never gave back (refcount_incr, refcount_decr and their callers), until *)
(* an unlocked unlink is overlapped.                                       *)
RefAccounted == ~torn =>
  \A c \in Chunk :
    mem.heap[c].ref = (IF "LINKED" \in mem.heap[c].fl THEN 1 ELSE 0) + leaked[c]
                      + Cardinality({t \in Threads : th[t].it = c})
                      + Cardinality({t \in Threads : th[t].old = c})

(* An item keeps its key and its value, and is not freed, while a command  *)
(* refers to it: do_add_delta writes in place only where nobody reads.     *)
(* After an overlapped unlink a tail search may reuse the item of another. *)
HeldStable ==
  [][~torn' => \A t \in Threads :
       LET c == th[t].it
       IN  c # NULL /\ th'[t].it = c =>
             /\ mem'.heap[c].key = mem.heap[c].key /\ mem'.heap[c].val = mem.heap[c].val
             /\ "SLABBED" \notin mem'.heap[c].fl]_vars

(* do_add_delta: "We hold the item's lock in this function, so refcount    *)
(* cannot increase" (and do_store_item, under the same lock).              *)
RefStable ==
  [][\A t \in Threads :
       th[t].pc = "apply" /\ th'[t].pc = "apply" /\ th[t].old # NULL =>
         mem'.heap[th[t].old].ref <= mem.heap[th[t].old].ref]_vars

(* What do_item_get would return for the key at this moment.               *)
Visible(k) ==
  LET c == assoc_find(mem, k)
  IN  IF c = NULL \/ Gone(c) THEN <<>>
      ELSE <<[val |-> mem.heap[c].val, cas |-> mem.heap[c].cas]>>

CallOf(t) ==
  LET q == th[t]
      at == CASE q.pc \in {"alloc", "upload", "lookup", "count", "drop", "apply"} /\ q.cmd # "purge"
                   -> "pending"
              [] q.pc = "unlink" /\ q.cmd # "purge" -> "deleting"
              [] OTHER -> "done"
  IN  IF q.pc = "idle" THEN [at |-> "idle"]
      ELSE [at |-> at, cmd |-> IF q.cmd = "purge" THEN "set" ELSE q.cmd, key |-> q.k,
            val |-> q.v, cas |-> q.cas, res |-> q.res, out |-> q.out]

Abstract == INSTANCE McCache WITH
  Clients <- Threads, CacheKeys <- Keys,
  cache <- [k \in Keys |-> Visible(k)], call <- [t \in Threads |-> CallOf(t)]

(* Two steps bring flushed entries back.  A delayed flush_all after one    *)
(* that is due: there is one oldest_live, now in the future again, and old *)
(* items still linked are found until then.  And the item_update of a get  *)
(* that found its item before the flush was due: the item gets a time of   *)
(* after it.                                                               *)
Rewind == oldest # 0 /\ oldest <= now /\ oldest' > now /\ UNCHANGED th

Revive(t) ==
  /\ th[t].pc = "update" /\ th'[t].pc # "update"
  /\ oldest # 0 /\ oldest <= now /\ mem.heap[th[t].it].time <= oldest

(* The store implements the atomic cache of McCache: every command takes   *)
(* effect at one instant, incr loses no update, cas replaces only the      *)
(* version it names, and entries otherwise only vanish (do_store_item,     *)
(* do_add_delta, do_item_get under their locks).  Exceptions: the steps    *)
(* that bring flushed entries back, where no call may move; and what an    *)
(* overlapped unlink leads to is not followed.                             *)
ImplementsCache ==
  /\ Abstract!CInit
  /\ [][\/ Abstract!CNext
        \/ (Rewind \/ \E t \in Threads : Revive(t)) /\ UNCHANGED [t \in Threads |-> CallOf(t)]]_
       <<[k \in Keys |-> Visible(k)], [t \in Threads |-> CallOf(t)]>>

(* An entry of before the last flush_all is found although the moment that *)
(* flush_all asked for has come.                                           *)
OldFound(k) ==
  oldest <= now /\ Visible(k) # <<>> /\ Visible(k)[1].cas <= conf.flushed


(* A hash table expansion, a page move and a crawl come to an end, though  *)
(* they wait for locks and references of commands in progress (unless an   *)
(* overlapped unlink ends the behaviour first).                            *)
MaintenanceEnds ==
  (mem.started \/ rb.signal # 0 \/ cr.on # {})
    ~> torn \/ (mt.pc = "wait" /\ ~mem.started /\ rb.signal = 0 /\ cr.on = {})
=============================================================================
