----------------------------- MODULE MC_McStore -----------------------------
(***************************************************************************)
(* Small instances of McStore: two keys, two slab classes (pages of two    *)
(* chunks and of one), and for every hazard a scenario in which it occurs. *)
(***************************************************************************)
EXTENDS McStore

CONSTANTS w1, w2, t1

MCPerslab == <<2, 1>>

Base == [who |-> {w1, w2}, cmds |-> {"get", "set", "delete", "incr"}, ops |-> 3,
         limit |-> 1, pages |-> <<<<1>>, <<>>>>, exps |-> {0}, evict |-> TRUE, angry |-> FALSE,
         expand |-> FALSE, moves |-> 0, crawls |-> 0, tocrawl |-> 0, clock |-> FALSE,
         flush |-> {}, flushed |-> 0, len |-> 1]

(* Two commands of any kind, three of the common ones.                     *)
TwoClients == {Base, [Base EXCEPT !.ops = 2, !.cmds = StoreCmds \cup {"get", "delete", "incr"}]}
(* One page of two chunks for two keys and commands in progress: eviction, *)
(* and allocation failing when eviction is off.                            *)
Tight == {[Base EXCEPT !.evict = e, !.cmds = {"get", "set"}] : e \in BOOLEAN}
(* A test thread that keeps its references.                                *)
Leaky == {[Base EXCEPT !.who = {w1, t1}, !.clock = TRUE]}
(* Expiry, touch, the clock and the crawler.                               *)
Ages == [Base EXCEPT !.exps = {0, 1}, !.clock = TRUE, !.crawls = 1,
                     !.cmds = {"get", "set", "touch"}]
Aging == {[Ages EXCEPT !.ops = 2, !.exps = {1}, !.cmds = {"get", "set"}],
          [Ages EXCEPT !.who = {w1}, !.crawls = 0],
          [Ages EXCEPT !.who = {w1}, !.ops = 2, !.tocrawl = 1]}
(* The table grows while commands run, with memory to spare, and a page    *)
(* move waits for its end.                                                 *)
Grow == [Base EXCEPT !.who = {w1}, !.ops = 4, !.limit = 3,
                     !.pages = <<<<1, 2, 3>>, <<>>>>, !.expand = TRUE]
Growing == {Grow, [Grow EXCEPT !.ops = 3, !.moves = 1, !.cmds = {"get", "set"}]}
(* A page is moved away under the commands, on request and after an        *)
(* eviction.                                                               *)
Paging == {[Base EXCEPT !.len = 2, !.limit = 3, !.pages = <<<<1>>, <<2>>>>, !.moves = 1,
                        !.cmds = {"get", "set"}],
           [Base EXCEPT !.limit = 3, !.pages = <<<<1>>, <<2, 3>>>>, !.angry = TRUE,
                        !.cmds = {"set", "append"}]}
(* One client and flush_all: at once, due at the next tick, and later.     *)
Flush == [Base EXCEPT !.who = {w1}, !.ops = 4, !.clock = TRUE, !.flush = {0, 1, 2},
                      !.cmds = {"get", "set"}]
Flushing == {Flush}

AllScenarios == TwoClients \cup Leaky \cup Growing \cup Flushing \cup Tight
                  \cup Aging \cup Paging

(***************************************************************************)
(* Known failures (McStore_known.cfg): what the other scenarios leave out, *)
(* and formulas that do not hold.                                          *)
(***************************************************************************)

(* Two workers while the table grows and their lock types change.          *)
Switching == {[Grow EXCEPT !.who = {w1, w2}]}
Known == Paging \cup Flushing \cup Switching

(* Nobody writes the LRU lists while do_item_get unlinks without           *)
(* cache_lock, the "Lock for cache operations" of thread.c.                *)
NotOverlapped == ~torn

(* What flush_all has made vanish is never found again.                    *)
FlushedForGood ==
  [][\A k \in Keys : OldFound(k)' => OldFound(k) /\ UNCHANGED oldest]_vars

(* Entries come only from commands, also across flush_all.                 *)
StrictlyCache ==
  Abstract!CInit /\ [][Abstract!CNext]_<<[k \in Keys |-> Visible(k)],
                                        [t \in Threads |-> CallOf(t)]>>
=============================================================================
