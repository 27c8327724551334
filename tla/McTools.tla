------------------------------- MODULE McTools -------------------------------
(***************************************************************************)
(* The small sequential services of memcached: the pools of free objects   *)
(* (cache.c), the decision which slab page to move (slabs.c) and the       *)
(* counters per key prefix (stats.c).  Each call is an operator from the   *)
(* state before it to the state after it; the callers hold the lock.       *)
(***************************************************************************)
EXTENDS Integers, Sequences, FiniteSets, SequencesExt, FiniteSetsExt, Functions

----------------------------------------------------------------------------
(* cache.c.  Objects are numbered in the order malloc returns them; used   *)
(* are those a caller holds, freed those that were given back to malloc.   *)

cache_create(initial_pool_size) ==
    [ptr |-> <<>>, freetotal |-> initial_pool_size, made |-> 0, used |-> {}, freed |-> {}]

\* A free object, the last one first, or a new one; NULL leaves the pool as it is.
cache_alloc(c, fails) ==
    IF c.ptr # <<>>
    THEN [c EXCEPT !.ptr = Front(@), !.used = @ \cup {Last(c.ptr)}]
    ELSE IF fails THEN c
    ELSE [c EXCEPT !.made = @ + 1, !.used = @ \cup {c.made + 1}]

\* The array doubles when it is full; if it cannot, the object goes to free().
cache_free(c, obj, fails) ==
    LET kept == [c EXCEPT !.used = @ \ {obj}, !.ptr = Append(@, obj)]
    IN  IF Len(c.ptr) < c.freetotal THEN kept
        ELSE IF ~fails THEN [kept EXCEPT !.freetotal = 2 * @]
        ELSE [c EXCEPT !.used = @ \ {obj}, !.freed = @ \cup {obj}]

cache_destroy(c) == [c EXCEPT !.ptr = <<>>, !.freed = @ \cup Range(c.ptr)]

----------------------------------------------------------------------------
(* slab_automove_decision.  A call says when it is made and what evictions *)
(* each slab class has had since the start; s keeps the static variables.  *)

AutomoveStart(class) ==
    [next_run |-> 0, evicted_old |-> [i \in class |-> 0], slab_zeroes |-> [i \in class |-> 0],
     slab_winner |-> 0, slab_wins |-> 0, decision |-> <<>>]

\* Classes below power_largest are looked at, in order; 0 stands for none.
slab_automove_decision(s, now, evicted_new, total_pages, power_largest) ==
    LET class == 1 .. power_largest - 1
        diff == [i \in class |-> evicted_new[i] - s.evicted_old[i]]
        Idle(i) == diff[i] = 0 /\ total_pages[i] > 2
        zeroes == [i \in class |-> IF Idle(i) THEN s.slab_zeroes[i] + 1 ELSE 0]
        Lowest(S) == IF S = {} THEN 0 ELSE Min(S)
        source == Lowest({i \in class : zeroes[i] >= 3})
        highest_slab == Lowest({i \in class : diff[i] > 0 /\ \A j \in class : diff[j] <= diff[i]})
        again == s.slab_winner # 0 /\ s.slab_winner = highest_slab
        wins == IF again THEN s.slab_wins + 1 ELSE 1
        dest == IF again /\ wins >= 3 THEN s.slab_winner ELSE 0
    IN  IF now < s.next_run THEN [s EXCEPT !.decision = <<>>]
        ELSE [next_run |-> now + 10, evicted_old |-> evicted_new, slab_zeroes |-> zeroes,
              slab_winner |-> highest_slab, slab_wins |-> wins,
              decision |-> IF source # 0 /\ dest # 0 THEN <<source, dest>> ELSE <<>>]

\* What slab_maintenance_thread hands to slabs_reassign after a call.
slab_maintenance_thread(automove, s) == IF automove THEN s.decision ELSE <<>>

----------------------------------------------------------------------------
(* stats.c.  A chain of entries per hash value, the newest first; hash     *)
(* maps prefixes to their values.  Keys are sequences of characters        *)
(* without NUL; ":" is the delimiter.                                      *)

NewEntry(prefix) ==
    [prefix |-> prefix, num_gets |-> 0, num_sets |-> 0, num_deletes |-> 0, num_hits |-> 0]
stats_prefix_clear(buckets) == [h \in buckets |-> <<>>]

HasPrefix(key) == ":" \in Range(key)
PrefixOf(key) == SubSeq(key, 1, Min({i \in DOMAIN key : key[i] = ":"}) - 1)

\* The first entry of the chain whose prefix begins with the key's, or else a
\* new one; calloc and malloc do not fail.
stats_prefix_find(table, hash, key) ==
    LET p == PrefixOf(key)
        h == hash[p]
        same == {i \in DOMAIN table[h] : IsPrefix(p, table[h][i].prefix)}
    IN  IF same # {} THEN [table |-> table, at |-> <<h, Min(same)>>]
        ELSE [table |-> [table EXCEPT ![h] = <<NewEntry(p)>> \o @], at |-> <<h, 1>>]

Bump(table, at, field) == [table EXCEPT ![at[1]][at[2]][field] = @ + 1]

stats_prefix_record_get(table, hash, key, is_hit) ==
    IF ~HasPrefix(key) THEN table
    ELSE LET f == stats_prefix_find(table, hash, key)
             got == Bump(f.table, f.at, "num_gets")
         IN  IF is_hit THEN Bump(got, f.at, "num_hits") ELSE got

stats_prefix_record_delete(table, hash, key) ==
    IF ~HasPrefix(key) THEN table
    ELSE LET f == stats_prefix_find(table, hash, key) IN Bump(f.table, f.at, "num_deletes")

stats_prefix_record_set(table, hash, key) ==
    IF ~HasPrefix(key) THEN table
    ELSE LET f == stats_prefix_find(table, hash, key) IN Bump(f.table, f.at, "num_sets")

\* Bytes that stats_prefix_dump allocates and that it writes, at most 6 of them
\* behind the lines, when every counter of the table has digits digits.
stats_prefix_dump(table, digits) ==
    LET format == 47                    \* strlen(format), with its %s and four %llu
        entries == FlattenSeq(SetToSeq(Range(table)))
        lengths == FoldLeft(LAMBDA n, e : n + Len(e.prefix), 0, entries)
    IN  [size |-> format + lengths + Len(entries) * (format - 2 + 4 * (20 - 4)) + 6,
         lines |-> lengths + Len(entries) * (format - 2 - 4 * 4 + 4 * digits)]
=============================================================================
