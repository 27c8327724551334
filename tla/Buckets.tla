------------------------------- MODULE Buckets ------------------------------
(***************************************************************************)
(* The collections under Metis' key/value store for one job: the buckets   *)
(* of sorted arrays (arraybktmgr.c over keyvals_array.c) and of unsorted   *)
(* ones (appendbktmgr.c over keyval_array.c), the values of a key          *)
(* (value_helper.c), the estimate that a sample gives of the number of     *)
(* reduce tasks (estimation.c, kvstore.c), the reduce buckets (rbktsmgr.c) *)
(* and their merge, by psrs or by rounds of mergesort.c.  MapReduce has    *)
(* the phases and the claims; here a split is mapped in one step.          *)
(*                                                                         *)
(* A key is its own hash.  A value is a number and the application adds    *)
(* numbers up, so a key's values can be compared with what was emitted.    *)
(***************************************************************************)
EXTENDS SortAlgo, FiniteSetsExt

CONSTANTS
  NRows,             \* nr_cpus: rows of buckets
  Emissions,         \* what map_func may emit for a split: sequences of keys
  NTotal, NSampled,  \* splits of the input, and of the sample
  InitArraySize, CombinerThreshold, EstInterval, NKeysPerBkt,
  SampleTasks, TasksPerCpu,   \* def_sample_reduce_tasks, def_gr_tasks_per_cpu
  OldEstimates,      \* nkeys_per_mapper that an earlier job may have left
  Jobs               \* [app, mgr, merge, tasks]; 0 tasks: to be sampled

Row == 0 .. NRows - 1
Keys == UNION {Range(s) : s \in Emissions}
Emitted(row) == 10 ^ row     \* the value that a row's map emits

VARIABLES
  job,              \* the_app and the options of the build
  phase,            \* where mr_run_scheduler is
  mapper, mapper_bak, map_out,
  mstate,           \* estimation.c
  nkeys_per_mapper, \* kvstore.c
  rbkts,            \* the reduce buckets, [0 .. nbkts - 1 -> collection]
  rehashed,         \* rows whose worker has entered the map phase
  todo,             \* tasks of the phase that no cpu has done
  merge_nsplits, merge_ncpus,
  nmapped,          \* history: splits mapped
  emitted           \* history: sum of the values emitted per key

kvst  == <<mapper, mapper_bak, map_out, mstate, nkeys_per_mapper>>
merge == <<merge_nsplits, merge_ncpus>>
bvars == <<job, phase, kvst, rbkts, rehashed, todo, merge, nmapped, emitted>>

-----------------------------------------------------------------------------
(* Collections.  arr holds the len elements; live says that arr is not     *)
(* NULL and wild that some write missed the allocated memory.              *)

pch_init == [live |-> FALSE, alloc |-> 0, arr |-> <<>>, wild |-> FALSE]

\* Mutant: the array grows one element too late.
checkfull_late(c) ==
  IF c.alloc = 0 THEN [c EXCEPT !.alloc = InitArraySize, !.live = TRUE]
  ELSE IF Len(c.arr) > c.alloc THEN [c EXCEPT !.alloc = 2 * @, !.live = TRUE]
  ELSE c

checkfull(c) ==
  IF c.alloc = 0 THEN [c EXCEPT !.alloc = InitArraySize, !.live = TRUE]
  ELSE IF Len(c.arr) = c.alloc THEN [c EXCEPT !.alloc = 2 * @, !.live = TRUE]
  ELSE c

Written(c, arr) == [c EXCEPT !.arr = arr, !.wild = @ \/ ~c.live \/ Len(arr) > c.alloc]

(* The memory is released, the allocated length stays as it was.           *)
pch_shallow_free(c) == IF c.live THEN [c EXCEPT !.live = FALSE, !.arr = <<>>] ELSE c

pch_set_elems(c, elems) ==
  [c EXCEPT !.arr = elems, !.alloc = Len(elems), !.live = TRUE]

Appended(c, x) == Written(checkfull(c), Append(c.arr, x))
InsertedAt(c, pos, x) == Written(checkfull(c), InsertAt(c.arr, pos + 1, x))
KeySeq(arr) == [i \in DOMAIN arr |-> arr[i].key]

-----------------------------------------------------------------------------
(* value_helper.c: the values of a key                                     *)

Sum(vals) == FoldLeft(LAMBDA a, v : a + v, 0, vals)
NoValues(key) == [key |-> key, vals |-> <<>>, valloc |-> 0]

values_insert(kvs, val) ==
  IF job.app = "vm" THEN [kvs EXCEPT !.vals = <<Sum(kvs.vals) + val>>]
  ELSE LET vals == Append(kvs.vals, val)
       IN  [kvs EXCEPT
              !.valloc = IF @ = 0 THEN CombinerThreshold
                         ELSE IF @ = Len(kvs.vals) THEN 2 * @ ELSE @,
              !.vals = IF job.app = "combiner" /\ Len(vals) >= CombinerThreshold
                       THEN <<Sum(vals)>> ELSE vals]

(* keyvals_array.c: a record per key, in the order of the keys             *)
kvsarr_insert_kv(c, key, val) ==
  LET at == bsearch_eq(key, KeySeq(c.arr))
  IN  IF at.found THEN [c EXCEPT !.arr[at.pos + 1] = values_insert(@, val)]
      ELSE InsertedAt(c, at.pos, values_insert(NoValues(key), val))

kvsarr_insert_kvs(c, kvs) ==
  InsertedAt(c, bsearch_eq(kvs.key, KeySeq(c.arr)).pos, kvs)

(* keyval_array.c: a record per pair, in the order of arrival              *)
kvarr_insert_kv(c, key, val) == Appended(c, [key |-> key, val |-> val])

-----------------------------------------------------------------------------
(* estimation.c: per row, rates of new keys per interval and of pairs per  *)
(* split, each halved with the newest one                                  *)

est_init == [cur_nkeys |-> 0, cur_npairs |-> 0, last_nkeys |-> 0, last_npairs |-> 0,
             key_rate |-> 0, pair_rate |-> 0, nsampled |-> 0]

Rate(last, rate, cur) == IF last = 0 THEN cur ELSE (rate \div 2) + ((cur - last) \div 2)

est_interval_passed(e) ==
  [e EXCEPT !.key_rate = Rate(e.last_nkeys, @, e.cur_nkeys), !.last_nkeys = e.cur_nkeys]

est_newpair(e, newkey) ==
  LET n == [e EXCEPT !.cur_nkeys = @ + newkey, !.cur_npairs = @ + 1]
  IN  IF n.cur_npairs % EstInterval = 0 THEN est_interval_passed(n) ELSE n

est_task_finished(e) ==
  [e EXCEPT !.pair_rate = Rate(e.last_npairs, @, e.cur_npairs),
            !.last_npairs = e.cur_npairs, !.nsampled = @ + 1]

est_estimate(e, ntotal) ==
  ((e.key_rate * e.pair_rate * (ntotal - e.nsampled)) \div EstInterval) + e.cur_nkeys

(* The next number that no q below its square root divides.                *)
NextPrime(n) == Min({m \in n .. 2 * n + 2 :
                       \A q \in 2 .. m : q * q < m => m % q # 0})

-----------------------------------------------------------------------------
(* The bucket managers: mbks[row, col]                                     *)

NoMapper == [cols |-> 0, mbks |-> <<>>]
mbm_mbks_init(cols) ==
  [cols |-> cols, mbks |-> [b \in Row \X (0 .. cols - 1) |-> pch_init]]

ColumnOf(m, key) == key % m.cols

(* One mbm_map_put, with the estimate of its row.                          *)
mbm_map_put(s, row, key, val) ==
  LET b == <<row, ColumnOf(s.mapper, key)>>
      c == s.mapper.mbks[b]
      new == IF job.mgr = "append" \/ ~bsearch_eq(key, KeySeq(c.arr)).found THEN 1 ELSE 0
      put == IF job.mgr = "append" THEN kvarr_insert_kv(c, key, val)
                                   ELSE kvsarr_insert_kv(c, key, val)
  IN  [mapper |-> [s.mapper EXCEPT !.mbks[b] = put],
       mstate |-> [s.mstate EXCEPT ![row] = est_newpair(@, new)]]

Store == [mapper |-> mapper, mstate |-> mstate]

(* mbm_rehash_bak: the records of a row, column by column.                 *)
RowRecords(m, row) == FlattenSeq([c \in 1 .. m.cols |-> m.mbks[<<row, c - 1>>].arr])

mbm_rehash_bak(row) ==
  LET insert(s, x) ==
        IF job.mgr = "append" THEN mbm_map_put(s, row, x.key, x.val)
        ELSE [s EXCEPT !.mapper.mbks[<<row, ColumnOf(s.mapper, x.key)>>] =
                kvsarr_insert_kvs(@, x)]
  IN  FoldLeft(insert, Store, RowRecords(mapper_bak, row))

(* reduce_or_groupkv: all pairs of the column sorted, the values of equal  *)
(* keys inserted into one record.                                          *)
reduce_or_groupkv(nodes) ==
  LET all == SortSeq(FlattenSeq(nodes), LAMBDA a, b : a.key < b.key)
      add(out, x) ==
        IF out # <<>> /\ Last(out).key = x.key
        THEN Front(out) \o <<values_insert(Last(out), x.val)>>
        ELSE Append(out, values_insert(NoValues(x.key), x.val))
  IN  FoldLeft(add, <<>>, all)

Grouped(nodes) ==
  IF job.mgr = "append" THEN reduce_or_groupkv(nodes) ELSE reduce_or_groupkvs(nodes)

(* rbkts_emit_kv for mapreduce, where reduce_func or vm made one value;    *)
(* rbkts_emit_kvs_len for mapgroup.                                        *)
Emit(rbkt, groups) ==
  FoldLeft(LAMBDA c, g : Appended(c, [key |-> g.key,
                           vals |-> IF job.app = "group" THEN g.vals ELSE <<Sum(g.vals)>>]),
           rbkt, groups)

-----------------------------------------------------------------------------
(* The job                                                                 *)

BInit ==
  /\ job \in Jobs /\ phase = "setup"
  /\ mapper = NoMapper /\ mapper_bak = NoMapper /\ map_out = <<>>
  /\ mstate = [r \in Row |-> est_init] /\ nkeys_per_mapper \in OldEstimates
  /\ rbkts = <<>> /\ rehashed = {} /\ todo = {}
  /\ merge_nsplits = 0 /\ merge_ncpus = 0
  /\ nmapped = 0 /\ emitted = [k \in Keys |-> 0]

(* kvst_init: cols columns of buckets and nbkts reduce buckets.            *)
kvst_init(cols, nbkts) ==
  /\ mapper' = mbm_mbks_init(cols)
  /\ rbkts' = [b \in 0 .. nbkts - 1 |-> pch_init]
  /\ merge_nsplits' = nbkts
  /\ phase' = "map"

(* mr_setup: with the reduce phase skipped there is one column and a       *)
(* reduce bucket per cpu.                                                  *)
Setup ==
  /\ phase = "setup"
  /\ job.merge = "first" \/ job.tasks > 0
  /\ IF job.merge = "first" THEN kvst_init(1, NRows) ELSE kvst_init(job.tasks, job.tasks)
  /\ UNCHANGED <<job, mapper_bak, map_out, mstate, nkeys_per_mapper, rehashed, todo,
                 merge_ncpus, nmapped, emitted>>

kvst_sample_init ==
  /\ phase = "setup" /\ job.merge # "first" /\ job.tasks = 0
  /\ mapper' = mbm_mbks_init(SampleTasks)
  /\ phase' = "sample"
  /\ UNCHANGED <<job, mapper_bak, map_out, mstate, nkeys_per_mapper, rbkts, rehashed, todo,
                 merge, nmapped, emitted>>

(* A worker maps a split; while sampling it is counted as finished.        *)
MapTask(row, keys) ==
  /\ \/ phase = "sample" /\ nmapped < NSampled
     \/ phase = "map" /\ nmapped < NTotal /\ (mapper_bak # NoMapper => row \in rehashed)
  /\ LET s == FoldLeft(LAMBDA a, k : mbm_map_put(a, row, k, Emitted(row)), Store, keys)
     IN  /\ mapper' = s.mapper
         /\ mstate' = IF phase = "sample"
                      THEN [s.mstate EXCEPT ![row] = est_task_finished(@)] ELSE s.mstate
  /\ nmapped' = nmapped + 1
  /\ emitted' = [k \in Keys |->
                   emitted[k] + Emitted(row) * Cardinality({i \in DOMAIN keys : keys[i] = k})]
  /\ UNCHANGED <<job, phase, mapper_bak, map_out, nkeys_per_mapper, rbkts, rehashed, todo, merge>>

(* kvst_sample_finished and the rest of mr_setup.                          *)
kvst_sample_finished ==
  /\ phase = "sample" /\ nmapped = NSampled
  /\ LET valid == {r \in Row : mstate[r].nsampled > 0}
         sum == nkeys_per_mapper +
                FoldSet(LAMBDA r, a : a + est_estimate(mstate[r], NTotal), 0, valid)
         n == sum \div Cardinality(valid)
         tasks == Max({NextPrime(n \div NKeysPerBkt), NRows * TasksPerCpu})
     IN  nkeys_per_mapper' = n /\ kvst_init(tasks, tasks)
  /\ mapper_bak' = mapper
  /\ UNCHANGED <<job, map_out, mstate, rehashed, todo, merge_ncpus, nmapped, emitted>>

(* kvst_map_worker_init                                                    *)
kvst_map_worker_init(row) ==
  /\ phase = "map" /\ mapper_bak # NoMapper /\ row \notin rehashed
  /\ LET s == mbm_rehash_bak(row) IN mapper' = s.mapper /\ mstate' = s.mstate
  /\ mapper_bak' = [mapper_bak EXCEPT !.mbks = [b \in DOMAIN @ |->
                      IF b[1] = row THEN pch_shallow_free(@[b]) ELSE @[b]]]
  /\ rehashed' = rehashed \cup {row}
  /\ UNCHANGED <<job, phase, map_out, nkeys_per_mapper, rbkts, todo, merge, nmapped, emitted>>

(* All workers have left the map phase.  mbm_map_prepare_merge hands each  *)
(* row's only bucket over and clears it.                                   *)
MapPhaseEnds ==
  /\ phase = "map" /\ nmapped = NTotal
  /\ mapper_bak # NoMapper => rehashed = Row
  /\ IF job.merge = "first"
     THEN /\ map_out' = [r \in Row |-> mapper.mbks[<<r, 0>>]]
          /\ mapper' = mbm_mbks_init(1)
          /\ phase' = "merge" /\ todo' = {}
     ELSE /\ phase' = "reduce" /\ todo' = 0 .. mapper.cols - 1
          /\ UNCHANGED <<mapper, map_out>>
  /\ UNCHANGED <<job, mapper_bak, mstate, nkeys_per_mapper, rbkts, rehashed, merge, nmapped, emitted>>

(* The columns are claimed in order; a task touches only its own.          *)
mbm_do_reduce_task(col) ==
  /\ phase = "reduce" /\ col = Min(todo)
  /\ LET groups == Grouped([r \in 1 .. NRows |-> mapper.mbks[<<r - 1, col>>].arr])
     IN  rbkts' = [rbkts EXCEPT ![col] = Emit(@, groups)]
  /\ mapper' = [mapper EXCEPT !.mbks = [b \in DOMAIN @ |->
                  IF b[2] = col THEN pch_shallow_free(@[b]) ELSE @[b]]]
  /\ todo' = todo \ {col}
  /\ UNCHANGED <<job, phase, mapper_bak, map_out, mstate, nkeys_per_mapper, rehashed, merge,
                 nmapped, emitted>>

(* mr_run_scheduler goes on to merge, with mergesort in rounds.            *)
ReducePhaseEnds ==
  /\ phase = "reduce" /\ todo = {}
  /\ phase' = "merge"
  /\ LET ncpus == Min2(merge_nsplits \div 2, NRows)
     IN  /\ merge_ncpus' = ncpus
         /\ todo' = IF job.merge = "rounds" /\ merge_nsplits > 1 THEN 0 .. ncpus - 1 ELSE {}
  /\ UNCHANGED <<job, kvst, rbkts, rehashed, merge_nsplits, nmapped, emitted>>

Less(a, b) == a.key < b.key
AllPairs == FlattenSeq([b \in 1 .. Cardinality(DOMAIN rbkts) |-> rbkts[b - 1].arr])

(* rbkts_merge with psrs: everything sorted in the first reduce bucket     *)
(* (module Psrs).                                                          *)
rbkts_merge_psrs ==
  /\ phase = "merge" /\ job.merge = "psrs"
  /\ rbkts' = [b \in DOMAIN rbkts |->
                 IF b = 0 THEN pch_set_elems(pch_shallow_free(rbkts[0]), SortSeq(AllPairs, Less))
                 ELSE pch_shallow_free(rbkts[b])]
  /\ phase' = "done"
  /\ UNCHANGED <<job, kvst, rehashed, todo, merge, nmapped, emitted>>

(* mergesort: the collections of a cpu.                                    *)
MyColls(ncolls, ncpus, lcpu) ==
  LET mycolls == (ncolls \div ncpus) + (IF lcpu < ncolls % ncpus THEN 1 ELSE 0)
  IN  [i \in 1 .. mycolls |-> lcpu + (i - 1) * ncpus]

(* mergesort by one cpu, the first of equal elements first.                *)
rbkts_merge_round(lcpu) ==
  /\ phase = "merge" /\ lcpu \in todo
  /\ LET mine == MyColls(Cardinality(DOMAIN rbkts), merge_ncpus, lcpu)
         arrs == [i \in DOMAIN mine |-> rbkts[mine[i]].arr]
         len == [i \in DOMAIN arrs |-> Len(arrs[i])]
         npairs == Sum(len)
         keys == mergesort([i \in DOMAIN arrs |-> KeySeq(arrs[i])],
                           [i \in DOMAIN arrs |-> 0], len, npairs)
         all == FlattenSeq(arrs)
         out == [i \in DOMAIN keys |-> SelectSeq(all, LAMBDA x : x.key = keys[i])[1]]
     IN  rbkts' = IF npairs = 0 THEN rbkts
                  ELSE [b \in DOMAIN rbkts |->
                          IF b = lcpu THEN pch_set_elems(pch_shallow_free(rbkts[b]), out)
                          ELSE IF b \in Range(mine) THEN pch_shallow_free(rbkts[b]) ELSE rbkts[b]]
  /\ todo' = todo \ {lcpu}
  /\ UNCHANGED <<job, phase, kvst, rehashed, merge, nmapped, emitted>>

(* The loop of mr_run_scheduler: half as many cpus merge what this round   *)
(* has left, until one collection is left.                                 *)
MergeRoundEnds ==
  /\ phase = "merge" /\ job.merge = "rounds" /\ todo = {}
  /\ IF merge_nsplits > 1
     THEN /\ merge_nsplits' = merge_ncpus
          /\ merge_ncpus' = merge_ncpus \div 2
          /\ todo' = IF merge_ncpus > 1 THEN 0 .. (merge_ncpus \div 2) - 1 ELSE {}
          /\ UNCHANGED phase
     ELSE phase' = "done" /\ UNCHANGED <<merge, todo>>
  /\ UNCHANGED <<job, kvst, rbkts, rehashed, nmapped, emitted>>

(* rbkts_merge_reduce: psrs sorts the pairs of all rows and leaves a range *)
(* of keys to each cpu, which groups them into its reduce bucket; then cpu *)
(* 0 concatenates the buckets.                                             *)
rbkts_cat(bkts) ==
  IF Cardinality(DOMAIN bkts) = 1 THEN bkts
  ELSE LET all == FlattenSeq([b \in 1 .. Cardinality(DOMAIN bkts) |-> bkts[b - 1].arr])
           freed == [b \in DOMAIN bkts |-> pch_shallow_free(bkts[b])]
       IN  [freed EXCEPT ![0] = pch_set_elems(@, all)]

rbkts_merge_reduce(share) ==
  /\ phase = "merge" /\ job.merge = "first"
  /\ \A k, l \in Keys : k < l => share[k] <= share[l]
  /\ LET mine(cpu, r) == SelectSeq(map_out[r].arr, LAMBDA x : share[x.key] = cpu)
         groups(cpu) == reduce_or_groupkv([r \in 1 .. NRows |-> mine(cpu, r - 1)])
     IN  rbkts' = rbkts_cat([b \in DOMAIN rbkts |-> Emit(rbkts[b], groups(b))])
  /\ map_out' = [r \in Row |-> pch_shallow_free(map_out[r])]
  /\ phase' = "done"
  /\ UNCHANGED <<job, mapper, mapper_bak, mstate, nkeys_per_mapper, rehashed, todo, merge,
                 nmapped, emitted>>

BNext ==
  \/ Setup \/ kvst_sample_init \/ kvst_sample_finished
  \/ \E row \in Row, keys \in Emissions : MapTask(row, keys)
  \/ \E row \in Row : kvst_map_worker_init(row)
  \/ MapPhaseEnds
  \/ \E col \in todo : mbm_do_reduce_task(col)
  \/ ReducePhaseEnds
  \/ rbkts_merge_psrs
  \/ \E lcpu \in todo : rbkts_merge_round(lcpu)
  \/ MergeRoundEnds
  \/ \E share \in [Keys -> Row] : rbkts_merge_reduce(share)

-----------------------------------------------------------------------------
(* Properties                                                              *)

Values(x) == IF "vals" \in DOMAIN x THEN Sum(x.vals) ELSE x.val
Total(arr, k) == FoldLeft(LAMBDA a, x : IF x.key = k THEN a + Values(x) ELSE a, 0, arr)
TotalOf(colls, k) == FoldSet(LAMBDA b, a : a + Total(colls[b].arr, k), 0, DOMAIN colls)

(* No write of the collections misses the allocated memory: nothing is put *)
(* into a collection that was freed and still claims its old length.       *)
SafelyHeld(colls) ==
  \A b \in DOMAIN colls :
    LET c == colls[b]
    IN  /\ ~c.wild /\ Len(c.arr) <= c.alloc /\ (c.arr # <<>> => c.live)
        /\ \A i \in DOMAIN c.arr : "valloc" \in DOMAIN c.arr[i] /\ job.app # "vm"
                                   => Len(c.arr[i].vals) <= c.arr[i].valloc

InMemory == /\ SafelyHeld(mapper.mbks) /\ SafelyHeld(mapper_bak.mbks)
            /\ SafelyHeld(map_out) /\ SafelyHeld(rbkts)

(* A key is in the bucket of its hash, and once in a bucket of sorted      *)
(* arrays; a row that has not been rehashed shares no key with its backup  *)
(* (the assertion of pch_insert_kvs).                                      *)
BucketsSorted ==
  /\ \A b \in DOMAIN mapper.mbks : LET s == KeySeq(mapper.mbks[b].arr) IN
       /\ \A i \in DOMAIN s : ColumnOf(mapper, s[i]) = b[2]
       /\ job.mgr = "array" => \A i \in 1 .. Len(s) - 1 : s[i] < s[i + 1]
  /\ job.mgr = "array" /\ phase = "map" => \A row \in Row \ rehashed :
       LET old == RowRecords(mapper_bak, row)
           new == RowRecords(mapper, row)
       IN  \A i \in DOMAIN old, j \in DOMAIN new : old[i].key # new[j].key

(* Whatever the estimate, the number of columns and the way to merge, no   *)
(* value is lost or doubled on its way to the result, and the result has   *)
(* each key once, in ascending order.                                      *)
ValuesKept ==
  /\ \A k \in Keys :
       TotalOf(mapper.mbks, k) + TotalOf(mapper_bak.mbks, k) + TotalOf(map_out, k)
         + TotalOf(rbkts, k) = emitted[k]
  /\ phase = "done" =>
       LET s == KeySeq(rbkts[0].arr)
       IN  /\ \A i \in 1 .. Len(s) - 1 : s[i] < s[i + 1]
           /\ \A k \in Keys : Total(rbkts[0].arr, k) = emitted[k]
=============================================================================
