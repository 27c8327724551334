----------------------------- MODULE MapReduce ------------------------------
(***************************************************************************)
(* Metis' scheduler and key/value store: lib/mr-sched.c, presplitter.c,    *)
(* kvstore.c, btreebktmgr.c (and appendbktmgr.c for map-only jobs),        *)
(* rbktsmgr.c and apphelper.c.                                             *)
(*                                                                         *)
(* A process runs a sequence of jobs.  A job splits its input, may first   *)
(* map a sample of the splits to choose the number of reduce tasks, maps   *)
(* the rest, reduces each column of buckets and merges the reduce buckets. *)
(* Each phase is one mr_run_task call, a fork/join of all logical cpus     *)
(* (module ForkJoin, implemented by ThreadPool); inside a phase the cpus   *)
(* share only the claim counters ps.idx and *task_pos.  A mapper writes    *)
(* only its own row of buckets, so one map task is one step.               *)
(***************************************************************************)
EXTENDS Naturals, Sequences

CONSTANTS
  NCpus,          \* nr_cpus
  MaxSplits,      \* bound: splits of one job
  SplitCounts,    \* the numbers of splits a job may have
  Key,            \* the keys
  Emits,          \* what map_func emits for a split: a set of keys
  Hash,           \* part_func
  MaxCols,        \* bound: columns of buckets
  SampleCols,     \* def_sample_reduce_tasks
  SamplePercent,  \* sample_percent
  Estimates,      \* numbers of reduce tasks that sampling may propose
  Programs        \* the sequences of jobs a process may run

Lcpu  == 0 .. NCpus - 1
Split == 0 .. MaxSplits - 1
Col   == 0 .. MaxCols - 1
Pair  == Key \X Split
Rec   == [key : Key, vals : SUBSET Split]

(* A job: mapreduce and mapgroup jobs go through the same phases and give  *)
(* the number of reduce tasks, or 0 to have it sampled.                    *)
Job == [atype : {"maponly", "mapgr"}, tasks : 0 .. MaxCols]

ASSUME MRAssumption ==
  /\ NCpus \in Nat \ {0}
  /\ MaxSplits \in Nat /\ SplitCounts \subseteq 1 .. MaxSplits
  /\ Emits \in [Split -> SUBSET Key]
  /\ Hash \in [Key -> Nat]
  /\ MaxCols \in Nat \ {0}
  /\ SampleCols \in 1 .. MaxCols
  /\ SamplePercent \in 0 .. 100
  /\ Estimates \subseteq 1 .. MaxCols
  /\ Programs \subseteq Seq(Job)

VARIABLES
  program,      \* jobs the process has still to run
  job,          \* the_app: the running job, or the last one
  sched,        \* the phase mr_run_scheduler is at, "idle" between jobs
  inphase, wst, \* the fork/join of the current mr_run_task
  idx, nsplits, nsplits_bak,     \* mr_state.ps
  tasks,        \* the_app.mapgr.tasks
  has_backup, bsampling,         \* kvstore.c
  nfinished,    \* mstate[row].nsampled of estimation.c
  mapper, map_cols,              \* mapper.mbks, mapper.map_cols
  bak, bak_on, bakrow,           \* mapper_bak: buckets, mbks, mbks[row] set
  map_out,      \* what map-only mappers prepared for merging
  rbkts,        \* the reduce buckets
  task_pos,     \* *task_pos of the current mr_run_task
  wpc, wtask,   \* per cpu: place in the worker routine, claimed task
  results,      \* the application's result array
  nmapped       \* history: how often each split was mapped in this job

fj     == <<inphase, wst>>
ps     == <<idx, nsplits, nsplits_bak>>
store  == <<mapper, map_cols, map_out, rbkts>>
backup == <<has_backup, bak, bak_on, bakrow>>
est    == <<bsampling, nfinished>>
ctl    == <<program, job, sched, tasks, results>>
wrk    == <<wpc, wtask>>
vars   == <<ctl, fj, ps, store, backup, est, task_pos, wrk, nmapped>>

FJ == INSTANCE ForkJoin

WorkerPc == {"out", "claim", "map", "reduce", "finish", "merge"}
Sched == {"idle", "SAMPLE", "MAP", "REDUCE", "MERGE"}

NoRow   == [c \in Col |-> {}]
NoBkts  == [r \in Lcpu |-> NoRow]
NoRbkts == [c \in Col |-> {}]

TypeOK ==
  /\ program \in Seq(Job)
  /\ job \in Job
  /\ sched \in Sched
  /\ FJ!FJTypeOK
  /\ idx \in Nat
  /\ nsplits \in 0 .. MaxSplits /\ nsplits_bak \in 0 .. MaxSplits
  /\ tasks \in 0 .. MaxCols
  /\ has_backup \in BOOLEAN /\ bsampling \in BOOLEAN
  /\ nfinished \in [Lcpu -> Nat]
  /\ mapper \in [Lcpu -> [Col -> SUBSET Pair]]
  /\ map_cols \in 1 .. MaxCols
  /\ bak \in [Lcpu -> [Col -> SUBSET Pair]]
  /\ bak_on \in BOOLEAN /\ bakrow \in [Lcpu -> BOOLEAN]
  /\ map_out \in [Lcpu -> SUBSET Pair]
  /\ rbkts \in [Col -> SUBSET Rec]
  /\ task_pos \in Nat
  /\ wpc \in [Lcpu -> WorkerPc]
  /\ wtask \in [Lcpu -> Split \cup Col]
  /\ results \in SUBSET Rec
  /\ nmapped \in [Split -> Nat]

Init ==
  /\ program \in Programs
  /\ job = [atype |-> "mapgr", tasks |-> 0]
  /\ sched = "idle"
  /\ FJ!FJInit
  /\ idx = 0 /\ nsplits = 0 /\ nsplits_bak = 0
  /\ tasks = 0
  /\ has_backup = FALSE /\ bsampling = FALSE
  /\ nfinished = [r \in Lcpu |-> 0]
  /\ mapper = NoBkts /\ map_cols = 1
  /\ bak = NoBkts /\ bak_on = FALSE /\ bakrow = [r \in Lcpu |-> FALSE]
  /\ map_out = [r \in Lcpu |-> {}]
  /\ rbkts = NoRbkts
  /\ task_pos = 0
  /\ wpc = [l \in Lcpu |-> "out"] /\ wtask = [l \in Lcpu |-> 0]
  /\ results = {}
  /\ nmapped = [s \in Split |-> 0]

-----------------------------------------------------------------------------
(* The bucket manager                                                      *)

(* mbm_map_put and map_put_kvs choose the column by the key's hash.        *)
ColOf(k, cols) == Hash[k] % cols

(* A row after the given pairs were inserted.                              *)
PutAll(row, pairs, cols) ==
  [c \in Col |-> row[c] \cup {p \in pairs : ColOf(p[1], cols) = c}]

PairsOf(row) == UNION {row[c] : c \in Col}

(* mbm_mbks_init and rbkts_init                                            *)
KvstInit(cols) == /\ mapper' = NoBkts
                  /\ map_cols' = cols
                  /\ map_out' = [r \in Lcpu |-> {}]
                  /\ rbkts' = NoRbkts

-----------------------------------------------------------------------------
(* Starting a job: mr_setup                                                *)

Min(a, b) == IF a <= b THEN a ELSE b

(* How many splits mr_sample maps.                                         *)
NSampled(ntotal) ==
  LET pct == (SamplePercent * ntotal) \div 100
      n   == IF pct < NCpus THEN Min(NCpus, ntotal) ELSE pct
  IN  IF n = 0 THEN 1 ELSE n

(* What every job does first: app_set_arg and presplitter_init.            *)
NextJob == /\ sched = "idle" /\ program # <<>>
           /\ job' = Head(program)
           /\ program' = Tail(program)
           /\ idx' = 0
           /\ results' = {}
           /\ nmapped' = [s \in Split |-> 0]

(* Only the map phase: one column, no sampling.                            *)
StartMapOnly(n) ==
  /\ NextJob
  /\ Head(program).atype = "maponly"
  /\ nsplits' = n /\ nsplits_bak' = 0
  /\ tasks' = 0
  /\ KvstInit(1)
  /\ sched' = "MAP"
  /\ UNCHANGED <<fj, backup, est, task_pos, wrk>>

(* The number of reduce tasks is given.                                    *)
StartFixed(n) ==
  /\ NextJob
  /\ Head(program).atype = "mapgr" /\ Head(program).tasks # 0
  /\ nsplits' = n /\ nsplits_bak' = 0
  /\ tasks' = Head(program).tasks
  /\ KvstInit(Head(program).tasks)
  /\ sched' = "MAP"
  /\ UNCHANGED <<fj, backup, est, task_pos, wrk>>

(* A sampling that still sees the backup of the job before.                *)
StartSampledStale(n) ==
  /\ NextJob
  /\ Head(program).atype = "mapgr" /\ Head(program).tasks = 0
  /\ nsplits' = NSampled(n) /\ nsplits_bak' = n
  /\ tasks' = SampleCols
  /\ bsampling' = TRUE
  /\ nfinished' = [r \in Lcpu |-> 0]
  /\ mapper' = NoBkts /\ map_cols' = SampleCols
  /\ map_out' = [r \in Lcpu |-> {}]
  /\ sched' = "SAMPLE"
  /\ UNCHANGED <<fj, backup, rbkts, task_pos, wrk>>

(* mr_sample up to its mr_run_task: presplitter_prep_sample and            *)
(* kvst_sample_init.                                                       *)
StartSampled(n) ==
  /\ NextJob
  /\ Head(program).atype = "mapgr" /\ Head(program).tasks = 0
  /\ nsplits' = NSampled(n) /\ nsplits_bak' = n
  /\ tasks' = SampleCols
  /\ has_backup' = FALSE /\ bsampling' = TRUE
  /\ nfinished' = [r \in Lcpu |-> 0]
  /\ mapper' = NoBkts /\ map_cols' = SampleCols
  /\ map_out' = [r \in Lcpu |-> {}]
  /\ sched' = "SAMPLE"
  /\ UNCHANGED <<fj, bak, bak_on, bakrow, rbkts, task_pos, wrk>>

(* mr_run_task(type) is entered.                                           *)
RunTask ==
  /\ sched # "idle"
  /\ FJ!Fork(Lcpu)
  /\ task_pos' = 0
  /\ UNCHANGED <<ctl, ps, store, backup, est, wrk, nmapped>>

-----------------------------------------------------------------------------
(* mr_map_worker                                                           *)

Mapping == sched \in {"SAMPLE", "MAP"}

(* The assertions on the way of a mapper that finds a backup: not in a     *)
(* map-only job, its row is there, and no key of it is in the new buckets. *)
RehashAsserts(w) ==
  /\ job.atype # "maponly"
  /\ bak_on => bakrow[w]
  /\ \A p \in PairsOf(bak[w]) : \A q \in PairsOf(mapper[w]) : p[1] # q[1]

(* kvst_map_worker_init when there is no backup.                           *)
MapBegin(w) ==
  /\ Mapping /\ ~has_backup
  /\ FJ!Begin(w)
  /\ wpc' = [wpc EXCEPT ![w] = "claim"]
  /\ UNCHANGED <<ctl, ps, store, backup, est, task_pos, wtask, nmapped>>

(* A rehash that puts the sampled pairs into the columns they had.         *)
MapBeginNoRehash(w) ==
  /\ Mapping /\ has_backup
  /\ RehashAsserts(w)
  /\ FJ!Begin(w)
  /\ wpc' = [wpc EXCEPT ![w] = "claim"]
  /\ mapper' = [mapper EXCEPT ![w] = PutAll(@, PairsOf(bak[w]), SampleCols)]
  /\ bak' = [bak EXCEPT ![w] = NoRow]
  /\ bakrow' = [bakrow EXCEPT ![w] = FALSE]
  /\ UNCHANGED <<ctl, ps, map_cols, map_out, rbkts, has_backup, bak_on, est,
                 task_pos, wtask, nmapped>>

(* kvst_map_worker_init with a backup: mbm_rehash_bak moves the row's      *)
(* sampled pairs into the new columns and frees the row.                   *)
MapBeginRehash(w) ==
  /\ Mapping /\ has_backup
  /\ RehashAsserts(w)
  /\ FJ!Begin(w)
  /\ wpc' = [wpc EXCEPT ![w] = "claim"]
  /\ mapper' = [mapper EXCEPT ![w] = PutAll(@, PairsOf(bak[w]), map_cols)]
  /\ bak' = [bak EXCEPT ![w] = NoRow]
  /\ bakrow' = [bakrow EXCEPT ![w] = FALSE]
  /\ UNCHANGED <<ctl, ps, map_cols, map_out, rbkts, has_backup, bak_on, est,
                 task_pos, wtask, nmapped>>

(* presplitter: an atomic increment, and a comparison with the bound.      *)
ClaimSplit(w) ==
  /\ Mapping /\ wpc[w] = "claim"
  /\ idx' = idx + 1
  /\ \/ /\ idx >= nsplits
        /\ wpc' = [wpc EXCEPT ![w] = "finish"]
        /\ UNCHANGED wtask
     \/ /\ idx < nsplits
        /\ wpc' = [wpc EXCEPT ![w] = "map"]
        /\ wtask' = [wtask EXCEPT ![w] = idx]
  /\ UNCHANGED <<ctl, fj, nsplits, nsplits_bak, store, backup, est, task_pos,
                 nmapped>>

(* map_func on the claimed split, with every mr_map_emit it makes, and     *)
(* kvst_map_task_finished.                                                 *)
MapTask(w) ==
  /\ Mapping /\ wpc[w] = "map"
  /\ LET s == wtask[w]
     IN  /\ mapper' = [mapper EXCEPT
                         ![w] = PutAll(@, Emits[s] \X {s}, map_cols)]
         /\ nmapped' = [nmapped EXCEPT ![s] = @ + 1]
  /\ nfinished' = IF bsampling THEN [nfinished EXCEPT ![w] = @ + 1]
                               ELSE nfinished
  /\ wpc' = [wpc EXCEPT ![w] = "claim"]
  /\ UNCHANGED <<ctl, fj, ps, map_cols, map_out, rbkts, backup, bsampling,
                 task_pos, wtask>>

(* kvst_map_worker_finished: a map-only mapper hands its only bucket to    *)
(* map_out (mbm_map_prepare_merge); then the routine returns.              *)
MapEnd(w) ==
  /\ Mapping /\ wpc[w] = "finish"
  /\ FJ!End(w)
  /\ IF job.atype = "maponly"
     THEN /\ map_out' = [map_out EXCEPT ![w] = mapper[w][0]]
          /\ mapper' = [mapper EXCEPT ![w] = NoRow]
     ELSE UNCHANGED <<map_out, mapper>>
  /\ wpc' = [wpc EXCEPT ![w] = "out"]
  /\ UNCHANGED <<ctl, ps, map_cols, rbkts, backup, est, task_pos, wtask,
                 nmapped>>

-----------------------------------------------------------------------------
(* mr_reduce_worker                                                        *)

ReduceBegin(w) ==
  /\ sched = "REDUCE"
  /\ FJ!Begin(w)
  /\ wpc' = [wpc EXCEPT ![w] = "claim"]
  /\ UNCHANGED <<ctl, ps, store, backup, est, task_pos, wtask, nmapped>>

(* A plain increment, which the write of another cpu may undo.             *)
ClaimColumnRacy(w) ==
  /\ sched = "REDUCE" /\ wpc[w] = "claim"
  /\ task_pos' \in {task_pos, task_pos + 1}
  /\ \/ /\ task_pos >= tasks
        /\ wpc' = [wpc EXCEPT ![w] = "finish"]
        /\ UNCHANGED wtask
     \/ /\ task_pos < tasks
        /\ wpc' = [wpc EXCEPT ![w] = "reduce"]
        /\ wtask' = [wtask EXCEPT ![w] = task_pos]
  /\ UNCHANGED <<ctl, fj, ps, store, backup, est, nmapped>>

(* atomic_add32_ret on *task_pos                                           *)
ClaimColumn(w) ==
  /\ sched = "REDUCE" /\ wpc[w] = "claim"
  /\ task_pos' = task_pos + 1
  /\ \/ /\ task_pos >= tasks
        /\ wpc' = [wpc EXCEPT ![w] = "finish"]
        /\ UNCHANGED wtask
     \/ /\ task_pos < tasks
        /\ wpc' = [wpc EXCEPT ![w] = "reduce"]
        /\ wtask' = [wtask EXCEPT ![w] = task_pos]
  /\ UNCHANGED <<ctl, fj, ps, store, backup, est, nmapped>>

(* reduce_or_groupkvs: one record per key, with the values of all rows.    *)
GroupByKey(pairs) ==
  {[key |-> k, vals |-> {s \in Split : <<k, s>> \in pairs}] :
     k \in {p[1] : p \in pairs}}

ColumnPairs(c) == UNION {mapper[r][c] : r \in Lcpu}

(* kvst_reduce_do_task: reduce one column of buckets into its own reduce   *)
(* bucket and free the column.                                             *)
ReduceTask(w) ==
  /\ sched = "REDUCE" /\ wpc[w] = "reduce"
  /\ LET c == wtask[w]
     IN  /\ rbkts' = [rbkts EXCEPT ![c] = @ \cup GroupByKey(ColumnPairs(c))]
         /\ mapper' = [r \in Lcpu |-> [mapper[r] EXCEPT ![c] = {}]]
  /\ wpc' = [wpc EXCEPT ![w] = "claim"]
  /\ UNCHANGED <<ctl, fj, ps, map_cols, map_out, backup, est, task_pos, wtask,
                 nmapped>>

ReduceEnd(w) ==
  /\ sched = "REDUCE" /\ wpc[w] = "finish"
  /\ FJ!End(w)
  /\ wpc' = [wpc EXCEPT ![w] = "out"]
  /\ UNCHANGED <<ctl, ps, store, backup, est, task_pos, wtask, nmapped>>

-----------------------------------------------------------------------------
(* mr_merge_worker.  psrs gathers the pairs of all reduce buckets in the   *)
(* first one; its own steps are the subject of module Psrs.                *)

MergeBegin(w) ==
  /\ sched = "MERGE"
  /\ FJ!Begin(w)
  /\ wpc' = [wpc EXCEPT ![w] = "merge"]
  /\ UNCHANGED <<ctl, ps, store, backup, est, task_pos, wtask, nmapped>>

(* A merge that leaves out the last reduce bucket.                         *)
MergeEndShort(w) ==
  /\ sched = "MERGE" /\ wpc[w] = "merge"
  /\ FJ!End(w)
  /\ wpc' = [wpc EXCEPT ![w] = "out"]
  /\ rbkts' = IF w = 0
              THEN [c \in Col |->
                      IF c = 0 THEN UNION {rbkts[d] : d \in {e \in Col : e + 1 < tasks}}
                               ELSE {}]
              ELSE rbkts
  /\ UNCHANGED <<ctl, ps, mapper, map_cols, map_out, backup, est, task_pos,
                 wtask, nmapped>>

MergeEnd(w) ==
  /\ sched = "MERGE" /\ wpc[w] = "merge"
  /\ FJ!End(w)
  /\ wpc' = [wpc EXCEPT ![w] = "out"]
  /\ rbkts' = IF w = 0
              THEN [c \in Col |-> IF c = 0 THEN UNION {rbkts[d] : d \in Col}
                                           ELSE {}]
              ELSE rbkts
  /\ UNCHANGED <<ctl, ps, mapper, map_cols, map_out, backup, est, task_pos,
                 wtask, nmapped>>

-----------------------------------------------------------------------------
(* mr_run_task returns, and what the scheduler does next.                  *)

(* The rest of mr_sample and mr_setup: kvst_sample_finished sets the       *)
(* sampled buckets aside, presplitter_done_sample continues behind the     *)
(* sampled splits, kvst_init makes the buckets of the real map phase.      *)
SampleReturn ==
  /\ sched = "SAMPLE"
  /\ FJ!Join
  /\ bak' = mapper /\ bak_on' = TRUE /\ bakrow' = [r \in Lcpu |-> TRUE]
  /\ has_backup' = TRUE /\ bsampling' = FALSE
  /\ idx' = nsplits /\ nsplits' = nsplits_bak
  /\ \E t \in Estimates : tasks' = t /\ KvstInit(t)
  /\ sched' = "MAP"
  /\ UNCHANGED <<program, job, results, nsplits_bak, nfinished, task_pos, wrk,
                 nmapped>>

MapReturn ==
  /\ sched = "MAP"
  /\ FJ!Join
  /\ sched' = IF job.atype = "maponly" THEN "MERGE" ELSE "REDUCE"
  /\ UNCHANGED <<program, job, tasks, results, ps, store, backup, est,
                 task_pos, wrk, nmapped>>

ReduceReturn ==
  /\ sched = "REDUCE"
  /\ FJ!Join
  /\ sched' = "MERGE"
  /\ UNCHANGED <<program, job, tasks, results, ps, store, backup, est,
                 task_pos, wrk, nmapped>>

(* app_set_final_results, and mr_run_scheduler returns.                    *)
MergeReturn ==
  /\ sched = "MERGE"
  /\ FJ!Join
  /\ results' = rbkts[0]
  /\ sched' = "idle"
  /\ UNCHANGED <<program, job, tasks, ps, store, backup, est, task_pos, wrk,
                 nmapped>>

-----------------------------------------------------------------------------
WorkerStep(w) ==
  \/ MapBegin(w) \/ MapBeginRehash(w) \/ ClaimSplit(w) \/ MapTask(w)
  \/ MapEnd(w)
  \/ ReduceBegin(w) \/ ClaimColumn(w) \/ ReduceTask(w) \/ ReduceEnd(w)
  \/ MergeBegin(w) \/ MergeEnd(w)

MainStep == \/ RunTask
            \/ SampleReturn \/ MapReturn \/ ReduceReturn \/ MergeReturn

StartJob(n) == StartMapOnly(n) \/ StartFixed(n) \/ StartSampled(n)

(* The process ends when its program does.                                 *)
Exit == sched = "idle" /\ program = <<>> /\ UNCHANGED vars

Next == \/ \E n \in SplitCounts : StartJob(n)
        \/ MainStep
        \/ \E w \in Lcpu : WorkerStep(w)
        \/ Exit

Safety == Init /\ [][Next]_vars

(* Every thread keeps running; map and reduce functions return.            *)
Fairness == /\ WF_vars(MainStep)
            /\ \A w \in Lcpu : WF_vars(WorkerStep(w))

Spec == Safety /\ Fairness

-----------------------------------------------------------------------------
(* Properties                                                              *)

AllDone == inphase /\ \A l \in Lcpu : wst[l] = "done"

(* No split is mapped twice, neither by two workers nor once for the       *)
(* sample and once for the real map phase, and when the map phase is over  *)
(* every split of the job has been mapped.                                 *)
SplitsMappedOnce ==
  /\ \A s \in Split : nmapped[s] <= 1
  /\ \A s \in Split : sched \in {"REDUCE", "MERGE"} /\ s < nsplits =>
                         nmapped[s] = 1

(* Two cpus never work on the same split, or on the same column.           *)
ClaimsExclusive ==
  \A v, w \in Lcpu :
    v # w /\ wpc[v] \in {"map", "reduce"} /\ wpc[w] = wpc[v] =>
      wtask[v] # wtask[w]

(* Every pair that was emitted is in exactly one place, from the map task  *)
(* that emitted it, through the backup and the rehash, up to the record of *)
(* its key: nothing is lost or duplicated on the way.  The backup is part  *)
(* of the job once it has been made, the reduce buckets once kvst_init has *)
(* made new ones.                                                          *)
InRow(b, p) == {rc \in Lcpu \X Col : p \in b[rc[1]][rc[2]]}
InRec(p)    == {cx \in Col \X UNION {rbkts[d] : d \in Col} :
                  cx[2] \in rbkts[cx[1]] /\ cx[2].key = p[1] /\ p[2] \in cx[2].vals}
InOut(p)    == {r \in Lcpu : p \in map_out[r]}
IsOne(S)    == \E x \in S : S = {x}
PairsConserved ==
  sched # "idle" =>
    \A k \in Key : \A s \in Split :
      LET p == <<k, s>>
          places == <<InRow(mapper, p),
                      IF has_backup THEN InRow(bak, p) ELSE {},
                      IF sched = "SAMPLE" THEN {} ELSE InRec(p),
                      InOut(p)>>
          inside == {i \in 1 .. 4 : places[i] # {}}
      IN  IF nmapped[s] > 0 /\ k \in Emits[s]
          THEN IsOne(inside) /\ \A i \in inside : IsOne(places[i])
          ELSE inside = {}

(* A key's record is emitted once: all its values met in one column.       *)
KeysGrouped ==
  \A c, d \in Col : \A x \in rbkts[c] : \A y \in rbkts[d] :
    x.key = y.key => c = d /\ x = y

(* kvst_sample_finished divides by the number of rows that mapped a        *)
(* sampled split: there is always one.                                     *)
SampleDivisor ==
  sched = "SAMPLE" /\ AllDone => \E r \in Lcpu : nfinished[r] > 0

(* The assertions of kvst_map_worker_init, mbm_rehash_bak and              *)
(* pch_insert_kvs: a worker about to enter its map routine finds its       *)
(* backup row, and none of its keys in the new buckets.                    *)
RehashRowPresent ==
  \A w \in Lcpu :
    Mapping /\ has_backup /\ wst[w] = "todo" => RehashAsserts(w)

JobFinished(atype) == sched = "idle" /\ nsplits > 0 /\ job.atype = atype

InputPairs == {p \in Pair : p[2] < nsplits /\ p[1] \in Emits[p[2]]}

(* What a mapreduce or mapgroup job promises: when mr_run_scheduler        *)
(* returns, the results hold, for each key, the values of all the splits   *)
(* that emit it, and nothing else.                                         *)
ResultComplete ==
  JobFinished("mapgr") => results = GroupByKey(InputPairs)

(* What mr-types.h says of a map-only job's results: the mapped pairs.     *)
MapOnlyResult ==
  JobFinished("maponly") =>
    results = {[key |-> p[1], vals |-> {p[2]}] : p \in InputPairs}

(* Every split and every column is worked on by exactly one cpu, in the    *)
(* sample or in the map phase, whatever the order of the claims.           *)
ClaimsSound == TypeOK /\ SplitsMappedOnce /\ ClaimsExclusive

(* The store keeps every pair from its emission to the record of its key,  *)
(* across sampling, backup, rehash and reduce, and no assertion or         *)
(* division of these steps fails.                                          *)
StoreSound == PairsConserved /\ KeysGrouped /\ SampleDivisor /\ RehashRowPresent

(* Every job comes to its end.                                             *)
JobsReturn == (sched # "idle") ~> (sched = "idle")
=============================================================================
