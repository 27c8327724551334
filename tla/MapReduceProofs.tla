-------------------------- MODULE MapReduceProofs --------------------------
(***************************************************************************)
(* Proofs about Metis' scheduler and key/value store, for every number of  *)
(* cpus, splits and columns, every set of keys and emissions, and every    *)
(* sequence of jobs: splits and columns are claimed once, no pair is lost  *)
(* or duplicated, and the results of a job are complete.                   *)
(***************************************************************************)
EXTENDS MapReduce, TLAPS

(***************************************************************************)
(* The inductive invariant                                                 *)
(***************************************************************************)

(* Where a cpu can be in a phase, and that it is running exactly then.     *)
PcOf(phase) ==
  CASE phase \in {"SAMPLE", "MAP"} -> {"claim", "map", "finish"}
    [] phase = "REDUCE" -> {"claim", "reduce", "finish"}
    [] phase = "MERGE" -> {"merge"}
    [] OTHER -> {}

PhaseInv ==
  /\ inphase => sched # "idle"
  /\ \A w \in Lcpu :
       /\ inphase <=> wst[w] # "none"
       /\ wst[w] = "running" <=> wpc[w] # "out"
       /\ wpc[w] # "out" => wpc[w] \in PcOf(sched)

(* Of the job: how many columns there are, which jobs are sampled.         *)
JobInv ==
  /\ sched \in {"SAMPLE", "MAP", "REDUCE"} /\ job.atype = "mapgr" =>
       tasks = map_cols
  /\ sched = "SAMPLE" =>
       /\ job = [atype |-> "mapgr", tasks |-> 0]
       /\ map_cols = SampleCols /\ bsampling /\ ~has_backup
       /\ 1 <= nsplits /\ nsplits <= nsplits_bak
  /\ sched = "MAP" /\ job.atype = "maponly" => map_cols = 1
  /\ sched = "REDUCE" => job.atype = "mapgr"

Held(s) == \E w \in Lcpu : wpc[w] = "map" /\ wtask[w] = s

(* Splits are handed out in order, and each is mapped by whoever got it.   *)
SplitInv ==
  /\ \A s \in Split :
       nmapped[s] = IF s < idx /\ s < nsplits /\ ~Held(s) THEN 1 ELSE 0
  /\ \A w \in Lcpu :
       /\ wpc[w] = "map" => wtask[w] < idx /\ wtask[w] < nsplits
       /\ Mapping /\ (wpc[w] = "finish" \/ wst[w] = "done") => idx >= nsplits
  /\ ~Mapping => idx >= nsplits
  /\ \A v, w \in Lcpu :
       v # w /\ wpc[v] = "map" /\ wpc[w] = "map" => wtask[v] # wtask[w]

(* The same for columns.                                                   *)
ColumnInv ==
  /\ \A w \in Lcpu :
       /\ wpc[w] = "reduce" => wtask[w] < task_pos /\ wtask[w] < tasks
       /\ sched = "REDUCE" /\ (wpc[w] = "finish" \/ wst[w] = "done") =>
            task_pos >= tasks
  /\ \A v, w \in Lcpu :
       v # w /\ wpc[v] = "reduce" /\ wpc[w] = "reduce" => wtask[v] # wtask[w]

(* Pairs that map tasks have emitted in this job, all and of a column.     *)
Emitted == {p \in Pair : nmapped[p[2]] = 1 /\ p[1] \in Emits[p[2]]}
EmittedTo(c) == {p \in Emitted : ColOf(p[1], map_cols) = c}

(* A row of buckets is empty until its cpu has begun to map; then it has   *)
(* taken over the row's backup.  A map-only row moves to map_out at the    *)
(* end of the map phase.                                                   *)
RowInv ==
  \A w \in Lcpu :
    /\ Mapping /\ wst[w] \in {"none", "todo"} => mapper[w] = NoRow
    /\ Mapping /\ wst[w] # "done" => map_out[w] = {}
    /\ bak[w] # NoRow => sched = "MAP" /\ has_backup /\ wst[w] \in {"none", "todo"}
    /\ sched # "idle" /\ map_out[w] # {} => job.atype = "maponly" /\ mapper[w] = NoRow
    /\ sched = "MAP" /\ job.atype = "maponly" /\ mapper[w] # NoRow => wst[w] = "running"
    /\ sched = "MERGE" => mapper[w] = NoRow

(* Pairs are in the columns of their keys.                                 *)
PlaceInv ==
  \A w \in Lcpu : \A c \in Col :
    /\ \A p \in mapper[w][c] : ColOf(p[1], map_cols) = c
    /\ \A p \in bak[w][c] : ColOf(p[1], SampleCols) = c

RowPairs(w) == PairsOf(mapper[w]) \cup PairsOf(bak[w]) \cup map_out[w]

(* No pair is in two rows.                                                 *)
DisjointInv ==
  \A v, w \in Lcpu : v # w => RowPairs(v) \cap RowPairs(w) = {}

Reduced(c) ==
  /\ c < tasks => c < task_pos
  /\ \A w \in Lcpu : wpc[w] = "reduce" => wtask[w] # c

(* What has been emitted is in the rows and, a column at a time, moves to  *)
(* the reduce buckets; the merge collects them in the first one.           *)
StoreInv ==
  /\ Mapping \/ (sched = "MERGE" /\ job.atype = "maponly") =>
       Emitted = UNION {RowPairs(w) : w \in Lcpu}
  /\ sched = "MAP" \/ (sched = "MERGE" /\ job.atype = "maponly") => rbkts = NoRbkts
  /\ sched = "REDUCE" =>
       \A c \in Col :
         IF inphase /\ Reduced(c)
         THEN rbkts[c] = GroupByKey(EmittedTo(c)) /\ ColumnPairs(c) = {}
         ELSE rbkts[c] = {} /\ ColumnPairs(c) = EmittedTo(c)
  /\ sched = "MERGE" /\ job.atype = "mapgr" =>
       IF wst[0] = "done"
       THEN rbkts = [c \in Col |-> IF c = 0 THEN GroupByKey(Emitted) ELSE {}]
       ELSE \A c \in Col : rbkts[c] = GroupByKey(EmittedTo(c))
  /\ sched = "idle" /\ nsplits > 0 /\ job.atype = "mapgr" => results = GroupByKey(Emitted)

SampleInv ==
  sched = "SAMPLE" /\ (\E s \in Split : nmapped[s] > 0) =>
    \E r \in Lcpu : nfinished[r] > 0

(* Between jobs and while sampling, the reduce buckets are still those of  *)
(* the job before.                                                         *)
StaleInv == sched \in {"idle", "SAMPLE"} => KeysGrouped

IInv ==
  /\ TypeOK /\ PhaseInv /\ JobInv
  /\ SplitInv /\ ColumnInv
  /\ RowInv /\ PlaceInv /\ DisjointInv /\ StoreInv
  /\ SampleInv /\ StaleInv

(***************************************************************************)
(* Lemmas about the operators of the model                                 *)
(***************************************************************************)

(* part_func sends a key to one of the columns.                            *)
LEMMA ColOfType ==
  ASSUME NEW k \in Key, NEW cols \in 1 .. MaxCols
  PROVE  ColOf(k, cols) \in 0 .. cols - 1 /\ ColOf(k, cols) \in Col
<1>1. Hash[k] \in Nat /\ MaxCols \in Nat
  BY MRAssumption
<1> QED BY <1>1 DEF ColOf, Col

(* mr_sample maps at least one split and no more than there are.           *)
LEMMA NSampledType ==
  ASSUME NEW n \in SplitCounts
  PROVE  NSampled(n) \in 1 .. n /\ n \in 1 .. MaxSplits
<1>1. n \in 1 .. MaxSplits /\ MaxSplits \in Nat /\ NCpus \in Nat \ {0} /\ SamplePercent \in 0 .. 100
  BY MRAssumption
<1> DEFINE pct == (SamplePercent * n) \div 100
<1>2. SamplePercent * n \in Nat /\ SamplePercent * n <= 100 * n
  BY <1>1
<1>3. pct \in 0 .. n
  <2> HIDE DEF pct
  <2>1. \A x \in Nat : x <= 100 * n => x \div 100 \in 0 .. n
    BY <1>1
  <2> QED BY <1>2, <2>1 DEF pct
<1> HIDE DEF pct
<1>4. NSampled(n) = LET m == IF pct < NCpus THEN Min(NCpus, n) ELSE pct
                    IN  IF m = 0 THEN 1 ELSE m
  BY DEF NSampled, pct
<1> QED BY <1>1, <1>3, <1>4 DEF Min

(* An insertion adds the pairs to the row, each in the column of its key.  *)
LEMMA PutAllPairs ==
  ASSUME NEW row \in [Col -> SUBSET Pair], NEW pairs \in SUBSET Pair,
         NEW cols \in 1 .. MaxCols
  PROVE  /\ PutAll(row, pairs, cols) \in [Col -> SUBSET Pair]
         /\ PairsOf(PutAll(row, pairs, cols)) = PairsOf(row) \cup pairs
<1>1. \A p \in pairs : ColOf(p[1], cols) \in Col
  BY ColOfType DEF Pair
<1> QED BY <1>1 DEF PutAll, PairsOf

(* A row without pairs is the empty row.                                   *)
LEMMA NoRowPairs ==
  /\ NoRow \in [Col -> SUBSET Pair]
  /\ PairsOf(NoRow) = {}
  /\ \A row \in [Col -> SUBSET Pair] : PairsOf(row) = {} => row = NoRow
  BY DEF NoRow, PairsOf

(* A record per key; records of pairs are records.                         *)
LEMMA GroupType ==
  ASSUME NEW pairs \in SUBSET Pair
  PROVE  GroupByKey(pairs) \in SUBSET Rec
<1>1. \A p \in pairs : p[1] \in Key
  BY DEF Pair
<1>2. \A k \in Key : [key |-> k, vals |-> {s \in Split : <<k, s>> \in pairs}] \in Rec
  BY DEF Rec
<1> QED BY <1>1, <1>2 DEF GroupByKey

(* The columns of an emission are a part of it, and the records of a       *)
(* column are the records of all pairs for the keys of the column.         *)
LEMMA GroupColumns ==
  ASSUME TypeOK
  PROVE  /\ Emitted \in SUBSET Pair
         /\ \A c \in Col : EmittedTo(c) \in SUBSET Pair
         /\ Emitted = UNION {EmittedTo(c) : c \in Col}
         /\ GroupByKey(Emitted) = UNION {GroupByKey(EmittedTo(c)) : c \in Col}
<1>1. /\ Emitted \in SUBSET Pair
      /\ \A c \in Col : EmittedTo(c) \in SUBSET Pair
  BY DEF Emitted, EmittedTo
<1>2. \A k \in Key : ColOf(k, map_cols) \in Col
  BY ColOfType DEF TypeOK
<1>3. \A p \in Emitted : p[1] \in Key /\ p \in EmittedTo(ColOf(p[1], map_cols))
  BY DEF Emitted, EmittedTo, Pair
<1>4. Emitted = UNION {EmittedTo(c) : c \in Col}
  BY <1>1, <1>2, <1>3 DEF EmittedTo
<1>5. ASSUME NEW k \in Key, NEW c \in Col, c = ColOf(k, map_cols)
      PROVE  {s \in Split : <<k, s>> \in Emitted} = {s \in Split : <<k, s>> \in EmittedTo(c)}
  BY <1>5 DEF EmittedTo
<1>6. ASSUME NEW x \in GroupByKey(Emitted)
      PROVE  \E c \in Col : x \in GroupByKey(EmittedTo(c))
  <2>1. PICK p \in Emitted :
          x = [key |-> p[1], vals |-> {s \in Split : <<p[1], s>> \in Emitted}]
    BY <1>6 DEF GroupByKey
  <2>2. p[1] \in Key /\ p \in EmittedTo(ColOf(p[1], map_cols)) /\ ColOf(p[1], map_cols) \in Col
    BY <1>2, <1>3
  <2> QED BY <1>5, <2>1, <2>2 DEF GroupByKey
<1>7. ASSUME NEW c \in Col, NEW x \in GroupByKey(EmittedTo(c))
      PROVE  x \in GroupByKey(Emitted)
  <2>1. PICK p \in EmittedTo(c) :
          x = [key |-> p[1], vals |-> {s \in Split : <<p[1], s>> \in EmittedTo(c)}]
    BY <1>7 DEF GroupByKey
  <2>2. p \in Emitted /\ p[1] \in Key /\ c = ColOf(p[1], map_cols)
    BY <1>3 DEF EmittedTo
  <2> QED BY <1>5, <2>1, <2>2 DEF GroupByKey
<1> QED BY <1>1, <1>4, <1>6, <1>7

(***************************************************************************)
(* Every step preserves each part of the invariant                         *)
(***************************************************************************)

(* The process starts with an empty store and no job.                      *)
LEMMA TypeInit == Init => TypeOK
<1> SUFFICES ASSUME Init PROVE TypeOK
  OBVIOUS
<1> USE MRAssumption DEF Init
<1>1. program \in Seq(Job) /\ job \in Job /\ sched \in Sched
  <2>1. program \in Seq(Job)
    OBVIOUS
  <2>2. job \in Job
    BY DEF Job
  <2> QED BY <2>1, <2>2 DEF Sched
<1>2. FJ!FJTypeOK
  BY DEF FJ!FJInit, FJ!FJTypeOK, FJ!WorkerState
<1>3. mapper \in [Lcpu -> [Col -> SUBSET Pair]] /\ bak \in [Lcpu -> [Col -> SUBSET Pair]]
  BY NoRowPairs DEF NoBkts
<1>4. rbkts \in [Col -> SUBSET Rec] /\ map_out \in [Lcpu -> SUBSET Pair]
  BY DEF NoRbkts
<1>5. wtask \in [Lcpu -> Split \cup Col]
  BY DEF Col
<1>6. /\ nmapped \in [Split -> Nat] /\ nfinished \in [Lcpu -> Nat]
      /\ bakrow \in [Lcpu -> BOOLEAN] /\ wpc \in [Lcpu -> WorkerPc]
  BY DEF WorkerPc
<1>7. /\ 0 \in 0 .. MaxSplits /\ 0 \in 0 .. MaxCols /\ 1 \in 1 .. MaxCols
  OBVIOUS
<1> QED BY <1>1, <1>2, <1>3, <1>4, <1>5, <1>6, <1>7 DEF TypeOK

(* The types.  A mapper holds a split of the job, a reducer a column.      *)
LEMMA TypeStep ==
  ASSUME TypeOK, SplitInv, ColumnInv, [Next]_vars
  PROVE  TypeOK'
<1> USE MRAssumption
    DEF TypeOK, FJ!FJTypeOK, FJ!WorkerState, WorkerPc, Sched, ctl, fj, ps, store, backup, est, wrk
<1>1. ASSUME NextJob
      PROVE  /\ program' \in Seq(Job) /\ job' \in Job /\ idx' \in Nat
             /\ results' \in SUBSET Rec /\ nmapped' \in [Split -> Nat]
             /\ Head(program) \in Job
  BY <1>1 DEF NextJob
<1>2. ASSUME NEW cols \in 1 .. MaxCols, KvstInit(cols)
      PROVE  /\ mapper' \in [Lcpu -> [Col -> SUBSET Pair]] /\ map_cols' \in 1 .. MaxCols
             /\ map_out' \in [Lcpu -> SUBSET Pair] /\ rbkts' \in [Col -> SUBSET Rec]
  BY <1>2, NoRowPairs DEF KvstInit, NoBkts, NoRbkts
<1>3. ASSUME NEW n \in SplitCounts, StartMapOnly(n) PROVE TypeOK'
  <2>1. n \in 0 .. MaxSplits /\ 1 \in 1 .. MaxCols
    OBVIOUS
  <2> QED BY <1>1, <1>2, <1>3, <2>1 DEF StartMapOnly
<1>4. ASSUME NEW n \in SplitCounts, StartFixed(n) PROVE TypeOK'
  <2>1. n \in 0 .. MaxSplits
    OBVIOUS
  <2>2. Head(program).tasks \in 1 .. MaxCols
    BY <1>1, <1>4 DEF StartFixed, Job
  <2> QED BY <1>1, <1>2, <1>4, <2>1, <2>2 DEF StartFixed
<1>5. ASSUME NEW n \in SplitCounts, StartSampled(n) PROVE TypeOK'
  <2>1. NSampled(n) \in 0 .. MaxSplits /\ n \in 0 .. MaxSplits
    BY NSampledType
  <2>2. NoBkts \in [Lcpu -> [Col -> SUBSET Pair]]
    BY NoRowPairs DEF NoBkts
  <2>3. /\ tasks' \in 0 .. MaxCols /\ map_cols' \in 1 .. MaxCols
        /\ map_out' \in [Lcpu -> SUBSET Pair] /\ nfinished' \in [Lcpu -> Nat]
    BY <1>5 DEF StartSampled
  <2>4. /\ has_backup' = FALSE /\ bsampling' = TRUE /\ sched' = "SAMPLE"
        /\ UNCHANGED <<fj, bak, bak_on, bakrow, rbkts, task_pos, wrk>>
        /\ nsplits' \in 0 .. MaxSplits /\ nsplits_bak' \in 0 .. MaxSplits
        /\ mapper' \in [Lcpu -> [Col -> SUBSET Pair]]
    BY <1>5, <2>1, <2>2 DEF StartSampled
  <2> QED BY <1>1, <1>5, <2>3, <2>4 DEF StartSampled
<1>6. CASE RunTask
  BY <1>6 DEF RunTask, FJ!Fork
<1>7. CASE SampleReturn
  <2>1. PICK t \in Estimates : tasks' = t /\ KvstInit(t)
    BY <1>7 DEF SampleReturn
  <2>2. t \in 1 .. MaxCols /\ tasks' \in 0 .. MaxCols
    BY <2>1
  <2>3. /\ mapper' \in [Lcpu -> [Col -> SUBSET Pair]] /\ map_cols' \in 1 .. MaxCols
        /\ map_out' \in [Lcpu -> SUBSET Pair] /\ rbkts' \in [Col -> SUBSET Rec]
    BY <1>2, <2>1, <2>2
  <2>4. idx' \in Nat /\ nsplits' \in 0 .. MaxSplits
    BY <1>7 DEF SampleReturn
  <2>5. /\ inphase' \in BOOLEAN /\ wst' \in [Lcpu -> FJ!WorkerState]
        /\ bak' \in [Lcpu -> [Col -> SUBSET Pair]]
        /\ bak_on' \in BOOLEAN /\ bakrow' \in [Lcpu -> BOOLEAN]
        /\ has_backup' \in BOOLEAN /\ bsampling' \in BOOLEAN
        /\ sched' = "MAP"
        /\ UNCHANGED <<program, job, results, nsplits_bak, nfinished, task_pos, wrk, nmapped>>
    BY <1>7 DEF SampleReturn, FJ!Join
  <2> QED BY <2>2, <2>3, <2>4, <2>5
<1>8. CASE MapReturn \/ ReduceReturn \/ MergeReturn
  <2>1. rbkts[0] \in SUBSET Rec
    BY DEF Col
  <2> QED BY <1>8, <2>1 DEF MapReturn, ReduceReturn, MergeReturn, FJ!Join
<1>9. ASSUME NEW w \in Lcpu, MapBegin(w) \/ ReduceBegin(w) \/ MergeBegin(w) PROVE TypeOK'
  BY <1>9 DEF MapBegin, ReduceBegin, MergeBegin, FJ!Begin
<1>10. ASSUME NEW w \in Lcpu, MapBeginRehash(w) PROVE TypeOK'
  <2>1. PairsOf(bak[w]) \in SUBSET Pair
    BY DEF PairsOf
  <2>2. PutAll(mapper[w], PairsOf(bak[w]), map_cols) \in [Col -> SUBSET Pair]
    BY <2>1, PutAllPairs
  <2> QED BY <1>10, <2>2, NoRowPairs DEF MapBeginRehash, FJ!Begin
<1>11. ASSUME NEW w \in Lcpu, ClaimSplit(w) PROVE TypeOK'
  <2>1. /\ idx' \in Nat /\ UNCHANGED <<ctl, fj, nsplits, nsplits_bak, store, backup, est, task_pos, nmapped>>
    BY <1>11 DEF ClaimSplit
  <2>2. wpc' \in [Lcpu -> WorkerPc]
    BY <1>11 DEF ClaimSplit
  <2>3. wtask' \in [Lcpu -> Split \cup Col]
    <3>1. idx < nsplits => idx \in Split
      BY DEF Split
    <3> QED BY <1>11, <3>1 DEF ClaimSplit
  <2> QED BY <2>1, <2>2, <2>3
<1>12. ASSUME NEW w \in Lcpu, MapTask(w) PROVE TypeOK'
  <2>1. wtask[w] \in Split
    BY <1>12 DEF MapTask, SplitInv, Split, Col
  <2>2. Emits[wtask[w]] \X {wtask[w]} \in SUBSET Pair
    BY <2>1 DEF Pair
  <2>3. PutAll(mapper[w], Emits[wtask[w]] \X {wtask[w]}, map_cols) \in [Col -> SUBSET Pair]
    BY <2>2, PutAllPairs
  <2>4. /\ nmapped' \in [Split -> Nat]
        /\ wpc' \in [Lcpu -> WorkerPc]
    BY <1>12, <2>1 DEF MapTask
  <2>5. mapper' \in [Lcpu -> [Col -> SUBSET Pair]]
    BY <1>12, <2>3 DEF MapTask
  <2>6. nfinished' \in [Lcpu -> Nat]
    BY <1>12 DEF MapTask
  <2> QED BY <1>12, <2>4, <2>6, <2>5 DEF MapTask
<1>13. ASSUME NEW w \in Lcpu, MapEnd(w) PROVE TypeOK'
  <2>1. mapper[w][0] \in SUBSET Pair
    BY DEF Col
  <2> QED BY <1>13, <2>1, NoRowPairs DEF MapEnd, FJ!End
<1>14. ASSUME NEW w \in Lcpu, ClaimColumn(w) PROVE TypeOK'
  <2>1. /\ task_pos' \in Nat /\ UNCHANGED <<ctl, fj, ps, store, backup, est, nmapped>>
    BY <1>14 DEF ClaimColumn
  <2>2. wpc' \in [Lcpu -> WorkerPc]
    BY <1>14 DEF ClaimColumn
  <2>3. wtask' \in [Lcpu -> Split \cup Col]
    <3>1. task_pos < tasks => task_pos \in Col
      BY DEF Col
    <3> QED BY <1>14, <3>1 DEF ClaimColumn
  <2> QED BY <2>1, <2>2, <2>3
<1>15. ASSUME NEW w \in Lcpu, ReduceTask(w) PROVE TypeOK'
  <2>1. wtask[w] \in Col
    BY <1>15 DEF ReduceTask, ColumnInv, Split, Col
  <2>2. ColumnPairs(wtask[w]) \in SUBSET Pair
    BY <2>1 DEF ColumnPairs
  <2> QED BY <1>15, <2>1, <2>2, GroupType DEF ReduceTask
<1>16. ASSUME NEW w \in Lcpu, ReduceEnd(w) \/ MergeEnd(w) PROVE TypeOK'
  <2>1. [c \in Col |-> IF c = 0 THEN UNION {rbkts[d] : d \in Col} ELSE {}] \in [Col -> SUBSET Rec]
    OBVIOUS
  <2> QED BY <1>16, <2>1 DEF ReduceEnd, MergeEnd, FJ!End
<1>17. CASE UNCHANGED vars
  BY <1>17 DEF vars
<1> QED
  BY <1>3, <1>4, <1>5, <1>6, <1>7, <1>8, <1>9, <1>10, <1>11, <1>12, <1>13, <1>14, <1>15, <1>16, <1>17
     DEF Next, StartJob, MainStep, WorkerStep, Exit

(* Where the cpus are in a phase.                                          *)
LEMMA PhaseStep ==
  ASSUME TypeOK, PhaseInv, [Next]_vars
  PROVE  PhaseInv'
<1> USE DEF TypeOK, FJ!FJTypeOK, FJ!WorkerState, PhaseInv, ctl, fj, ps, store, backup, est, wrk
<1>0. 0 \in Lcpu
  BY MRAssumption DEF Lcpu
<1>1. ASSUME NEW n \in SplitCounts, StartJob(n) PROVE PhaseInv'
  <2>1. ~inphase /\ ~inphase' /\ UNCHANGED <<wst, wpc>>
    BY <1>1 DEF StartJob, StartMapOnly, StartFixed, StartSampled, NextJob
  <2> QED BY <2>1
<1>2. CASE RunTask
  <2>1. inphase' /\ wst' = [l \in Lcpu |-> "todo"] /\ UNCHANGED <<sched, wpc>> /\ ~inphase /\ sched # "idle"
    BY <1>2 DEF RunTask, FJ!Fork
  <2> QED BY <2>1
<1>3. CASE SampleReturn \/ MapReturn \/ ReduceReturn \/ MergeReturn
  <2>1. /\ ~inphase' /\ wst' = [l \in Lcpu |-> "none"] /\ wpc' = wpc
        /\ \A l \in Lcpu : wst[l] \in {"none", "done"}
    BY <1>3 DEF SampleReturn, MapReturn, ReduceReturn, MergeReturn, FJ!Join
  <2> QED BY <2>1
<1>4. ASSUME NEW w \in Lcpu, MapBegin(w) \/ MapBeginRehash(w) \/ ReduceBegin(w) \/ MergeBegin(w)
      PROVE  PhaseInv'
  <2>1. /\ wst[w] = "todo" /\ wst' = [wst EXCEPT ![w] = "running"]
        /\ UNCHANGED <<inphase, sched>>
    BY <1>4 DEF MapBegin, MapBeginRehash, ReduceBegin, MergeBegin, FJ!Begin
  <2>2. \E pc \in PcOf(sched) : pc # "out" /\ wpc' = [wpc EXCEPT ![w] = pc]
    BY <1>4 DEF MapBegin, MapBeginRehash, ReduceBegin, MergeBegin, Mapping, PcOf
  <2> QED BY <2>1, <2>2
<1>5. ASSUME NEW w \in Lcpu,
             ClaimSplit(w) \/ MapTask(w) \/ ClaimColumn(w) \/ ReduceTask(w)
      PROVE  PhaseInv'
  <2>1. wpc[w] # "out" /\ UNCHANGED <<fj, sched>>
    BY <1>5 DEF ClaimSplit, MapTask, ClaimColumn, ReduceTask
  <2>2. \E pc \in PcOf(sched) : pc # "out" /\ wpc' = [wpc EXCEPT ![w] = pc]
    BY <1>5 DEF ClaimSplit, MapTask, ClaimColumn, ReduceTask, Mapping, PcOf
  <2> QED BY <2>1, <2>2
<1>6. ASSUME NEW w \in Lcpu, MapEnd(w) \/ ReduceEnd(w) \/ MergeEnd(w) PROVE PhaseInv'
  <2>1. /\ wst[w] = "running" /\ wst' = [wst EXCEPT ![w] = "done"]
        /\ wpc' = [wpc EXCEPT ![w] = "out"]
        /\ UNCHANGED <<inphase, sched>>
    BY <1>6 DEF MapEnd, ReduceEnd, MergeEnd, FJ!End
  <2> QED BY <2>1
<1>7. CASE UNCHANGED vars
  BY <1>7 DEF vars
<1> QED
  BY <1>1, <1>2, <1>3, <1>4, <1>5, <1>6, <1>7 DEF Next, MainStep, WorkerStep, Exit

(* What a phase knows of the job.                                          *)
LEMMA JobStep ==
  ASSUME TypeOK, PhaseInv, JobInv, [Next]_vars
  PROVE  JobInv'
<1> USE DEF JobInv, ctl, fj, ps, store, backup, est, wrk
<1>1. ASSUME NEW n \in SplitCounts, StartMapOnly(n) PROVE JobInv'
  BY <1>1 DEF StartMapOnly, NextJob, KvstInit
<1>2. ASSUME NEW n \in SplitCounts, StartFixed(n) PROVE JobInv'
  BY <1>2 DEF StartFixed, NextJob, KvstInit
<1>3. ASSUME NEW n \in SplitCounts, StartSampled(n) PROVE JobInv'
  <2>1. Head(program) \in Job
    BY <1>3 DEF StartSampled, NextJob, TypeOK
  <2>2. Head(program) = [atype |-> "mapgr", tasks |-> 0]
    BY <1>3, <2>1 DEF StartSampled, Job
  <2>3. 1 <= NSampled(n) /\ NSampled(n) <= n
    BY NSampledType
  <2> QED BY <1>3, <2>2, <2>3 DEF StartSampled, NextJob
<1>4. CASE RunTask
  BY <1>4 DEF RunTask
<1>5. CASE SampleReturn
  BY <1>5 DEF SampleReturn, KvstInit
<1>6. CASE MapReturn \/ ReduceReturn \/ MergeReturn
  BY <1>6 DEF MapReturn, ReduceReturn, MergeReturn, TypeOK, Job
<1>7. ASSUME NEW w \in Lcpu, WorkerStep(w) PROVE JobInv'
  <2>1. UNCHANGED <<sched, job, tasks, map_cols, bsampling, has_backup, nsplits, nsplits_bak>>
    BY <1>7 DEF WorkerStep, MapBegin, MapBeginRehash, ClaimSplit, MapTask, MapEnd,
                ReduceBegin, ClaimColumn, ReduceTask, ReduceEnd, MergeBegin, MergeEnd
  <2> QED BY <2>1
<1>8. CASE UNCHANGED vars
  BY <1>8 DEF vars
<1> QED
  BY <1>1, <1>2, <1>3, <1>4, <1>5, <1>6, <1>7, <1>8 DEF Next, StartJob, MainStep, Exit

(* The splits are claimed in order and mapped once.                        *)
LEMMA SplitStep ==
  ASSUME TypeOK, PhaseInv, JobInv, SplitInv, [Next]_vars
  PROVE  SplitInv'
<1> USE DEF ctl, fj, ps, store, backup, est, wrk
<1>0. 0 \in Lcpu
  BY MRAssumption DEF Lcpu
<1>1. /\ idx \in Nat /\ nsplits \in Nat
      /\ nmapped \in [Split -> Nat] /\ Split \subseteq Nat
      /\ \A w \in Lcpu : wtask[w] \in Nat
      /\ wpc \in [Lcpu -> WorkerPc] /\ wst \in [Lcpu -> FJ!WorkerState]
  BY MRAssumption DEF TypeOK, Split, Col, FJ!FJTypeOK
<1>2. ASSUME NEW n \in SplitCounts, StartJob(n) PROVE SplitInv'
  <2>1. ~inphase /\ \A w \in Lcpu : wst[w] = "none" /\ wpc[w] = "out"
    BY <1>1, <1>2 DEF PhaseInv, StartJob, StartMapOnly, StartFixed, StartSampled, NextJob
  <2>2. /\ idx' = 0 /\ nmapped' = [s \in Split |-> 0] /\ UNCHANGED <<wpc, wst>>
        /\ sched' \in {"SAMPLE", "MAP"}
    BY <1>2 DEF StartJob, StartMapOnly, StartFixed, StartSampled, NextJob
  <2> QED BY <1>1, <2>1, <2>2 DEF SplitInv, Mapping
<1>3. CASE RunTask
  <2>1. /\ UNCHANGED <<sched, idx, nsplits, nmapped, wpc, wtask>>
        /\ wst' = [l \in Lcpu |-> "todo"]
    BY <1>3 DEF RunTask, FJ!Fork
  <2> QED BY <2>1 DEF SplitInv, Mapping, Held
<1>4. ASSUME FJ!Join
      PROVE  \A w \in Lcpu : wst[w] = "done" /\ wpc[w] = "out" /\ wst'[w] = "none"
  BY <1>4 DEF FJ!Join, PhaseInv
<1>5. CASE SampleReturn
  <2>1. idx >= nsplits
    BY <1>0, <1>4, <1>5 DEF SampleReturn, SplitInv, Mapping
  <2>2. /\ idx' = nsplits /\ nsplits' = nsplits_bak /\ nsplits <= nsplits_bak
        /\ nsplits_bak \in Nat
    BY <1>5 DEF SampleReturn, JobInv, TypeOK
  <2>3. UNCHANGED <<nmapped, wpc, wtask>> /\ sched' = "MAP"
    BY <1>5 DEF SampleReturn
  <2>4. \A s \in Split : ~Held(s) /\ ~Held(s)'
    BY <1>4, <1>5, <2>3 DEF Held, SampleReturn
  <2>5. ASSUME NEW s \in Split
        PROVE  nmapped'[s] = IF s < idx' /\ s < nsplits' /\ ~Held(s)' THEN 1 ELSE 0
    BY <1>1, <2>1, <2>2, <2>3, <2>4 DEF SplitInv
  <2> QED BY <1>4, <1>5, <2>3, <2>5 DEF SplitInv, Mapping, SampleReturn
<1>6. CASE MapReturn \/ ReduceReturn \/ MergeReturn
  <2>1. idx >= nsplits
    BY <1>0, <1>4, <1>6 DEF MapReturn, ReduceReturn, MergeReturn, SplitInv, Mapping
  <2>2. /\ UNCHANGED <<nmapped, idx, nsplits, wpc, wtask>>
        /\ sched' \notin {"SAMPLE", "MAP"} /\ \A w \in Lcpu : wst'[w] = "none"
    BY <1>4, <1>6 DEF MapReturn, ReduceReturn, MergeReturn
  <2> QED BY <1>1, <2>1, <2>2 DEF SplitInv, Mapping, Held
<1>7. ASSUME NEW w \in Lcpu,
             \/ MapBegin(w) \/ MapBeginRehash(w) \/ ReduceBegin(w) \/ MergeBegin(w)
             \/ MapEnd(w) \/ ReduceEnd(w) \/ MergeEnd(w)
             \/ ClaimColumn(w) \/ ReduceTask(w)
      PROVE  SplitInv'
  <2>1. UNCHANGED <<sched, idx, nsplits, nmapped>>
    BY <1>7 DEF MapBegin, MapBeginRehash, ReduceBegin, MergeBegin, MapEnd,
                ReduceEnd, MergeEnd, ClaimColumn, ReduceTask
  <2>2. ASSUME NEW v \in Lcpu
        PROVE  /\ wpc[v] = "map" \/ wpc'[v] = "map" => wpc'[v] = wpc[v] /\ wtask'[v] = wtask[v]
               /\ Mapping /\ (wpc'[v] = "finish" \/ wst'[v] = "done") =>
                    wpc[v] = "finish" \/ wst[v] = "done"
    <3>1. CASE MapBegin(w) \/ MapBeginRehash(w) \/ ReduceBegin(w) \/ MergeBegin(w)
      <4>1. wst[w] = "todo" /\ wst' = [wst EXCEPT ![w] = "running"] /\ UNCHANGED wtask
        BY <3>1 DEF MapBegin, MapBeginRehash, ReduceBegin, MergeBegin, FJ!Begin
      <4>2. wpc[w] = "out"
        BY <1>1, <4>1 DEF PhaseInv, WorkerPc
      <4>3. wpc' = [wpc EXCEPT ![w] = "claim"] \/ wpc' = [wpc EXCEPT ![w] = "merge"]
        BY <3>1 DEF MapBegin, MapBeginRehash, ReduceBegin, MergeBegin
      <4> QED BY <1>1, <4>1, <4>2, <4>3
    <3>2. CASE MapEnd(w) \/ ReduceEnd(w) \/ MergeEnd(w)
      <4>1. /\ wst' = [wst EXCEPT ![w] = "done"] /\ wpc' = [wpc EXCEPT ![w] = "out"]
            /\ UNCHANGED wtask /\ wpc[w] \in {"finish", "merge"}
            /\ Mapping => wpc[w] = "finish"
        BY <3>2 DEF MapEnd, ReduceEnd, MergeEnd, FJ!End, Mapping
      <4> QED BY <1>1, <4>1
    <3>3. CASE ClaimColumn(w) \/ ReduceTask(w)
      <4>1. /\ UNCHANGED wst /\ ~Mapping /\ wpc[w] \in {"claim", "reduce"}
            /\ \A u \in Lcpu : u # w => wpc'[u] = wpc[u] /\ wtask'[u] = wtask[u]
            /\ wpc'[w] # "map"
        BY <1>1, <3>3 DEF ClaimColumn, ReduceTask, Mapping, TypeOK
      <4> QED BY <1>1, <4>1
    <3> QED BY <1>7, <3>1, <3>2, <3>3
  <2>3. \A s \in Split : Held(s)' = Held(s)
    BY <2>2 DEF Held
  <2> QED BY <1>1, <2>1, <2>2, <2>3 DEF SplitInv, Mapping
<1>8. ASSUME NEW w \in Lcpu, ClaimSplit(w) PROVE SplitInv'
  <2>1. /\ idx' = idx + 1 /\ UNCHANGED <<nsplits, nmapped, sched, wst>>
        /\ wpc[w] = "claim" /\ Mapping
    BY <1>8 DEF ClaimSplit
  <2>2. CASE idx >= nsplits
    <3>1. wpc' = [wpc EXCEPT ![w] = "finish"] /\ wtask' = wtask
      BY <1>1, <1>8, <2>2 DEF ClaimSplit
    <3>2. \A s \in Split : Held(s)' = Held(s)
      BY <1>1, <2>1, <3>1 DEF Held
    <3>3. \A s \in Split :
            nmapped'[s] = IF s < idx' /\ s < nsplits' /\ ~Held(s)' THEN 1 ELSE 0
      BY <1>1, <2>1, <2>2, <3>2 DEF SplitInv
    <3>4. \A v \in Lcpu : wpc'[v] = "map" => wpc[v] = "map" /\ wtask'[v] = wtask[v]
      BY <1>1, <3>1
    <3>5. \A v \in Lcpu : wpc'[v] = "map" => wtask'[v] < idx' /\ wtask'[v] < nsplits'
      BY <1>1, <2>1, <3>4 DEF SplitInv
    <3>6. idx' >= nsplits'
      BY <1>1, <2>1, <2>2
    <3> QED BY <3>3, <3>4, <3>5, <3>6 DEF SplitInv
  <2>3. CASE idx < nsplits
    <3>1. wpc' = [wpc EXCEPT ![w] = "map"] /\ wtask' = [wtask EXCEPT ![w] = idx]
      BY <1>1, <1>8, <2>3 DEF ClaimSplit
    <3>2. wtask'[w] = idx /\ \A v \in Lcpu : v # w => wtask'[v] = wtask[v] /\ wpc'[v] = wpc[v]
      BY <1>1, <3>1 DEF TypeOK
    <3>3. \A s \in Split : Held(s)' <=> Held(s) \/ s = idx
      BY <1>1, <2>1, <3>1, <3>2 DEF Held
    <3>4. ~Held(idx)
      BY <1>1 DEF SplitInv, Held
    <3>5. \A v \in Lcpu : wpc[v] = "map" => wtask[v] < idx /\ wtask[v] \in Nat
      BY <1>1, MRAssumption DEF SplitInv, TypeOK, Split, Col
    <3>6. \A s \in Split :
            nmapped'[s] = IF s < idx' /\ s < nsplits' /\ ~Held(s)' THEN 1 ELSE 0
      BY <1>1, <2>1, <2>3, <3>3, <3>4 DEF SplitInv
    <3>7. \A v \in Lcpu : wpc'[v] = "map" => wtask'[v] < idx' /\ wtask'[v] < nsplits'
      BY <1>1, <2>1, <2>3, <3>1, <3>2, <3>5 DEF SplitInv
    <3>8. \A v \in Lcpu : wpc'[v] = "finish" \/ wst'[v] = "done" => idx' >= nsplits'
      BY <1>1, <2>1, <2>3, <3>1, <3>2 DEF SplitInv
    <3>9. \A u, v \in Lcpu :
            u # v /\ wpc'[u] = "map" /\ wpc'[v] = "map" => wtask'[u] # wtask'[v]
      BY <1>1, <3>1, <3>2, <3>5 DEF SplitInv
    <3> QED BY <2>1, <3>6, <3>7, <3>8, <3>9 DEF SplitInv, Mapping
  <2> QED BY <1>1, <2>2, <2>3
<1>9. ASSUME NEW w \in Lcpu, MapTask(w) PROVE SplitInv'
  <2>1. /\ UNCHANGED <<idx, nsplits, sched, wst, wtask>>
        /\ wpc[w] = "map" /\ wpc' = [wpc EXCEPT ![w] = "claim"]
        /\ nmapped' = [nmapped EXCEPT ![wtask[w]] = @ + 1]
    BY <1>9 DEF MapTask
  <2>2. wtask[w] \in Split /\ wtask[w] < idx /\ wtask[w] < nsplits
    BY <2>1, MRAssumption DEF SplitInv, TypeOK, Split, Col
  <2>3. Held(wtask[w]) /\ ~Held(wtask[w])'
    BY <1>1, <2>1 DEF Held, SplitInv
  <2>4. \A s \in Split : s # wtask[w] => Held(s)' = Held(s)
    BY <1>1, <2>1 DEF Held
  <2>5. \A s \in Split : nmapped'[s] = IF s < idx' /\ s < nsplits' /\ ~Held(s)' THEN 1 ELSE 0
    BY <1>1, <2>1, <2>2, <2>3, <2>4 DEF SplitInv
  <2> QED BY <1>1, <2>1, <2>5 DEF SplitInv, Mapping
<1>10. CASE UNCHANGED vars
  BY <1>10 DEF vars, SplitInv, Mapping, Held
<1> QED
  BY <1>2, <1>3, <1>5, <1>6, <1>7, <1>8, <1>9, <1>10 DEF Next, MainStep, WorkerStep, Exit

(* The columns are claimed in order.                                       *)
LEMMA ColumnStep ==
  ASSUME TypeOK, PhaseInv, ColumnInv, [Next]_vars
  PROVE  ColumnInv'
<1> USE DEF ctl, fj, ps, store, backup, est, wrk
<1>1. /\ task_pos \in Nat /\ tasks \in Nat
      /\ wpc \in [Lcpu -> WorkerPc] /\ wst \in [Lcpu -> FJ!WorkerState]
      /\ \A w \in Lcpu : wtask[w] \in Nat
  BY MRAssumption DEF TypeOK, FJ!FJTypeOK, Split, Col
<1>2. ASSUME \A w \in Lcpu : wpc'[w] # "reduce" /\ (sched' = "REDUCE" => wpc'[w] # "finish" /\ wst'[w] # "done")
      PROVE  ColumnInv'
  BY <1>2 DEF ColumnInv
<1>3. ASSUME NEW n \in SplitCounts, StartJob(n) PROVE ColumnInv'
  <2>1. ~inphase /\ UNCHANGED <<wpc, wst>>
    BY <1>3 DEF PhaseInv, StartJob, StartMapOnly, StartFixed, StartSampled, NextJob
  <2> QED BY <1>1, <1>2, <2>1 DEF PhaseInv
<1>4. CASE RunTask
  <2>1. ~inphase /\ UNCHANGED wpc /\ wst' = [l \in Lcpu |-> "todo"]
    BY <1>4 DEF RunTask, FJ!Fork
  <2> QED BY <1>1, <1>2, <2>1 DEF PhaseInv
<1>5. CASE SampleReturn \/ MapReturn \/ ReduceReturn \/ MergeReturn
  <2>1. /\ wst' = [l \in Lcpu |-> "none"] /\ wpc' = wpc
        /\ \A l \in Lcpu : wst[l] \in {"none", "done"}
    BY <1>5 DEF SampleReturn, MapReturn, ReduceReturn, MergeReturn, FJ!Join
  <2> QED BY <1>1, <1>2, <2>1 DEF PhaseInv
<1>6. ASSUME NEW w \in Lcpu,
             \/ MapBegin(w) \/ MapBeginRehash(w) \/ ClaimSplit(w) \/ MapTask(w) \/ MapEnd(w)
             \/ MergeBegin(w) \/ MergeEnd(w)
      PROVE  ColumnInv'
  <2>1. sched' # "REDUCE" /\ sched # "REDUCE"
    BY <1>6 DEF MapBegin, MapBeginRehash, ClaimSplit, MapTask, MapEnd, MergeBegin, MergeEnd, Mapping
  <2>2. \A v \in Lcpu : wpc[v] # "reduce"
    BY <2>1 DEF PhaseInv, PcOf
  <2>3. \A v \in Lcpu : wpc'[v] # "reduce"
    BY <1>1, <1>6, <2>2 DEF MapBegin, MapBeginRehash, ClaimSplit, MapTask, MapEnd, MergeBegin, MergeEnd
  <2> QED BY <1>2, <2>1, <2>3
<1>7. ASSUME NEW w \in Lcpu, ReduceBegin(w) \/ ReduceTask(w) PROVE ColumnInv'
  <2>1. /\ wpc' = [wpc EXCEPT ![w] = "claim"] /\ UNCHANGED <<wtask, task_pos, tasks, sched>>
        /\ wst' = wst \/ wst' = [wst EXCEPT ![w] = "running"]
    BY <1>7 DEF ReduceBegin, ReduceTask, FJ!Begin
  <2> QED BY <1>1, <2>1 DEF ColumnInv
<1>8. ASSUME NEW w \in Lcpu, ClaimColumn(w) PROVE ColumnInv'
  <2>1. task_pos' = task_pos + 1 /\ UNCHANGED <<wst, tasks, sched>>
    BY <1>8 DEF ClaimColumn
  <2>2. CASE task_pos >= tasks
    <3>1. wpc' = [wpc EXCEPT ![w] = "finish"] /\ wtask' = wtask
      BY <1>1, <1>8, <2>2 DEF ClaimColumn
    <3>2. \A v \in Lcpu : wpc'[v] = "reduce" => wpc[v] = "reduce" /\ wtask'[v] = wtask[v]
      BY <1>1, <3>1
    <3>3. \A v \in Lcpu : wpc'[v] = "reduce" => wtask'[v] < task_pos' /\ wtask'[v] < tasks'
      BY <1>1, <2>1, <3>2 DEF ColumnInv
    <3>4. task_pos' >= tasks'
      BY <1>1, <2>1, <2>2
    <3> QED BY <3>2, <3>3, <3>4 DEF ColumnInv
  <2>3. CASE task_pos < tasks
    <3>1. wpc' = [wpc EXCEPT ![w] = "reduce"] /\ wtask' = [wtask EXCEPT ![w] = task_pos]
      BY <1>1, <1>8, <2>3 DEF ClaimColumn
    <3>2. wtask'[w] = task_pos /\ \A v \in Lcpu : v # w => wtask'[v] = wtask[v] /\ wpc'[v] = wpc[v]
      BY <1>1, <3>1 DEF TypeOK
    <3>3. \A v \in Lcpu : wpc'[v] = "reduce" => wtask'[v] < task_pos' /\ wtask'[v] < tasks'
      BY <1>1, <2>1, <2>3, <3>2 DEF ColumnInv
    <3>4. \A v \in Lcpu : sched' = "REDUCE" /\ (wpc'[v] = "finish" \/ wst'[v] = "done") => task_pos' >= tasks'
      BY <1>1, <2>1, <2>3, <3>1, <3>2 DEF ColumnInv
    <3>5. \A u, v \in Lcpu :
            u # v /\ wpc'[u] = "reduce" /\ wpc'[v] = "reduce" => wtask'[u] # wtask'[v]
      BY <1>1, <3>1, <3>2 DEF ColumnInv
    <3> QED BY <3>3, <3>4, <3>5 DEF ColumnInv
  <2> QED BY <1>1, <2>2, <2>3
<1>9. ASSUME NEW w \in Lcpu, ReduceEnd(w) PROVE ColumnInv'
  <2>1. /\ wpc[w] = "finish" /\ wpc' = [wpc EXCEPT ![w] = "out"]
        /\ wst' = [wst EXCEPT ![w] = "done"] /\ sched = "REDUCE"
        /\ UNCHANGED <<wtask, task_pos, tasks, sched>>
    BY <1>9 DEF ReduceEnd, FJ!End
  <2> QED BY <1>1, <2>1 DEF ColumnInv
<1>10. CASE UNCHANGED vars
  BY <1>10 DEF vars, ColumnInv
<1> QED
  BY <1>3, <1>4, <1>5, <1>6, <1>7, <1>8, <1>9, <1>10 DEF Next, MainStep, WorkerStep, Exit

(* When a phase is joined, the work of the phase is done by everybody.     *)
LEMMA JoinFacts ==
  ASSUME TypeOK, PhaseInv, SplitInv, ColumnInv, FJ!Join
  PROVE  /\ \A w \in Lcpu : wst[w] = "done" /\ wpc[w] = "out"
         /\ \A w \in Lcpu : wst'[w] = "none"
         /\ 0 \in Lcpu /\ inphase
         /\ Mapping => idx >= nsplits
         /\ sched = "REDUCE" => \A c \in Col : Reduced(c)
<1>1. 0 \in Lcpu
  BY MRAssumption DEF Lcpu
<1>2. /\ \A w \in Lcpu : wst[w] = "done" /\ wpc[w] = "out" /\ wst'[w] = "none"
      /\ inphase
  BY DEF FJ!Join, PhaseInv
<1>3. Mapping => idx >= nsplits
  BY <1>1, <1>2 DEF SplitInv
<1>4. sched = "REDUCE" => \A c \in Col : Reduced(c)
  <2>1. sched = "REDUCE" => task_pos >= tasks
    BY <1>1, <1>2 DEF ColumnInv
  <2>2. task_pos \in Nat /\ tasks \in Nat /\ Col \subseteq Nat
    BY MRAssumption DEF TypeOK, Col
  <2>3. ASSUME sched = "REDUCE", NEW c \in Col PROVE c < tasks => c < task_pos
    BY <2>1, <2>2, <2>3
  <2> QED BY <1>2, <2>3 DEF Reduced
<1> QED BY <1>1, <1>2, <1>3, <1>4

(* A row that has no pair in any column is empty.                          *)
LEMMA EmptyColumns ==
  ASSUME TypeOK, \A c \in Col : ColumnPairs(c) = {}
  PROVE  \A w \in Lcpu : mapper[w] = NoRow
  BY DEF TypeOK, ColumnPairs, NoRow

(* Which rows are empty when.                                              *)
LEMMA RowStep ==
  ASSUME TypeOK, PhaseInv, JobInv, SplitInv, ColumnInv, RowInv, StoreInv, [Next]_vars
  PROVE  RowInv'
<1> USE DEF ctl, fj, ps, store, backup, est, wrk
<1>1. /\ wpc \in [Lcpu -> WorkerPc] /\ wst \in [Lcpu -> FJ!WorkerState]
      /\ mapper \in [Lcpu -> [Col -> SUBSET Pair]] /\ bak \in [Lcpu -> [Col -> SUBSET Pair]]
      /\ map_out \in [Lcpu -> SUBSET Pair] /\ job.atype \in {"maponly", "mapgr"}
  BY DEF TypeOK, FJ!FJTypeOK, Job
<1>2. \A w \in Lcpu : NoBkts[w] = NoRow
  BY DEF NoBkts
<1>3. ASSUME NEW n \in SplitCounts, StartJob(n) PROVE RowInv'
  <2>1. /\ sched = "idle" /\ mapper' = NoBkts /\ map_out' = [r \in Lcpu |-> {}]
        /\ bak' = bak /\ sched' # "MERGE"
    BY <1>3 DEF StartJob, StartMapOnly, StartFixed, StartSampled, NextJob, KvstInit
  <2> QED BY <1>2, <2>1 DEF RowInv
<1>4. CASE RunTask
  <2>1. /\ UNCHANGED <<sched, job, mapper, map_out, bak, has_backup>>
        /\ wst' = [l \in Lcpu |-> "todo"] /\ \A w \in Lcpu : wst[w] = "none"
    BY <1>4 DEF RunTask, FJ!Fork, PhaseInv
  <2> QED BY <2>1 DEF RowInv, Mapping
<1>5. CASE SampleReturn
  <2>1. /\ mapper' = NoBkts /\ map_out' = [r \in Lcpu |-> {}] /\ has_backup'
        /\ sched' = "MAP" /\ wst' = [l \in Lcpu |-> "none"]
    BY <1>5 DEF SampleReturn, KvstInit, FJ!Join
  <2> QED BY <1>2, <2>1 DEF RowInv
<1>6. CASE MapReturn
  <2>1. /\ UNCHANGED <<job, mapper, map_out, bak, has_backup>> /\ sched = "MAP"
        /\ \A w \in Lcpu : wst[w] = "done"
        /\ sched' \in {"REDUCE", "MERGE"} /\ (sched' = "MERGE" => job.atype = "maponly")
    BY <1>6, JoinFacts DEF MapReturn
  <2> QED BY <2>1 DEF RowInv, Mapping
<1>7. CASE ReduceReturn
  <2>1. \A w \in Lcpu : mapper[w] = NoRow
    BY <1>7, JoinFacts, EmptyColumns DEF ReduceReturn, StoreInv
  <2>2. /\ UNCHANGED <<job, mapper, map_out, bak, has_backup>> /\ sched = "REDUCE"
        /\ sched' = "MERGE"
    BY <1>7 DEF ReduceReturn
  <2> QED BY <2>1, <2>2 DEF RowInv, Mapping
<1>8. CASE MergeReturn
  <2>1. /\ UNCHANGED <<job, mapper, map_out, bak, has_backup>> /\ sched = "MERGE"
        /\ sched' = "idle"
    BY <1>8 DEF MergeReturn
  <2> QED BY <2>1 DEF RowInv, Mapping
<1>9. ASSUME NEW w \in Lcpu,
             \/ MapBegin(w) \/ ReduceBegin(w) \/ MergeBegin(w)
             \/ ClaimSplit(w) \/ ClaimColumn(w) \/ ReduceEnd(w) \/ MergeEnd(w)
      PROVE  RowInv'
  <2>1. /\ UNCHANGED <<sched, job, mapper, map_out, bak, has_backup>>
    BY <1>9 DEF MapBegin, ReduceBegin, MergeBegin, ClaimSplit, ClaimColumn, ReduceEnd, MergeEnd
  <2>2. /\ \A v \in Lcpu : v # w => wst'[v] = wst[v]
        /\ \/ wst'[w] = wst[w]
           \/ wst[w] = "todo" /\ wst'[w] = "running" /\ (Mapping => ~has_backup)
           \/ ~Mapping
    <3>1. CASE MapBegin(w) \/ ReduceBegin(w) \/ MergeBegin(w)
      <4>1. wst[w] = "todo" /\ wst' = [wst EXCEPT ![w] = "running"] /\ (Mapping => ~has_backup)
        BY <3>1 DEF MapBegin, ReduceBegin, MergeBegin, FJ!Begin, Mapping
      <4> QED BY <1>1, <4>1
    <3>2. CASE ReduceEnd(w) \/ MergeEnd(w)
      <4>1. wst' = [wst EXCEPT ![w] = "done"] /\ ~Mapping
        BY <3>2 DEF ReduceEnd, MergeEnd, FJ!End, Mapping
      <4> QED BY <1>1, <4>1
    <3>3. CASE ClaimSplit(w) \/ ClaimColumn(w)
      <4>1. wst' = wst
        BY <3>3 DEF ClaimSplit, ClaimColumn
      <4> QED BY <4>1
    <3> QED BY <1>9, <3>1, <3>2, <3>3
  <2> QED BY <1>1, <2>1, <2>2 DEF RowInv, Mapping
<1>10. ASSUME NEW w \in Lcpu, MapBeginRehash(w) PROVE RowInv'
  <2>1. /\ UNCHANGED <<sched, job, map_out, has_backup>> /\ Mapping
        /\ wst[w] = "todo" /\ wst'[w] = "running" /\ bak'[w] = NoRow /\ job.atype # "maponly"
        /\ \A v \in Lcpu : v # w =>
             wst'[v] = wst[v] /\ mapper'[v] = mapper[v] /\ bak'[v] = bak[v]
    BY <1>1, <1>10 DEF MapBeginRehash, FJ!Begin, RehashAsserts
  <2> QED BY <2>1 DEF RowInv, Mapping
<1>11. ASSUME NEW w \in Lcpu, MapTask(w) PROVE RowInv'
  <2>1. /\ UNCHANGED <<sched, job, map_out, bak, has_backup, wst>> /\ Mapping
        /\ wst[w] = "running"
        /\ \A v \in Lcpu : v # w => mapper'[v] = mapper[v]
    BY <1>1, <1>11 DEF MapTask, PhaseInv
  <2> QED BY <2>1 DEF RowInv, Mapping
<1>12. ASSUME NEW w \in Lcpu, MapEnd(w) PROVE RowInv'
  <2>1. /\ UNCHANGED <<sched, job, bak, has_backup>> /\ Mapping
        /\ wst[w] = "running" /\ wst'[w] = "done"
        /\ \A v \in Lcpu : v # w =>
             wst'[v] = wst[v] /\ mapper'[v] = mapper[v] /\ map_out'[v] = map_out[v]
        /\ IF job.atype = "maponly" THEN mapper'[w] = NoRow
           ELSE mapper'[w] = mapper[w] /\ map_out'[w] = map_out[w]
    BY <1>1, <1>12 DEF MapEnd, FJ!End
  <2> QED BY <2>1 DEF RowInv, Mapping
<1>13. ASSUME NEW w \in Lcpu, ReduceTask(w) PROVE RowInv'
  <2>1. UNCHANGED <<sched, job, map_out, bak, has_backup, wst>> /\ sched = "REDUCE"
    BY <1>13 DEF ReduceTask
  <2>2. job.atype # "maponly"
    BY <2>1 DEF JobInv
  <2> QED BY <2>1, <2>2 DEF RowInv, Mapping
<1>14. CASE UNCHANGED vars
  BY <1>14 DEF vars, RowInv, Mapping
<1> QED
  BY <1>3, <1>4, <1>5, <1>6, <1>7, <1>8, <1>9, <1>10, <1>11, <1>12, <1>13, <1>14
     DEF Next, MainStep, WorkerStep, Exit

(* Pairs stay in the columns of their keys.                                *)
LEMMA PlaceStep ==
  ASSUME TypeOK, JobInv, SplitInv, RowInv, PlaceInv, [Next]_vars
  PROVE  PlaceInv'
<1> USE DEF ctl, fj, ps, store, backup, est, wrk
<1>1. /\ mapper \in [Lcpu -> [Col -> SUBSET Pair]] /\ bak \in [Lcpu -> [Col -> SUBSET Pair]]
  BY DEF TypeOK
<1>2. \A c \in Col : NoRow[c] = {} /\ \A w \in Lcpu : NoBkts[w][c] = {}
  BY DEF NoRow, NoBkts
<1>3. ASSUME NEW n \in SplitCounts, StartJob(n) PROVE PlaceInv'
  <2>1. mapper' = NoBkts /\ bak' = bak
    BY <1>3 DEF StartJob, StartMapOnly, StartFixed, StartSampled, KvstInit
  <2> QED BY <1>2, <2>1 DEF PlaceInv
<1>4. CASE SampleReturn
  <2>1. mapper' = NoBkts /\ bak' = mapper /\ map_cols = SampleCols
    BY <1>4 DEF SampleReturn, KvstInit, JobInv
  <2> QED BY <1>2, <2>1 DEF PlaceInv
<1>5. CASE RunTask \/ MapReturn \/ ReduceReturn \/ MergeReturn
  BY <1>5 DEF RunTask, MapReturn, ReduceReturn, MergeReturn, PlaceInv
<1>6. ASSUME NEW w \in Lcpu,
             \/ MapBegin(w) \/ ReduceBegin(w) \/ MergeBegin(w)
             \/ ClaimSplit(w) \/ ClaimColumn(w) \/ ReduceEnd(w) \/ MergeEnd(w)
      PROVE  PlaceInv'
  <2>1. UNCHANGED <<mapper, bak, map_cols>>
    BY <1>6 DEF MapBegin, ReduceBegin, MergeBegin, ClaimSplit, ClaimColumn, ReduceEnd, MergeEnd
  <2> QED BY <2>1 DEF PlaceInv
<1>7. ASSUME NEW row \in [Col -> SUBSET Pair], NEW pairs, NEW c \in Col,
             NEW p \in PutAll(row, pairs, map_cols)[c]
      PROVE  p \in row[c] \/ ColOf(p[1], map_cols) = c
  BY DEF PutAll
<1>8. ASSUME NEW w \in Lcpu, MapBeginRehash(w) PROVE PlaceInv'
  <2>1. /\ mapper' = [mapper EXCEPT ![w] = PutAll(mapper[w], PairsOf(bak[w]), map_cols)]
        /\ bak' = [bak EXCEPT ![w] = NoRow] /\ UNCHANGED map_cols
    BY <1>8 DEF MapBeginRehash
  <2> QED BY <1>1, <1>2, <1>7, <2>1 DEF PlaceInv
<1>9. ASSUME NEW w \in Lcpu, MapTask(w) PROVE PlaceInv'
  <2>1. /\ mapper' = [mapper EXCEPT ![w] =
                        PutAll(mapper[w], Emits[wtask[w]] \X {wtask[w]}, map_cols)]
        /\ UNCHANGED <<bak, map_cols>>
    BY <1>9 DEF MapTask
  <2> QED BY <1>1, <1>7, <2>1 DEF PlaceInv
<1>10. ASSUME NEW w \in Lcpu, MapEnd(w) \/ ReduceTask(w) PROVE PlaceInv'
  <2>1. /\ UNCHANGED <<bak, map_cols>>
        /\ \A v \in Lcpu : \A c \in Col : mapper'[v][c] \subseteq mapper[v][c]
    <3>1. CASE MapEnd(w)
      <4>1. mapper' = mapper \/ mapper' = [mapper EXCEPT ![w] = NoRow]
        BY <3>1 DEF MapEnd
      <4> QED BY <1>1, <1>2, <3>1, <4>1 DEF MapEnd
    <3>2. CASE ReduceTask(w)
      <4>1. /\ mapper' = [r \in Lcpu |-> [mapper[r] EXCEPT ![wtask[w]] = {}]]
            /\ UNCHANGED <<bak, map_cols>>
        BY <3>2 DEF ReduceTask
      <4> QED BY <1>1, <4>1
    <3> QED BY <1>10, <3>1, <3>2
  <2> QED BY <2>1 DEF PlaceInv
<1>11. CASE UNCHANGED vars
  BY <1>11 DEF vars, PlaceInv
<1> QED
  BY <1>3, <1>4, <1>5, <1>6, <1>8, <1>9, <1>10, <1>11 DEF Next, MainStep, WorkerStep, Exit

(* Where a row's pairs go: a rehash moves them within the row, the end of  *)
(* a map-only mapper too, and setting the sampled buckets aside.           *)
LEMMA RowMoves ==
  ASSUME TypeOK, PhaseInv, JobInv, RowInv, PlaceInv
  PROVE  /\ \A w \in Lcpu : MapBeginRehash(w) =>
              \A v \in Lcpu : RowPairs(v)' = RowPairs(v)
         /\ \A w \in Lcpu : MapEnd(w) =>
              \A v \in Lcpu : RowPairs(v)' = RowPairs(v)
         /\ SampleReturn => \A v \in Lcpu : RowPairs(v)' = RowPairs(v)
<1> USE DEF store, backup
<1>1. /\ mapper \in [Lcpu -> [Col -> SUBSET Pair]] /\ bak \in [Lcpu -> [Col -> SUBSET Pair]]
      /\ map_out \in [Lcpu -> SUBSET Pair] /\ map_cols \in 1 .. MaxCols
  BY DEF TypeOK
<1>2. ASSUME NEW w \in Lcpu, MapBeginRehash(w), NEW v \in Lcpu
      PROVE  RowPairs(v)' = RowPairs(v)
  <2>1. /\ mapper' = [mapper EXCEPT ![w] = PutAll(mapper[w], PairsOf(bak[w]), map_cols)]
        /\ bak' = [bak EXCEPT ![w] = NoRow] /\ UNCHANGED map_out
    BY <1>2 DEF MapBeginRehash
  <2>2. PairsOf(bak[w]) \in SUBSET Pair
    BY <1>1 DEF PairsOf
  <2>3. PairsOf(mapper'[w]) = PairsOf(mapper[w]) \cup PairsOf(bak[w]) /\ PairsOf(bak'[w]) = {}
    BY <1>1, <2>1, <2>2, PutAllPairs, NoRowPairs
  <2>4. v # w => mapper'[v] = mapper[v] /\ bak'[v] = bak[v]
    BY <1>1, <2>1
  <2> QED BY <2>1, <2>3, <2>4 DEF RowPairs
<1>3. ASSUME NEW w \in Lcpu, MapEnd(w), NEW v \in Lcpu
      PROVE  RowPairs(v)' = RowPairs(v)
  <2>1. CASE job.atype # "maponly"
    BY <1>3, <2>1 DEF MapEnd, RowPairs
  <2>2. CASE job.atype = "maponly"
    <3>1. /\ map_out' = [map_out EXCEPT ![w] = mapper[w][0]]
          /\ mapper' = [mapper EXCEPT ![w] = NoRow] /\ UNCHANGED bak
          /\ wst[w] = "running" /\ Mapping
      BY <1>3, <2>2 DEF MapEnd, FJ!End
    <3>2. \A k \in Key : ColOf(k, map_cols) = 0
      <4>1. map_cols = 1
        BY <2>2, <3>1 DEF JobInv, Mapping
      <4> QED BY <1>1, <4>1, ColOfType
    <3>3. \A c \in Col : mapper[w][c] # {} => c = 0
      BY <1>1, <3>2 DEF PlaceInv, Pair
    <3>4. 0 \in Col
      BY MRAssumption DEF Col
    <3>5. PairsOf(mapper[w]) = mapper[w][0]
      BY <3>3, <3>4 DEF PairsOf
    <3>6. map_out[w] = {} /\ map_out'[w] = mapper[w][0] /\ PairsOf(mapper'[w]) = {}
      BY <1>1, <3>1, NoRowPairs DEF RowInv
    <3>7. v # w => mapper'[v] = mapper[v] /\ map_out'[v] = map_out[v]
      BY <1>1, <3>1
    <3> QED BY <3>1, <3>5, <3>6, <3>7 DEF RowPairs
  <2> QED BY <2>1, <2>2
<1>4. ASSUME SampleReturn, NEW v \in Lcpu PROVE RowPairs(v)' = RowPairs(v)
  <2>1. mapper' = NoBkts /\ bak' = mapper /\ map_out' = [r \in Lcpu |-> {}] /\ sched = "SAMPLE"
    BY <1>4 DEF SampleReturn, KvstInit
  <2>2. mapper'[v] = NoRow /\ map_out'[v] = {} /\ bak'[v] = mapper[v]
    BY <2>1 DEF NoBkts
  <2>3. bak[v] = NoRow
    BY <2>1 DEF RowInv
  <2>4. map_out[v] = {}
    BY <2>1 DEF RowInv, JobInv
  <2> QED BY <2>2, <2>3, <2>4, NoRowPairs DEF RowPairs
<1> QED BY <1>2, <1>3, <1>4

(* A map task emits pairs that nobody has emitted before, into its row.    *)
LEMMA MapTaskPairs ==
  ASSUME TypeOK, SplitInv, NEW w \in Lcpu, MapTask(w)
  PROVE  /\ wtask[w] \in Split
         /\ Emitted \cap (Emits[wtask[w]] \X {wtask[w]}) = {}
         /\ Emitted' = Emitted \cup (Emits[wtask[w]] \X {wtask[w]})
         /\ RowPairs(w)' = RowPairs(w) \cup (Emits[wtask[w]] \X {wtask[w]})
         /\ \A v \in Lcpu : v # w => RowPairs(v)' = RowPairs(v)
<1> USE DEF store, backup
<1>1. /\ mapper \in [Lcpu -> [Col -> SUBSET Pair]] /\ nmapped \in [Split -> Nat]
      /\ map_cols \in 1 .. MaxCols /\ MaxSplits \in Nat
      /\ Emits \in [Split -> SUBSET Key]
  BY MRAssumption DEF TypeOK
<1> DEFINE s == wtask[w]
           new == Emits[s] \X {s}
<1>2. /\ wpc[w] = "map" /\ UNCHANGED <<bak, map_out>>
      /\ mapper' = [mapper EXCEPT ![w] = PutAll(mapper[w], new, map_cols)]
      /\ nmapped' = [nmapped EXCEPT ![s] = @ + 1]
  BY DEF MapTask
<1>3. s \in Split /\ s < nsplits
  BY <1>1, <1>2, MRAssumption DEF SplitInv, TypeOK, Split, Col
<1>4. nmapped[s] = 0
  BY <1>2, <1>3 DEF SplitInv, Held
<1>5. new \in SUBSET Pair
  BY <1>1, <1>3 DEF Pair
<1>6. \A p \in Pair : p \in new <=> p[2] = s /\ p[1] \in Emits[s]
  BY DEF Pair
<1>7. nmapped'[s] = 1 /\ \A r \in Split : r # s => nmapped'[r] = nmapped[r]
  BY <1>1, <1>2, <1>3, <1>4
<1>8. Emitted \cap new = {}
  BY <1>4, <1>6 DEF Emitted
<1>9. Emitted' = Emitted \cup new
  <2>1. \A p \in Pair : p \in Emitted' <=> p \in Emitted \/ p \in new
    <3>1. \A p \in Pair : p[2] \in Split
      BY DEF Pair
    <3> HIDE DEF new, s
    <3> QED BY <1>4, <1>6, <1>7, <3>1 DEF Emitted
  <2> HIDE DEF new
  <2> QED BY <1>5, <2>1 DEF Emitted
<1>10. RowPairs(w)' = RowPairs(w) \cup new
  <2>1. mapper'[w] = PutAll(mapper[w], new, map_cols)
    BY <1>1, <1>2
  <2>2. PairsOf(mapper'[w]) = PairsOf(mapper[w]) \cup new
    <3> HIDE DEF new
    <3> QED BY <1>1, <1>5, <2>1, PutAllPairs
  <2> HIDE DEF new
  <2> QED BY <1>2, <2>2 DEF RowPairs
<1>11. \A v \in Lcpu : v # w => RowPairs(v)' = RowPairs(v)
  BY <1>1, <1>2 DEF RowPairs
<1> QED BY <1>3, <1>8, <1>9, <1>10, <1>11

(* No pair comes to be in two rows.                                        *)
LEMMA DisjointStep ==
  ASSUME TypeOK, PhaseInv, JobInv, SplitInv, RowInv, PlaceInv, DisjointInv, StoreInv, [Next]_vars
  PROVE  DisjointInv'
<1> USE DEF ctl, fj, ps, store, backup, est, wrk
<1>1. ASSUME \A v \in Lcpu : RowPairs(v)' \subseteq RowPairs(v) PROVE DisjointInv'
  BY <1>1 DEF DisjointInv
<1>2. ASSUME NEW n \in SplitCounts, StartJob(n) PROVE DisjointInv'
  <2>1. mapper' = NoBkts /\ map_out' = [r \in Lcpu |-> {}] /\ bak' = bak
    BY <1>2 DEF StartJob, StartMapOnly, StartFixed, StartSampled, KvstInit
  <2>2. \A v \in Lcpu : PairsOf(mapper'[v]) = {} /\ map_out'[v] = {}
    BY <2>1, NoRowPairs DEF NoBkts
  <2> QED BY <1>1, <2>1, <2>2 DEF RowPairs
<1>3. CASE SampleReturn
  BY <1>1, <1>3, RowMoves
<1>4. CASE RunTask \/ MapReturn \/ ReduceReturn \/ MergeReturn
  BY <1>4 DEF RunTask, MapReturn, ReduceReturn, MergeReturn, DisjointInv, RowPairs
<1>5. ASSUME NEW w \in Lcpu,
             \/ MapBegin(w) \/ ReduceBegin(w) \/ MergeBegin(w)
             \/ ClaimSplit(w) \/ ClaimColumn(w) \/ ReduceEnd(w) \/ MergeEnd(w)
      PROVE  DisjointInv'
  <2>1. UNCHANGED <<mapper, bak, map_out>>
    BY <1>5 DEF MapBegin, ReduceBegin, MergeBegin, ClaimSplit, ClaimColumn, ReduceEnd, MergeEnd
  <2> QED BY <2>1 DEF DisjointInv, RowPairs
<1>6. ASSUME NEW w \in Lcpu, MapBeginRehash(w) \/ MapEnd(w) PROVE DisjointInv'
  BY <1>1, <1>6, RowMoves
<1>7. ASSUME NEW w \in Lcpu, MapTask(w) PROVE DisjointInv'
  <2>1. \A v \in Lcpu : RowPairs(v) \subseteq Emitted
    BY <1>7 DEF MapTask, StoreInv
  <2> QED BY <1>7, <2>1, MapTaskPairs DEF DisjointInv
<1>8. ASSUME NEW w \in Lcpu, ReduceTask(w) PROVE DisjointInv'
  <2>1. /\ mapper' = [r \in Lcpu |-> [mapper[r] EXCEPT ![wtask[w]] = {}]]
        /\ UNCHANGED <<bak, map_out>>
    BY <1>8 DEF ReduceTask
  <2>2. \A v \in Lcpu : \A c \in Col : mapper'[v][c] \subseteq mapper[v][c]
    BY <2>1 DEF TypeOK
  <2>3. \A v \in Lcpu : PairsOf(mapper'[v]) \subseteq PairsOf(mapper[v])
    BY <2>2 DEF PairsOf
  <2> QED BY <1>1, <2>1, <2>3 DEF RowPairs
<1>9. CASE UNCHANGED vars
  BY <1>9 DEF vars, DisjointInv, RowPairs
<1> QED
  BY <1>2, <1>3, <1>4, <1>5, <1>6, <1>7, <1>8, <1>9 DEF Next, MainStep, WorkerStep, Exit

(* The store in each phase: what the steps of mappers do to it.            *)
LEMMA StoreMapStep ==
  ASSUME IInv, NEW w \in Lcpu,
         MapBegin(w) \/ MapBeginRehash(w) \/ ClaimSplit(w) \/ MapTask(w) \/ MapEnd(w)
  PROVE  StoreInv'
<1> USE DEF IInv, ctl, fj, ps, store, backup, est, wrk
<1>1. Mapping /\ UNCHANGED <<sched, job, rbkts>>
  BY DEF MapBegin, MapBeginRehash, ClaimSplit, MapTask, MapEnd
<1>2. SUFFICES Emitted' = UNION {RowPairs(v)' : v \in Lcpu}
  BY <1>1 DEF StoreInv, Mapping
<1>3. Emitted = UNION {RowPairs(v) : v \in Lcpu}
  BY <1>1 DEF StoreInv
<1>4. CASE MapTask(w)
  BY <1>3, <1>4, MapTaskPairs
<1>5. CASE MapBegin(w) \/ MapBeginRehash(w) \/ ClaimSplit(w) \/ MapEnd(w)
  <2>1. Emitted' = Emitted
    BY <1>5 DEF MapBegin, MapBeginRehash, ClaimSplit, MapEnd, Emitted
  <2>2. \A v \in Lcpu : RowPairs(v)' = RowPairs(v)
    BY <1>5, RowMoves DEF MapBegin, ClaimSplit, RowPairs
  <2> QED BY <1>3, <2>1, <2>2
<1> QED BY <1>4, <1>5

(* The columns a reducer has claimed are whole, those it has done are gone.*)
LEMMA StoreReduceStep ==
  ASSUME IInv, NEW w \in Lcpu,
         ReduceBegin(w) \/ ClaimColumn(w) \/ ReduceTask(w) \/ ReduceEnd(w)
  PROVE  StoreInv'
<1> USE DEF IInv, ctl, fj, ps, store, backup, est, wrk
<1>1. sched = "REDUCE" /\ UNCHANGED <<sched, job, nmapped, map_cols, inphase, tasks>>
  BY DEF ReduceBegin, ClaimColumn, ReduceTask, ReduceEnd, FJ!Begin, FJ!End
<1>2. Emitted' = Emitted /\ \A c \in Col : EmittedTo(c)' = EmittedTo(c)
  BY <1>1 DEF Emitted, EmittedTo
<1>3. /\ task_pos \in Nat /\ tasks \in Nat /\ Col \subseteq Nat
      /\ wpc \in [Lcpu -> WorkerPc] /\ wtask \in [Lcpu -> Split \cup Col]
      /\ mapper \in [Lcpu -> [Col -> SUBSET Pair]] /\ rbkts \in [Col -> SUBSET Rec]
      /\ \A v \in Lcpu : wtask[v] \in Nat
  BY MRAssumption DEF TypeOK, Split, Col
<1>4. inphase
  BY <1>1, <1>3 DEF PhaseInv, ReduceBegin, ClaimColumn, ReduceTask, ReduceEnd, FJ!Begin, FJ!End
<1>5. SUFFICES ASSUME NEW c \in Col
               PROVE  IF Reduced(c)'
                      THEN rbkts'[c] = GroupByKey(EmittedTo(c)) /\ ColumnPairs(c)' = {}
                      ELSE rbkts'[c] = {} /\ ColumnPairs(c)' = EmittedTo(c)
  BY <1>1, <1>2, <1>4 DEF StoreInv, Mapping, GroupByKey
<1>6. IF Reduced(c)
      THEN rbkts[c] = GroupByKey(EmittedTo(c)) /\ ColumnPairs(c) = {}
      ELSE rbkts[c] = {} /\ ColumnPairs(c) = EmittedTo(c)
  BY <1>1, <1>4 DEF StoreInv
<1>7. CASE ReduceBegin(w) \/ ReduceEnd(w)
  <2>1. UNCHANGED <<rbkts, mapper, task_pos, wtask>>
    BY <1>7 DEF ReduceBegin, ReduceEnd
  <2>2. \A v \in Lcpu : (wpc'[v] = "reduce") = (wpc[v] = "reduce")
    <3>1. wpc[w] # "reduce"
      BY <1>7 DEF ReduceBegin, ReduceEnd, FJ!Begin, PhaseInv
    <3>2. wpc' = [wpc EXCEPT ![w] = "claim"] \/ wpc' = [wpc EXCEPT ![w] = "out"]
      BY <1>7 DEF ReduceBegin, ReduceEnd
    <3> QED BY <1>3, <3>1, <3>2
  <2>3. Reduced(c)' = Reduced(c) /\ ColumnPairs(c)' = ColumnPairs(c)
    BY <1>1, <2>1, <2>2 DEF Reduced, ColumnPairs
  <2> QED BY <1>6, <2>1, <2>3
<1>8. CASE ClaimColumn(w)
  <2>1. UNCHANGED <<rbkts, mapper>> /\ task_pos' = task_pos + 1 /\ wpc[w] = "claim"
    BY <1>8 DEF ClaimColumn
  <2>2. ColumnPairs(c)' = ColumnPairs(c)
    BY <2>1 DEF ColumnPairs
  <2>3. Reduced(c)' = Reduced(c)
    <3>1. CASE task_pos >= tasks
      <4>1. wpc' = [wpc EXCEPT ![w] = "finish"] /\ wtask' = wtask
        BY <1>3, <1>8, <3>1 DEF ClaimColumn
      <4>2. \A v \in Lcpu : (wpc'[v] = "reduce") = (wpc[v] = "reduce")
        BY <1>3, <2>1, <4>1
      <4>3. c < tasks => c < task_pos /\ c < task_pos + 1
        BY <1>3, <3>1
      <4> QED BY <1>1, <2>1, <4>1, <4>2, <4>3 DEF Reduced
    <3>2. CASE task_pos < tasks
      <4>1. wpc' = [wpc EXCEPT ![w] = "reduce"] /\ wtask' = [wtask EXCEPT ![w] = task_pos]
        BY <1>3, <1>8, <3>2 DEF ClaimColumn
      <4>2. /\ wpc'[w] = "reduce" /\ wtask'[w] = task_pos
            /\ \A v \in Lcpu : v # w => wpc'[v] = wpc[v] /\ wtask'[v] = wtask[v]
        BY <1>3, <4>1
      <4>3. (\A v \in Lcpu : wpc'[v] = "reduce" => wtask'[v] # c)
              <=> (c # task_pos /\ \A v \in Lcpu : wpc[v] = "reduce" => wtask[v] # c)
        BY <2>1, <4>2
      <4>4. CASE c = task_pos
        BY <1>3, <3>2, <4>3, <4>4 DEF Reduced
      <4>5. CASE c # task_pos
        <5>1. c < task_pos + 1 <=> c < task_pos
          BY <1>3, <4>5
        <5> QED BY <1>1, <2>1, <4>3, <4>5, <5>1 DEF Reduced
      <4> QED BY <4>4, <4>5
    <3> QED BY <1>3, <3>1, <3>2
  <2> QED BY <1>6, <2>1, <2>2, <2>3
<1>9. CASE ReduceTask(w)
  <2> DEFINE d == wtask[w]
  <2>1. /\ wpc[w] = "reduce" /\ wpc' = [wpc EXCEPT ![w] = "claim"] /\ UNCHANGED <<task_pos, wtask>>
        /\ rbkts' = [rbkts EXCEPT ![d] = @ \cup GroupByKey(ColumnPairs(d))]
        /\ mapper' = [r \in Lcpu |-> [mapper[r] EXCEPT ![d] = {}]]
    BY <1>9 DEF ReduceTask
  <2>2. d \in Col /\ d < task_pos
    BY <1>3, <2>1, MRAssumption DEF ColumnInv, TypeOK, Col
  <2>3. \A v \in Lcpu : v # w /\ wpc[v] = "reduce" => wtask[v] # d
    BY <2>1 DEF ColumnInv
  <2>4. /\ wpc'[w] # "reduce" /\ \A v \in Lcpu : v # w => wpc'[v] = wpc[v]
    BY <1>3, <2>1
  <2>5. CASE c = d
    <3>1. ~Reduced(c) /\ Reduced(c)'
      BY <1>1, <2>1, <2>2, <2>3, <2>4, <2>5 DEF Reduced
    <3>2. rbkts'[c] = GroupByKey(EmittedTo(c))
      BY <1>3, <1>6, <2>1, <2>2, <2>5, <3>1
    <3>3. ColumnPairs(c)' = {}
      BY <1>3, <2>1, <2>2, <2>5 DEF ColumnPairs
    <3> QED BY <3>1, <3>2, <3>3
  <2>6. CASE c # d
    <3>1. Reduced(c)' = Reduced(c)
      BY <1>1, <2>1, <2>4, <2>6 DEF Reduced
    <3>2. rbkts'[c] = rbkts[c]
      BY <1>3, <2>1, <2>6
    <3>3. ColumnPairs(c)' = ColumnPairs(c)
      BY <1>3, <2>1, <2>6 DEF ColumnPairs
    <3> QED BY <1>6, <3>1, <3>2, <3>3
  <2> QED BY <2>5, <2>6
<1> QED BY <1>7, <1>8, <1>9

(* The merge leaves the records of all columns in the first bucket.        *)
LEMMA StoreMergeStep ==
  ASSUME IInv, NEW w \in Lcpu, MergeBegin(w) \/ MergeEnd(w)
  PROVE  StoreInv'
<1> USE DEF IInv, ctl, fj, ps, store, backup, est, wrk
<1>1. sched = "MERGE" /\ UNCHANGED <<sched, job, nmapped, map_cols, mapper, bak, map_out>>
  BY DEF MergeBegin, MergeEnd
<1>2. /\ Emitted' = Emitted /\ \A c \in Col : EmittedTo(c)' = EmittedTo(c)
      /\ \A v \in Lcpu : RowPairs(v)' = RowPairs(v)
  BY <1>1 DEF Emitted, EmittedTo, RowPairs
<1>3. /\ wst \in [Lcpu -> FJ!WorkerState] /\ rbkts \in [Col -> SUBSET Rec] /\ 0 \in Lcpu /\ 0 \in Col
  BY MRAssumption DEF TypeOK, FJ!FJTypeOK, Lcpu, Col
<1>4. CASE MergeBegin(w)
  <2>1. rbkts' = rbkts /\ wst[w] = "todo" /\ wst' = [wst EXCEPT ![w] = "running"]
    BY <1>4 DEF MergeBegin, FJ!Begin
  <2>2. (wst'[0] = "done") = (wst[0] = "done")
    BY <1>3, <2>1
  <2> QED BY <1>1, <1>2, <2>1, <2>2 DEF StoreInv, Mapping, GroupByKey
<1>5. CASE MergeEnd(w) /\ w # 0
  <2>1. rbkts' = rbkts /\ wst[w] = "running" /\ wst' = [wst EXCEPT ![w] = "done"]
    BY <1>5 DEF MergeEnd, FJ!End
  <2>2. (wst'[0] = "done") = (wst[0] = "done")
    BY <1>3, <1>5, <2>1
  <2> QED BY <1>1, <1>2, <2>1, <2>2 DEF StoreInv, Mapping, GroupByKey
<1>6. CASE MergeEnd(w) /\ w = 0
  <2>1. /\ wst[0] = "running" /\ wst' = [wst EXCEPT ![0] = "done"]
        /\ rbkts' = [c \in Col |-> IF c = 0 THEN UNION {rbkts[d] : d \in Col} ELSE {}]
    BY <1>6 DEF MergeEnd, FJ!End
  <2>2. wst[0] # "done" /\ wst'[0] = "done"
    BY <1>3, <2>1
  <2>3. CASE job.atype = "maponly"
    <3>1. \A d \in Col : rbkts[d] = {}
      BY <1>1, <2>3 DEF StoreInv, NoRbkts
    <3>2. rbkts' = NoRbkts
      BY <2>1, <3>1 DEF NoRbkts
    <3> QED BY <1>1, <1>2, <2>3, <3>2 DEF StoreInv, Mapping
  <2>4. CASE job.atype = "mapgr"
    <3>1. UNION {rbkts[d] : d \in Col} = UNION {GroupByKey(EmittedTo(d)) : d \in Col}
      BY <1>1, <2>2, <2>4 DEF StoreInv
    <3>2. UNION {rbkts[d] : d \in Col} = GroupByKey(Emitted)
      BY <3>1, GroupColumns
    <3>3. rbkts' = [c \in Col |-> IF c = 0 THEN GroupByKey(Emitted') ELSE {}]
      BY <1>2, <2>1, <3>2
    <3> QED BY <1>1, <2>2, <2>4, <3>3 DEF StoreInv, Mapping, GroupByKey
  <2> QED BY <2>3, <2>4 DEF TypeOK, Job
<1> QED BY <1>4, <1>5, <1>6

(* The scheduler moves from phase to phase when their work is done.        *)
LEMMA StoreMainStep ==
  ASSUME IInv, (\E n \in SplitCounts : StartJob(n)) \/ MainStep
  PROVE  StoreInv'
<1> USE DEF IInv, ctl, fj, ps, store, backup, est, wrk
<1>1. ASSUME NEW n \in SplitCounts, StartJob(n) PROVE StoreInv'
  <2>1. /\ nmapped' = [s \in Split |-> 0] /\ sched = "idle" /\ bak' = bak
        /\ mapper' = NoBkts /\ map_out' = [r \in Lcpu |-> {}]
        /\ sched' \in {"SAMPLE", "MAP"} /\ (sched' = "MAP" => rbkts' = NoRbkts)
    BY <1>1 DEF StartJob, StartMapOnly, StartFixed, StartSampled, NextJob, KvstInit
  <2>2. Emitted' = {}
    BY <2>1 DEF Emitted, Pair
  <2>3. \A v \in Lcpu : RowPairs(v)' = {}
    <3>1. \A v \in Lcpu : mapper'[v] = NoRow /\ bak'[v] = NoRow /\ map_out'[v] = {}
      BY <2>1 DEF NoBkts, RowInv
    <3> QED BY <3>1, NoRowPairs DEF RowPairs
  <2> QED BY <2>1, <2>2, <2>3 DEF StoreInv, Mapping
<1>2. CASE RunTask
  <2>1. /\ UNCHANGED <<sched, job, nmapped, map_cols, mapper, bak, map_out, rbkts, tasks, wpc, wtask>>
        /\ wst' = [l \in Lcpu |-> "todo"] /\ ~inphase /\ task_pos' = 0 /\ sched # "idle"
    BY <1>2 DEF RunTask, FJ!Fork
  <2>2. /\ Emitted' = Emitted /\ \A c \in Col : EmittedTo(c)' = EmittedTo(c) /\ ColumnPairs(c)' = ColumnPairs(c)
        /\ \A v \in Lcpu : RowPairs(v)' = RowPairs(v)
    BY <2>1 DEF Emitted, EmittedTo, RowPairs, ColumnPairs
  <2>3. 0 \in Lcpu /\ wst[0] # "done" /\ wst'[0] # "done"
    BY <2>1, MRAssumption DEF Lcpu, PhaseInv
  <2>4. ASSUME sched = "REDUCE", NEW c \in Col
        PROVE  IF Reduced(c)'
               THEN rbkts'[c] = GroupByKey(EmittedTo(c)) /\ ColumnPairs(c)' = {}
               ELSE rbkts'[c] = {} /\ ColumnPairs(c)' = EmittedTo(c)
    <3>1. rbkts[c] = {} /\ ColumnPairs(c) = EmittedTo(c)
      BY <2>1, <2>4 DEF StoreInv
    <3>2. CASE Reduced(c)'
      <4>1. ~(c < tasks) /\ c \in Nat /\ tasks \in Nat
        BY <2>1, <3>2, MRAssumption DEF Reduced, Col, TypeOK
      <4>2. tasks = map_cols /\ map_cols \in 1 .. MaxCols
        BY <2>4 DEF JobInv, TypeOK
      <4>3. \A k \in Key : ColOf(k, map_cols) # c
        BY <4>1, <4>2, ColOfType
      <4>4. EmittedTo(c) = {}
        BY <4>3 DEF EmittedTo, Emitted, Pair
      <4>5. GroupByKey(EmittedTo(c)) = {}
        BY <4>4 DEF GroupByKey
      <4> QED BY <2>1, <2>2, <3>1, <3>2, <4>4, <4>5
    <3>3. CASE ~Reduced(c)'
      BY <2>1, <2>2, <3>1, <3>3
    <3> QED BY <3>2, <3>3
  <2> QED BY <2>1, <2>2, <2>3, <2>4 DEF StoreInv, Mapping, GroupByKey
<1>3. CASE SampleReturn
  <2>1. /\ Emitted' = Emitted /\ rbkts' = NoRbkts /\ sched = "SAMPLE" /\ sched' = "MAP"
    BY <1>3 DEF SampleReturn, KvstInit, Emitted
  <2>2. \A v \in Lcpu : RowPairs(v)' = RowPairs(v)
    BY <1>3, RowMoves
  <2> QED BY <2>1, <2>2 DEF StoreInv, Mapping
<1>4. CASE MapReturn
  <2>1. /\ UNCHANGED <<job, nmapped, map_cols, mapper, bak, map_out, rbkts, tasks>>
        /\ sched = "MAP" /\ ~inphase'
        /\ sched' = IF job.atype = "maponly" THEN "MERGE" ELSE "REDUCE"
    BY <1>4 DEF MapReturn, FJ!Join
  <2>2. /\ Emitted' = Emitted /\ \A c \in Col : EmittedTo(c)' = EmittedTo(c) /\ ColumnPairs(c)' = ColumnPairs(c)
        /\ \A v \in Lcpu : RowPairs(v)' = RowPairs(v)
    BY <2>1 DEF Emitted, EmittedTo, RowPairs, ColumnPairs
  <2>3. rbkts = NoRbkts /\ Emitted = UNION {RowPairs(v) : v \in Lcpu}
    BY <2>1 DEF StoreInv, Mapping
  <2>4. CASE job.atype = "maponly"
    BY <2>1, <2>2, <2>3, <2>4 DEF StoreInv, Mapping
  <2>5. CASE job.atype # "maponly"
    <3>1. \A v \in Lcpu : wst[v] = "done"
      BY <1>4, JoinFacts DEF MapReturn
    <3>2. \A v \in Lcpu : bak[v] = NoRow /\ map_out[v] = {}
      BY <2>1, <2>5, <3>1 DEF RowInv
    <3>3. \A v \in Lcpu : RowPairs(v) = PairsOf(mapper[v])
      BY <3>2, NoRowPairs DEF RowPairs
    <3>4. \A c \in Col : ColumnPairs(c) = EmittedTo(c)
      <4> SUFFICES ASSUME NEW c \in Col PROVE ColumnPairs(c) = EmittedTo(c)
        OBVIOUS
      <4>1. ASSUME NEW p \in ColumnPairs(c) PROVE p \in EmittedTo(c)
        <5>1. PICK v \in Lcpu : p \in mapper[v][c]
          BY <4>1 DEF ColumnPairs
        <5>2. p \in PairsOf(mapper[v]) /\ ColOf(p[1], map_cols) = c
          BY <5>1 DEF PairsOf, PlaceInv
        <5> QED BY <2>3, <3>3, <5>2 DEF EmittedTo
      <4>2. ASSUME NEW p \in EmittedTo(c) PROVE p \in ColumnPairs(c)
        <5>1. p \in Emitted /\ ColOf(p[1], map_cols) = c
          BY DEF EmittedTo
        <5>2. PICK v \in Lcpu : p \in PairsOf(mapper[v])
          BY <2>3, <3>3, <5>1
        <5>3. PICK d \in Col : p \in mapper[v][d]
          BY <5>2 DEF PairsOf
        <5>4. d = c
          BY <5>1, <5>3 DEF PlaceInv
        <5> QED BY <5>3, <5>4 DEF ColumnPairs
      <4> QED BY <4>1, <4>2
    <3>5. \A c \in Col : rbkts[c] = {}
      BY <2>3 DEF NoRbkts
    <3> QED BY <2>1, <2>2, <2>5, <3>4, <3>5 DEF StoreInv, Mapping
  <2> QED BY <2>4, <2>5
<1>5. CASE ReduceReturn
  <2>1. /\ UNCHANGED <<job, nmapped, map_cols, mapper, bak, map_out, rbkts, tasks>>
        /\ sched = "REDUCE" /\ sched' = "MERGE" /\ inphase
        /\ \A v \in Lcpu : wst'[v] = "none"
        /\ \A c \in Col : Reduced(c)
        /\ 0 \in Lcpu
    BY <1>5, JoinFacts DEF ReduceReturn
  <2>2. /\ Emitted' = Emitted /\ \A c \in Col : EmittedTo(c)' = EmittedTo(c)
    BY <2>1 DEF Emitted, EmittedTo
  <2>3. \A c \in Col : rbkts[c] = GroupByKey(EmittedTo(c))
    BY <2>1 DEF StoreInv
  <2>4. job.atype = "mapgr"
    BY <2>1 DEF JobInv
  <2> QED BY <2>1, <2>2, <2>3, <2>4 DEF StoreInv, Mapping, GroupByKey
<1>6. CASE MergeReturn
  <2>1. /\ UNCHANGED <<job, nmapped, nsplits>> /\ sched = "MERGE" /\ sched' = "idle"
        /\ results' = rbkts[0] /\ 0 \in Lcpu /\ wst[0] = "done"
    BY <1>6, JoinFacts DEF MergeReturn
  <2>2. Emitted' = Emitted
    BY <2>1 DEF Emitted
  <2>3. job.atype = "mapgr" => rbkts[0] = GroupByKey(Emitted)
    <3>1. 0 \in Col
      BY MRAssumption DEF Col
    <3> QED BY <2>1, <3>1 DEF StoreInv
  <2> QED BY <2>1, <2>2, <2>3 DEF StoreInv, Mapping, GroupByKey
<1> QED BY <1>1, <1>2, <1>3, <1>4, <1>5, <1>6 DEF MainStep

(* Whoever maps a sampled split counts it.                                 *)
LEMMA SampleStep ==
  ASSUME TypeOK, JobInv, SampleInv, [Next]_vars
  PROVE  SampleInv'
<1> USE DEF SampleInv, ctl, fj, ps, store, backup, est, wrk
<1>1. ASSUME NEW n \in SplitCounts, StartJob(n) PROVE SampleInv'
  BY <1>1 DEF StartJob, StartMapOnly, StartFixed, StartSampled, NextJob
<1>2. CASE RunTask
  BY <1>2 DEF RunTask
<1>3. CASE SampleReturn \/ MapReturn \/ ReduceReturn \/ MergeReturn
  BY <1>3 DEF SampleReturn, MapReturn, ReduceReturn, MergeReturn
<1>4. ASSUME NEW w \in Lcpu, MapTask(w) PROVE SampleInv'
  <2>1. sched' = sched /\ bsampling' = bsampling
    BY <1>4 DEF MapTask
  <2>2. bsampling => nfinished'[w] = nfinished[w] + 1 /\ nfinished[w] \in Nat
    BY <1>4 DEF MapTask, TypeOK
  <2>3. sched = "SAMPLE" => nfinished'[w] > 0
    BY <2>2 DEF JobInv
  <2> QED BY <2>1, <2>3
<1>5. ASSUME NEW w \in Lcpu,
             \/ MapBegin(w) \/ MapBeginRehash(w) \/ ClaimSplit(w) \/ MapEnd(w)
             \/ ReduceBegin(w) \/ ClaimColumn(w) \/ ReduceTask(w) \/ ReduceEnd(w)
             \/ MergeBegin(w) \/ MergeEnd(w)
      PROVE  SampleInv'
  <2>1. UNCHANGED <<sched, nmapped, nfinished>>
    BY <1>5 DEF MapBegin, MapBeginRehash, ClaimSplit, MapEnd, ReduceBegin,
                ClaimColumn, ReduceTask, ReduceEnd, MergeBegin, MergeEnd
  <2> QED BY <2>1
<1>6. CASE UNCHANGED vars
  BY <1>6 DEF vars
<1> QED
  BY <1>1, <1>2, <1>3, <1>4, <1>5, <1>6 DEF Next, MainStep, WorkerStep, Exit

(* Of the records of some pairs, those of a key are one: it has the values *)
(* of the key's pairs, and there is one only if there is a pair.           *)
LEMMA GroupRecords ==
  ASSUME NEW pairs \in SUBSET Pair
  PROVE  /\ \A x \in GroupByKey(pairs) :
              /\ x.key \in Key /\ \E s \in Split : <<x.key, s>> \in pairs
              /\ \A s \in Split : s \in x.vals <=> <<x.key, s>> \in pairs
         /\ \A x, y \in GroupByKey(pairs) : x.key = y.key => x = y
         /\ \A p \in pairs : \E x \in GroupByKey(pairs) : x.key = p[1] /\ p[2] \in x.vals
<1>1. \A p \in pairs : p[1] \in Key /\ p[2] \in Split /\ p = <<p[1], p[2]>>
  BY DEF Pair
<1>2. ASSUME NEW x \in GroupByKey(pairs)
      PROVE  \E p \in pairs :
               x = [key |-> p[1], vals |-> {s \in Split : <<p[1], s>> \in pairs}]
  BY DEF GroupByKey
<1>3. ASSUME NEW p \in pairs
      PROVE  [key |-> p[1], vals |-> {s \in Split : <<p[1], s>> \in pairs}] \in GroupByKey(pairs)
  BY DEF GroupByKey
<1>4. \A x \in GroupByKey(pairs) :
         /\ x.key \in Key /\ \E s \in Split : <<x.key, s>> \in pairs
         /\ \A s \in Split : s \in x.vals <=> <<x.key, s>> \in pairs
  BY <1>1, <1>2
<1>5. ASSUME NEW x \in GroupByKey(pairs), NEW y \in GroupByKey(pairs), x.key = y.key
      PROVE  x = y
  <2>1. PICK p \in pairs :
          x = [key |-> p[1], vals |-> {s \in Split : <<p[1], s>> \in pairs}]
    BY <1>2
  <2>2. PICK q \in pairs :
          y = [key |-> q[1], vals |-> {s \in Split : <<q[1], s>> \in pairs}]
    BY <1>2
  <2>3. p[1] = q[1]
    BY <1>5, <2>1, <2>2
  <2> QED BY <2>1, <2>2, <2>3
<1>6. \A p \in pairs : \E x \in GroupByKey(pairs) : x.key = p[1] /\ p[2] \in x.vals
  BY <1>1, <1>3
<1> QED BY <1>4, <1>5, <1>6

(* A record in the reduce buckets is of the emitted pairs of its key, and  *)
(* the only one of its key.                                                *)
LEMMA Records ==
  ASSUME TypeOK, StoreInv, sched \in {"MAP", "REDUCE", "MERGE"}
  PROVE  /\ KeysGrouped
         /\ \A p \in Pair : InRec(p) # {} => p \in Emitted
<1>1. /\ Emitted \in SUBSET Pair
      /\ \A c \in Col : EmittedTo(c) \in SUBSET Pair
  BY GroupColumns
<1>2. \A c \in Col : EmittedTo(c) \subseteq Emitted
  BY DEF EmittedTo
<1>3. CASE \A c \in Col : rbkts[c] = {} \/ rbkts[c] = GroupByKey(EmittedTo(c))
  <2>1. ASSUME NEW c \in Col, NEW x \in rbkts[c]
        PROVE  /\ x \in GroupByKey(EmittedTo(c)) /\ x.key \in Key
               /\ ColOf(x.key, map_cols) = c
               /\ \A s \in Split : s \in x.vals <=> <<x.key, s>> \in EmittedTo(c)
    <3>1. x \in GroupByKey(EmittedTo(c))
      BY <1>3
    <3>2. /\ x.key \in Key /\ \E s \in Split : <<x.key, s>> \in EmittedTo(c)
          /\ \A s \in Split : s \in x.vals <=> <<x.key, s>> \in EmittedTo(c)
      BY <1>1, <3>1, GroupRecords
    <3> QED BY <3>1, <3>2 DEF EmittedTo
  <2>2. KeysGrouped
    <3> SUFFICES ASSUME NEW c \in Col, NEW d \in Col, NEW x \in rbkts[c], NEW y \in rbkts[d],
                        x.key = y.key
                 PROVE  c = d /\ x = y
      BY DEF KeysGrouped
    <3>1. c = d
      BY <2>1
    <3> QED BY <1>1, <2>1, <3>1, GroupRecords
  <2>3. ASSUME NEW p \in Pair, InRec(p) # {} PROVE p \in Emitted
    <3>1. PICK c \in Col : \E x \in rbkts[c] : x.key = p[1] /\ p[2] \in x.vals
      BY <2>3 DEF InRec
    <3>2. PICK x \in rbkts[c] : x.key = p[1] /\ p[2] \in x.vals
      BY <3>1
    <3>3. <<x.key, p[2]>> \in EmittedTo(c)
      BY <2>1, <3>2 DEF Pair
    <3>4. p = <<p[1], p[2]>>
      BY DEF Pair
    <3> QED BY <1>2, <3>2, <3>3, <3>4
  <2> QED BY <2>2, <2>3
<1>4. CASE rbkts = [c \in Col |-> IF c = 0 THEN GroupByKey(Emitted) ELSE {}]
  <2>1. ASSUME NEW c \in Col, NEW x \in rbkts[c] PROVE c = 0 /\ x \in GroupByKey(Emitted)
    BY <1>4, <2>1
  <2>2. KeysGrouped
    BY <1>1, <2>1, GroupRecords DEF KeysGrouped
  <2>3. ASSUME NEW p \in Pair, InRec(p) # {} PROVE p \in Emitted
    <3>1. PICK c \in Col : \E x \in rbkts[c] : x.key = p[1] /\ p[2] \in x.vals
      BY <2>3 DEF InRec
    <3>2. PICK x \in rbkts[c] : x.key = p[1] /\ p[2] \in x.vals
      BY <3>1
    <3>3. <<x.key, p[2]>> \in Emitted
      BY <1>1, <2>1, <3>2, GroupRecords DEF Pair
    <3>4. p = <<p[1], p[2]>>
      BY DEF Pair
    <3> QED BY <3>2, <3>3, <3>4
  <2> QED BY <2>2, <2>3
<1>5. CASE rbkts = NoRbkts
  BY <1>3, <1>5 DEF NoRbkts
<1> QED BY <1>3, <1>4, <1>5 DEF StoreInv, TypeOK, Job

(* What the reduce buckets leave behind them.                              *)
LEMMA StaleStep ==
  ASSUME TypeOK, StoreInv, StaleInv, [Next]_vars
  PROVE  StaleInv'
<1> USE DEF ctl, fj, ps, store, backup, est, wrk
<1>1. ASSUME KeysGrouped, rbkts' = rbkts PROVE StaleInv'
  BY <1>1 DEF StaleInv, KeysGrouped
<1>2. ASSUME NEW n \in SplitCounts, StartJob(n) PROVE StaleInv'
  <2>1. /\ sched = "idle"
        /\ sched' = "MAP" \/ rbkts' = rbkts
    BY <1>2 DEF StartJob, StartMapOnly, StartFixed, StartSampled, NextJob
  <2> QED BY <1>1, <2>1 DEF StaleInv
<1>3. CASE MergeReturn
  BY <1>1, <1>3, Records DEF MergeReturn
<1>4. CASE SampleReturn \/ MapReturn \/ ReduceReturn
  BY <1>4 DEF SampleReturn, MapReturn, ReduceReturn, StaleInv
<1>5. CASE RunTask
  BY <1>1, <1>5 DEF RunTask, StaleInv, KeysGrouped
<1>6. ASSUME NEW w \in Lcpu,
             MapBegin(w) \/ MapBeginRehash(w) \/ ClaimSplit(w) \/ MapTask(w) \/ MapEnd(w)
      PROVE  StaleInv'
  BY <1>1, <1>6 DEF MapBegin, MapBeginRehash, ClaimSplit, MapTask, MapEnd, StaleInv, KeysGrouped
<1>7. ASSUME NEW w \in Lcpu,
             \/ ReduceBegin(w) \/ ClaimColumn(w) \/ ReduceTask(w) \/ ReduceEnd(w)
             \/ MergeBegin(w) \/ MergeEnd(w)
      PROVE  StaleInv'
  BY <1>7 DEF ReduceBegin, ClaimColumn, ReduceTask, ReduceEnd, MergeBegin, MergeEnd, StaleInv
<1>8. CASE UNCHANGED vars
  BY <1>8 DEF vars, StaleInv, KeysGrouped
<1> QED
  BY <1>2, <1>3, <1>4, <1>5, <1>6, <1>7, <1>8 DEF Next, MainStep, WorkerStep, Exit

(***************************************************************************)
(* The theorems                                                            *)
(***************************************************************************)

(* Init establishes every part of the invariant.                           *)
LEMMA InitInv == Init => IInv
<1> SUFFICES ASSUME Init PROVE IInv
  OBVIOUS
<1>1. TypeOK
  BY TypeInit
<1>2. PhaseInv /\ JobInv
  BY DEF Init, FJ!FJInit, PhaseInv, JobInv
<1>3. SplitInv /\ ColumnInv
  <2>1. /\ \A w \in Lcpu : wpc[w] = "out" /\ wst[w] = "none"
        /\ sched = "idle" /\ idx = 0 /\ nsplits = 0 /\ \A s \in Split : nmapped[s] = 0
    BY DEF Init, FJ!FJInit
  <2>2. \A s \in Split : ~(s < 0)
    BY DEF Split
  <2> QED BY <2>1, <2>2 DEF SplitInv, ColumnInv, Mapping
<1>4. RowInv /\ PlaceInv /\ DisjointInv
  <2>1. /\ \A w \in Lcpu : mapper[w] = NoRow /\ bak[w] = NoRow /\ map_out[w] = {}
        /\ \A c \in Col : NoRow[c] = {}
        /\ sched = "idle"
    BY DEF Init, NoBkts, NoRow
  <2>2. \A w \in Lcpu : RowPairs(w) = {}
    BY <2>1, NoRowPairs DEF RowPairs
  <2> QED BY <2>1, <2>2 DEF RowInv, PlaceInv, DisjointInv, Mapping
<1>5. StoreInv /\ SampleInv
  BY DEF Init, StoreInv, SampleInv, Mapping
<1>6. StaleInv
  BY DEF Init, StaleInv, KeysGrouped, NoRbkts
<1> QED BY <1>1, <1>2, <1>3, <1>4, <1>5, <1>6 DEF IInv

(* Every step of the program preserves it.                                 *)
LEMMA NextInv == IInv /\ [Next]_vars => IInv'
<1> SUFFICES ASSUME IInv, [Next]_vars PROVE IInv'
  OBVIOUS
<1>1. StoreInv'
  <2>1. CASE UNCHANGED vars
    BY <2>1 DEF IInv, vars, ctl, fj, ps, store, backup, est, wrk, StoreInv, Mapping, Emitted,
                EmittedTo, RowPairs, ColumnPairs, Reduced, GroupByKey
  <2>2. CASE Next
    BY <2>1, <2>2, StoreMapStep, StoreReduceStep, StoreMergeStep, StoreMainStep
       DEF Next, WorkerStep, Exit
  <2> QED BY <2>1, <2>2
<1>2. TypeOK' /\ PhaseInv' /\ JobInv' /\ SplitInv' /\ ColumnInv' /\ SampleInv'
  BY TypeStep, PhaseStep, JobStep, SplitStep, ColumnStep, SampleStep DEF IInv
<1>3. RowInv' /\ PlaceInv' /\ DisjointInv' /\ StaleInv'
  BY RowStep, PlaceStep, DisjointStep, StaleStep DEF IInv
<1> QED BY <1>1, <1>2, <1>3 DEF IInv

(* For any number of cpus, splits and columns and any sequence of jobs,    *)
(* the scheduler and the store keep the inductive invariant.               *)
THEOREM MapReduceInvariant == Safety => []IInv
  BY InitInv, NextInv, PTL DEF Safety

(* mr_map_worker and mr_reduce_worker: every split is mapped exactly once, *)
(* in the sample or afterwards, and nobody shares a split or a column.     *)
THEOREM ClaimsAreSound == Safety => []ClaimsSound
<1>1. IInv => ClaimsSound
  <2> SUFFICES ASSUME IInv PROVE ClaimsSound
    OBVIOUS
  <2> USE DEF IInv
  <2>1. SplitsMappedOnce
    <3>1. \A s \in Split : nmapped[s] <= 1
      BY DEF SplitInv
    <3>2. ASSUME sched \in {"REDUCE", "MERGE"}, NEW s \in Split, s < nsplits
          PROVE  nmapped[s] = 1
      <4>1. idx >= nsplits /\ idx \in Nat /\ nsplits \in Nat /\ s \in Nat
        BY <3>2, MRAssumption DEF SplitInv, Mapping, TypeOK, Split
      <4>2. ~Held(s)
        BY <3>2 DEF Held, PhaseInv, PcOf
      <4> QED BY <3>2, <4>1, <4>2 DEF SplitInv
    <3> QED BY <3>1, <3>2 DEF SplitsMappedOnce
  <2>2. ClaimsExclusive
    BY DEF ClaimsExclusive, SplitInv, ColumnInv
  <2> QED BY <2>1, <2>2 DEF ClaimsSound
<1> QED BY <1>1, MapReduceInvariant, PTL

(* Exactly one of four sets is not empty, and that one has one element.    *)
LEMMA OneOfFour ==
  ASSUME NEW m, NEW b, NEW r, NEW o,
         \/ IsOne(m) /\ b = {} /\ r = {} /\ o = {}
         \/ m = {} /\ IsOne(b) /\ r = {} /\ o = {}
         \/ m = {} /\ b = {} /\ IsOne(r) /\ o = {}
         \/ m = {} /\ b = {} /\ r = {} /\ IsOne(o)
  PROVE  LET places == <<m, b, r, o>>
             inside == {i \in 1 .. 4 : places[i] # {}}
         IN  IsOne(inside) /\ \A i \in inside : IsOne(places[i])
<1> DEFINE places == <<m, b, r, o>>
           inside == {i \in 1 .. 4 : places[i] # {}}
<1>1. 1 .. 4 = {1, 2, 3, 4}
  OBVIOUS
<1>2. places[1] = m /\ places[2] = b /\ places[3] = r /\ places[4] = o
  OBVIOUS
<1> HIDE DEF places
<1>3. \E i \in {1, 2, 3, 4} : inside = {i} /\ IsOne(places[i])
  <2>1. ASSUME NEW S, IsOne(S) PROVE S # {}
    BY <2>1 DEF IsOne
  <2>2. CASE IsOne(m) /\ b = {} /\ r = {} /\ o = {}
    <3>1. inside = {1}
      BY <1>1, <1>2, <2>1, <2>2
    <3> QED BY <1>2, <2>2, <3>1
  <2>3. CASE m = {} /\ IsOne(b) /\ r = {} /\ o = {}
    <3>1. inside = {2}
      BY <1>1, <1>2, <2>1, <2>3
    <3> QED BY <1>2, <2>3, <3>1
  <2>4. CASE m = {} /\ b = {} /\ IsOne(r) /\ o = {}
    <3>1. inside = {3}
      BY <1>1, <1>2, <2>1, <2>4
    <3> QED BY <1>2, <2>4, <3>1
  <2>5. CASE m = {} /\ b = {} /\ r = {} /\ IsOne(o)
    <3>1. inside = {4}
      BY <1>1, <1>2, <2>1, <2>5
    <3> QED BY <1>2, <2>5, <3>1
  <2> QED BY <2>2, <2>3, <2>4, <2>5
<1>4. IsOne(inside) /\ \A i \in inside : IsOne(places[i])
  <2> HIDE DEF inside
  <2> QED BY <1>3 DEF IsOne
<1> QED BY <1>4 DEF places

(* A pair of one row is in one column of it; which row has it is unique.   *)
LEMMA PairInRow ==
  ASSUME TypeOK, PlaceInv, DisjointInv, NEW p \in Pair, NEW v \in Lcpu
  PROVE  /\ p \in PairsOf(mapper[v]) => IsOne(InRow(mapper, p))
         /\ p \in PairsOf(bak[v]) => IsOne(InRow(bak, p))
         /\ p \in map_out[v] => IsOne(InOut(p))
<1>1. \A w \in Lcpu : p \in RowPairs(v) /\ p \in RowPairs(w) => w = v
  BY DEF DisjointInv
<1>2. ASSUME NEW b, NEW cols, b \in [Lcpu -> [Col -> SUBSET Pair]],
             \A w \in Lcpu : \A c \in Col : p \in b[w][c] => ColOf(p[1], cols) = c,
             \A w \in Lcpu : p \in PairsOf(b[w]) => w = v,
             p \in PairsOf(b[v])
      PROVE  IsOne(InRow(b, p))
  <2>1. PICK c \in Col : p \in b[v][c]
    BY <1>2 DEF PairsOf
  <2>2. \A w \in Lcpu : \A d \in Col : p \in b[w][d] => w = v /\ d = c
    BY <1>2, <2>1 DEF PairsOf
  <2>3. InRow(b, p) = {<<v, c>>}
    BY <2>1, <2>2 DEF InRow
  <2> QED BY <2>3 DEF IsOne
<1>3. p \in PairsOf(mapper[v]) => IsOne(InRow(mapper, p))
  BY <1>1, <1>2 DEF TypeOK, PlaceInv, RowPairs
<1>4. p \in PairsOf(bak[v]) => IsOne(InRow(bak, p))
  BY <1>1, <1>2 DEF TypeOK, PlaceInv, RowPairs
<1>5. p \in map_out[v] => IsOne(InOut(p))
  <2>1. p \in map_out[v] => InOut(p) = {v}
    BY <1>1 DEF InOut, RowPairs
  <2> QED BY <2>1 DEF IsOne
<1> QED BY <1>3, <1>4, <1>5

(* No row has the pair.                                                    *)
LEMMA PairNowhere ==
  ASSUME TypeOK, NEW p
  PROVE  /\ (\A v \in Lcpu : p \notin PairsOf(mapper[v])) => InRow(mapper, p) = {}
         /\ (\A v \in Lcpu : p \notin PairsOf(bak[v])) => InRow(bak, p) = {}
         /\ (\A v \in Lcpu : p \notin map_out[v]) => InOut(p) = {}
  BY DEF InRow, InOut, PairsOf

(* The record of a pair is one when the buckets hold the records of all    *)
(* pairs, or of all pairs of the columns.                                  *)
LEMMA PairInRecord ==
  ASSUME TypeOK, KeysGrouped, NEW p \in Emitted, NEW c \in Col,
         \/ rbkts[c] = GroupByKey(EmittedTo(c)) /\ ColOf(p[1], map_cols) = c
         \/ rbkts[c] = GroupByKey(Emitted)
  PROVE  IsOne(InRec(p))
<1>1. /\ Emitted \in SUBSET Pair
      /\ \A d \in Col : EmittedTo(d) \in SUBSET Pair
  BY GroupColumns
<1>2. PICK x \in rbkts[c] : x.key = p[1] /\ p[2] \in x.vals
  <2>1. CASE rbkts[c] = GroupByKey(EmittedTo(c)) /\ ColOf(p[1], map_cols) = c
    <3>1. p \in EmittedTo(c)
      BY <2>1 DEF EmittedTo
    <3> QED BY <1>1, <2>1, <3>1, GroupRecords
  <2>2. CASE rbkts[c] = GroupByKey(Emitted)
    BY <1>1, <2>2, GroupRecords
  <2> QED BY <2>1, <2>2
<1>3. \A d \in Col : \A y \in rbkts[d] : y.key = p[1] => d = c /\ y = x
  BY <1>2 DEF KeysGrouped
<1>4. InRec(p) = {<<c, x>>}
  <2>1. <<c, x>> \in InRec(p)
    BY <1>2 DEF InRec
  <2>2. ASSUME NEW cx \in InRec(p) PROVE cx = <<c, x>>
    <3>1. /\ cx \in Col \X UNION {rbkts[d] : d \in Col}
          /\ cx[2] \in rbkts[cx[1]] /\ cx[2].key = p[1]
      BY DEF InRec
    <3>2. cx[1] \in Col /\ cx = <<cx[1], cx[2]>>
      BY <3>1
    <3> QED BY <1>3, <3>1, <3>2
  <2> QED BY <2>1, <2>2
<1> QED BY <1>4 DEF IsOne

(* Rows hold only what the map tasks of the job have emitted.              *)
LEMMA RowsEmitted ==
  ASSUME TypeOK, JobInv, RowInv, StoreInv, sched # "idle", NEW v \in Lcpu
  PROVE  RowPairs(v) \subseteq Emitted
<1>1. CASE Mapping \/ (sched = "MERGE" /\ job.atype = "maponly")
  BY <1>1 DEF StoreInv
<1>2. CASE sched = "REDUCE"
  <2>1. bak[v] = NoRow /\ map_out[v] = {}
    BY <1>2 DEF RowInv, JobInv
  <2>2. ASSUME NEW c \in Col, NEW p \in mapper[v][c] PROVE p \in Emitted
    <3>1. p \in ColumnPairs(c)
      BY DEF ColumnPairs
    <3>2. ColumnPairs(c) = {} \/ ColumnPairs(c) = EmittedTo(c)
      BY <1>2 DEF StoreInv
    <3> QED BY <3>1, <3>2 DEF EmittedTo
  <2> QED BY <2>1, <2>2, NoRowPairs DEF RowPairs, PairsOf
<1>3. CASE sched = "MERGE" /\ job.atype = "mapgr"
  <2>1. bak[v] = NoRow /\ mapper[v] = NoRow /\ map_out[v] = {}
    BY <1>3 DEF RowInv
  <2> QED BY <2>1, NoRowPairs DEF RowPairs
<1> QED BY <1>1, <1>2, <1>3 DEF TypeOK, Sched, Mapping, Job

(* While pairs are only in rows, one of a pair's three places has it.      *)
LEMMA PairInRows ==
  ASSUME TypeOK, RowInv, PlaceInv, DisjointInv, sched # "idle",
         NEW p \in Pair, NEW v \in Lcpu, p \in RowPairs(v)
  PROVE  \/ IsOne(InRow(mapper, p)) /\ InRow(bak, p) = {} /\ InOut(p) = {}
         \/ InRow(mapper, p) = {} /\ IsOne(InRow(bak, p)) /\ has_backup /\ InOut(p) = {}
         \/ InRow(mapper, p) = {} /\ InRow(bak, p) = {} /\ IsOne(InOut(p))
<1>1. \A u \in Lcpu : p \in RowPairs(u) => u = v
  BY DEF DisjointInv
<1>2. /\ p \notin PairsOf(mapper[v]) => InRow(mapper, p) = {}
      /\ p \notin PairsOf(bak[v]) => InRow(bak, p) = {}
      /\ p \notin map_out[v] => InOut(p) = {}
  BY <1>1, PairNowhere DEF RowPairs
<1>3. mapper[v] = NoRow \/ (bak[v] = NoRow /\ map_out[v] = {})
  BY DEF RowInv, Mapping
<1>4. bak[v] = NoRow \/ (map_out[v] = {} /\ has_backup)
  BY DEF RowInv, Mapping
<1>5. CASE p \in PairsOf(mapper[v])
  BY <1>2, <1>3, <1>5, NoRowPairs, PairInRow
<1>6. CASE p \in PairsOf(bak[v])
  BY <1>2, <1>3, <1>4, <1>6, NoRowPairs, PairInRow
<1>7. CASE p \in map_out[v]
  BY <1>2, <1>3, <1>4, <1>7, NoRowPairs, PairInRow
<1> QED BY <1>5, <1>6, <1>7 DEF RowPairs

(* An emitted pair is in exactly one place.                                *)
LEMMA EmittedInOnePlace ==
  ASSUME IInv, sched # "idle", NEW p \in Emitted
  PROVE  LET b == IF has_backup THEN InRow(bak, p) ELSE {}
             r == IF sched = "SAMPLE" THEN {} ELSE InRec(p)
         IN  \/ IsOne(InRow(mapper, p)) /\ b = {} /\ r = {} /\ InOut(p) = {}
             \/ InRow(mapper, p) = {} /\ IsOne(b) /\ r = {} /\ InOut(p) = {}
             \/ InRow(mapper, p) = {} /\ b = {} /\ IsOne(r) /\ InOut(p) = {}
             \/ InRow(mapper, p) = {} /\ b = {} /\ r = {} /\ IsOne(InOut(p))
<1>1. p \in Pair /\ p[1] \in Key
  BY DEF Emitted, Pair
<1>2. TypeOK /\ JobInv /\ RowInv /\ PlaceInv /\ DisjointInv /\ StoreInv
  BY DEF IInv
<1>3. ColOf(p[1], map_cols) \in Col
  BY <1>1, <1>2, ColOfType DEF TypeOK
<1> DEFINE c == ColOf(p[1], map_cols)
<1>4. p \in EmittedTo(c)
  BY DEF EmittedTo
<1>5. CASE Mapping \/ (sched = "MERGE" /\ job.atype = "maponly")
  <2>1. PICK v \in Lcpu : p \in RowPairs(v)
    BY <1>2, <1>5 DEF StoreInv
  <2>2. sched = "SAMPLE" \/ InRec(p) = {}
    <3>1. sched # "SAMPLE" => \A d \in Col : rbkts[d] = {}
      BY <1>2, <1>5 DEF StoreInv, Mapping, NoRbkts
    <3> QED BY <3>1 DEF InRec
  <2> QED BY <1>1, <1>2, <2>1, <2>2, PairInRows
<1>6. CASE sched = "REDUCE"
  <2>1. \A v \in Lcpu : PairsOf(bak[v]) = {} /\ map_out[v] = {}
    BY <1>2, <1>6, NoRowPairs DEF RowInv, JobInv
  <2>2. InRow(bak, p) = {} /\ InOut(p) = {}
    BY <1>2, <2>1, PairNowhere
  <2>3. CASE inphase /\ Reduced(c)
    <3>1. rbkts[c] = GroupByKey(EmittedTo(c)) /\ ColumnPairs(c) = {}
      BY <1>2, <1>3, <1>6, <2>3 DEF StoreInv
    <3>2. \A v \in Lcpu : p \notin PairsOf(mapper[v])
      BY <1>2, <3>1 DEF PlaceInv, PairsOf, ColumnPairs
    <3>3. IsOne(InRec(p))
      BY <1>2, <1>3, <1>6, <3>1, Records, PairInRecord
    <3>4. InRow(mapper, p) = {}
      BY <1>2, <3>2, PairNowhere
    <3> QED BY <1>6, <2>2, <3>3, <3>4
  <2>4. CASE ~(inphase /\ Reduced(c))
    <3>1. rbkts[c] = {} /\ ColumnPairs(c) = EmittedTo(c)
      BY <1>2, <1>3, <1>6, <2>4 DEF StoreInv
    <3>2. PICK v \in Lcpu : p \in mapper[v][c]
      BY <1>4, <3>1 DEF ColumnPairs
    <3>3. IsOne(InRow(mapper, p))
      BY <1>1, <1>2, <1>3, <3>2, PairInRow DEF PairsOf
    <3>4. ASSUME NEW d \in Col, NEW x \in rbkts[d], x.key = p[1] PROVE FALSE
      <4>1. x \in GroupByKey(EmittedTo(d))
        BY <1>2, <1>6 DEF StoreInv
      <4>2. EmittedTo(d) \in SUBSET Pair
        BY DEF EmittedTo, Emitted
      <4>3. \E s \in Split : <<x.key, s>> \in EmittedTo(d)
        BY <4>1, <4>2, GroupRecords
      <4>4. ColOf(p[1], map_cols) = d
        BY <3>4, <4>3 DEF EmittedTo
      <4> QED BY <3>1, <4>4
    <3>5. InRec(p) = {}
      BY <3>4 DEF InRec
    <3> QED BY <2>2, <3>3, <3>5
  <2> QED BY <2>3, <2>4
<1>7. CASE sched = "MERGE" /\ job.atype = "mapgr"
  <2>1. \A v \in Lcpu : PairsOf(mapper[v]) = {} /\ PairsOf(bak[v]) = {} /\ map_out[v] = {}
    BY <1>2, <1>7, NoRowPairs DEF RowInv
  <2>2. InRow(mapper, p) = {} /\ InRow(bak, p) = {} /\ InOut(p) = {}
    BY <1>2, <2>1, PairNowhere
  <2>3. 0 \in Col
    BY MRAssumption DEF Col
  <2>4. KeysGrouped
    BY <1>2, <1>7, Records
  <2>5. \/ rbkts[0] = GroupByKey(Emitted)
        \/ rbkts[c] = GroupByKey(EmittedTo(c))
    BY <1>2, <1>3, <1>7, <2>3 DEF StoreInv
  <2>6. IsOne(InRec(p))
    BY <1>2, <1>3, <2>3, <2>4, <2>5, PairInRecord
  <2> QED BY <1>7, <2>2, <2>6
<1> QED BY <1>2, <1>5, <1>6, <1>7 DEF TypeOK, Sched, Mapping, Job

(* The store's bookkeeping follows from the invariant in every state.      *)
LEMMA ConservationHolds == IInv => PairsConserved
<1> SUFFICES ASSUME IInv, sched # "idle", NEW k \in Key, NEW s \in Split
             PROVE  LET p == <<k, s>>
                        places == <<InRow(mapper, p),
                                    IF has_backup THEN InRow(bak, p) ELSE {},
                                    IF sched = "SAMPLE" THEN {} ELSE InRec(p),
                                    InOut(p)>>
                        inside == {i \in 1 .. 4 : places[i] # {}}
                    IN  IF nmapped[s] > 0 /\ k \in Emits[s]
                        THEN IsOne(inside) /\ \A i \in inside : IsOne(places[i])
                        ELSE inside = {}
  BY DEF PairsConserved
<1> DEFINE p == <<k, s>>
           b == IF has_backup THEN InRow(bak, p) ELSE {}
           r == IF sched = "SAMPLE" THEN {} ELSE InRec(p)
<1>1. p \in Pair
  BY DEF Pair
<1>2. nmapped[s] \in {0, 1}
  BY DEF IInv, SplitInv
<1>3. p \in Emitted <=> nmapped[s] > 0 /\ k \in Emits[s]
  BY <1>1, <1>2 DEF Emitted
<1>4. CASE p \in Emitted
  <2>1. LET places == <<InRow(mapper, p), b, r, InOut(p)>>
            inside == {i \in 1 .. 4 : places[i] # {}}
        IN  IsOne(inside) /\ \A i \in inside : IsOne(places[i])
    <3>1. \/ IsOne(InRow(mapper, p)) /\ b = {} /\ r = {} /\ InOut(p) = {}
          \/ InRow(mapper, p) = {} /\ IsOne(b) /\ r = {} /\ InOut(p) = {}
          \/ InRow(mapper, p) = {} /\ b = {} /\ IsOne(r) /\ InOut(p) = {}
          \/ InRow(mapper, p) = {} /\ b = {} /\ r = {} /\ IsOne(InOut(p))
      BY <1>4, EmittedInOnePlace
    <3> HIDE DEF b, r, p
    <3> QED BY <3>1, OneOfFour
  <2> QED BY <1>3, <1>4, <2>1
<1>5. CASE p \notin Emitted
  <2>1. \A v \in Lcpu : p \notin RowPairs(v)
    BY <1>5, RowsEmitted DEF IInv
  <2>2. InRow(mapper, p) = {} /\ b = {} /\ InOut(p) = {}
    BY <2>1, PairNowhere DEF IInv, RowPairs
  <2>3. r = {}
    BY <1>1, <1>5, Records DEF IInv, TypeOK, Sched
  <2>4. \A i \in 1 .. 4 : <<InRow(mapper, p), b, r, InOut(p)>>[i] = {}
    <3> HIDE DEF b, r, p
    <3> QED BY <2>2, <2>3
  <2> QED BY <1>3, <1>5, <2>4
<1> QED BY <1>4, <1>5

(* No column has a second record of a key, between jobs neither.           *)
LEMMA GroupingHolds == IInv => KeysGrouped
  BY Records DEF IInv, StaleInv, TypeOK, Sched

(* When the sample is over, a split has been mapped.                       *)
LEMMA DivisorHolds == IInv => SampleDivisor
<1> SUFFICES ASSUME IInv, sched = "SAMPLE", AllDone
             PROVE  \E r \in Lcpu : nfinished[r] > 0
  BY DEF SampleDivisor
<1> USE MRAssumption DEF IInv, TypeOK
<1>1. 0 \in Lcpu /\ \A w \in Lcpu : wst[w] = "done" /\ wpc[w] = "out"
  BY DEF AllDone, PhaseInv, Lcpu, FJ!FJTypeOK, FJ!WorkerState
<1>2. idx >= nsplits /\ 1 <= nsplits
  BY <1>1 DEF SplitInv, JobInv, Mapping
<1>3. 0 \in Split
  BY <1>2 DEF Split
<1>4. 0 < idx /\ 0 < nsplits /\ ~Held(0)
  BY <1>1, <1>2 DEF Held
<1>5. nmapped[0] = 1
  BY <1>3, <1>4 DEF SplitInv
<1> QED BY <1>3, <1>5 DEF SampleInv

(* kvstore.c, mr-sched.c and the bucket managers, for every sequence of    *)
(* jobs: an emitted pair is in exactly one of the new buckets, the backup, *)
(* the reduce buckets and the output of a map-only job; a key has one      *)
(* record; and kvst_sample_finished never divides by zero.                 *)
THEOREM StoreConservesPairs == Safety => [](PairsConserved /\ KeysGrouped /\ SampleDivisor)
  BY ConservationHolds, GroupingHolds, DivisorHolds, MapReduceInvariant, PTL

(* The splits of a job have all been mapped when it is over.               *)
LEMMA AllEmitted ==
  ASSUME IInv, ~Mapping
  PROVE  Emitted = InputPairs
<1>1. \A s \in Split : nmapped[s] = 1 <=> s < nsplits
  <2>1. idx >= nsplits /\ idx \in Nat /\ nsplits \in Nat
    BY MRAssumption DEF IInv, SplitInv, TypeOK
  <2>2. \A s \in Split : ~Held(s)
    BY DEF IInv, PhaseInv, PcOf, Held, TypeOK, Sched, Mapping
  <2>3. \A s \in Split : nmapped[s] = IF s < idx /\ s < nsplits /\ ~Held(s) THEN 1 ELSE 0
    BY DEF IInv, SplitInv
  <2>4. Split \subseteq Nat
    BY MRAssumption DEF Split
  <2> QED BY <2>1, <2>2, <2>3, <2>4
<1>2. \A p \in Pair : p[2] \in Split
  BY DEF Pair
<1> QED BY <1>1, <1>2 DEF Emitted, InputPairs

(* mr_run_scheduler: when a mapreduce or mapgroup job is over, its results *)
(* are the records of what map_func emits for all its splits, whatever the *)
(* sampling, the number of columns, and the order of the claims were.      *)
THEOREM ResultsAreComplete == Safety => []ResultComplete
<1>1. IInv => ResultComplete
  <2> SUFFICES ASSUME IInv, JobFinished("mapgr") PROVE results = GroupByKey(InputPairs)
    BY DEF ResultComplete
  <2>1. Emitted = InputPairs
    BY AllEmitted DEF JobFinished, Mapping
  <2>2. results = GroupByKey(Emitted)
    BY DEF IInv, StoreInv, JobFinished
  <2> QED BY <2>1, <2>2
<1> QED BY <1>1, MapReduceInvariant, PTL

(***************************************************************************)
(* The assertions of the rehash hold when a sampled job is not followed by *)
(* one with a given number of reduce tasks: has_backup is reset only by    *)
(* kvst_sample_init.  (Run MapReduce_mixed shows what happens otherwise.)  *)
(***************************************************************************)
SampledJob == [atype |-> "mapgr", tasks |-> 0]

(* In the sequence of jobs p, what follows a sampled job is sampled.       *)
SampledToEnd(p) ==
  \A i, j \in 1 .. Len(p) : i <= j /\ p[i] = SampledJob => p[j] = SampledJob

BackupInv ==
  /\ SampledToEnd(program)
  /\ has_backup \/ sched = "SAMPLE" =>
       /\ job = SampledJob
       /\ \A i \in 1 .. Len(program) : program[i] = SampledJob
  /\ has_backup /\ Mapping =>
       \A w \in Lcpu : wst[w] \in {"none", "todo"} => bakrow[w]

(* A job is taken from the front of the program.                           *)
LEMMA NextJobSampled ==
  ASSUME program \in Seq(Job), SampledToEnd(program), NextJob
  PROVE  /\ SampledToEnd(program')
         /\ (\A i \in 1 .. Len(program) : program[i] = SampledJob) =>
              job' = SampledJob /\ \A i \in 1 .. Len(program') : program'[i] = SampledJob
         /\ job' = SampledJob => \A i \in 1 .. Len(program') : program'[i] = SampledJob
<1>1. /\ program # <<>> /\ program' = Tail(program) /\ job' = program[1]
  BY DEF NextJob
<1>2. /\ 1 \in 1 .. Len(program)
      /\ \A i \in 1 .. Len(program') : i + 1 \in 1 .. Len(program) /\ program'[i] = program[i + 1]
  BY <1>1
<1>3. SampledToEnd(program')
  <2> SUFFICES ASSUME NEW i \in 1 .. Len(program'), NEW j \in 1 .. Len(program'),
                      i <= j, program'[i] = SampledJob
               PROVE  program'[j] = SampledJob
    BY DEF SampledToEnd
  <2>1. /\ i + 1 \in 1 .. Len(program) /\ j + 1 \in 1 .. Len(program) /\ i + 1 <= j + 1
        /\ program'[i] = program[i + 1] /\ program'[j] = program[j + 1]
    BY <1>2
  <2> QED BY <2>1 DEF SampledToEnd
<1>4. job' = SampledJob => \A i \in 1 .. Len(program') : program'[i] = SampledJob
  <2> SUFFICES ASSUME program[1] = SampledJob, NEW i \in 1 .. Len(program')
               PROVE  program'[i] = SampledJob
    BY <1>1
  <2>1. i + 1 \in 1 .. Len(program) /\ program'[i] = program[i + 1] /\ 1 <= i + 1
    BY <1>2
  <2> QED BY <1>2, <2>1 DEF SampledToEnd
<1> QED BY <1>1, <1>2, <1>3, <1>4

(* The backup stays complete until the worker of the row takes it over.    *)
LEMMA BackupStep ==
  ASSUME IInv, BackupInv, [Next]_vars
  PROVE  BackupInv'
<1> USE DEF ctl, fj, ps, store, backup, est, wrk, BackupInv, SampledToEnd, Mapping
<1>1. TypeOK
  BY DEF IInv
<1>2. ASSUME NEW n \in SplitCounts, StartJob(n) PROVE BackupInv'
  <2>1. /\ NextJob /\ program \in Seq(Job) /\ sched = "idle"
    BY <1>1, <1>2 DEF StartJob, StartMapOnly, StartFixed, StartSampled, NextJob, TypeOK
  <2>2. /\ SampledToEnd(program')
        /\ (\A i \in 1 .. Len(program) : program[i] = SampledJob) =>
             job' = SampledJob /\ \A i \in 1 .. Len(program') : program'[i] = SampledJob
        /\ job' = SampledJob => \A i \in 1 .. Len(program') : program'[i] = SampledJob
    BY <2>1, NextJobSampled
  <2>3. CASE StartMapOnly(n) \/ StartFixed(n)
    <3>1. /\ job' # SampledJob /\ sched' = "MAP" /\ has_backup' = has_backup
      BY <2>3 DEF StartMapOnly, StartFixed, NextJob, SampledJob
    <3>2. ~has_backup'
      BY <2>2, <3>1
    <3> QED BY <2>2, <3>1, <3>2
  <2>4. CASE StartSampled(n)
    <3>1. /\ job' = SampledJob /\ has_backup' = FALSE
      <4>1. Head(program) \in Job /\ Head(program).atype = "mapgr" /\ Head(program).tasks = 0
        BY <2>1, <2>4 DEF StartSampled, NextJob
      <4> QED BY <2>4, <4>1 DEF StartSampled, NextJob, SampledJob, Job
    <3> QED BY <2>2, <3>1
  <2> QED BY <1>2, <2>3, <2>4 DEF StartJob
<1>3. CASE RunTask
  <2>1. /\ \A w \in Lcpu : wst[w] = "none"
        /\ UNCHANGED <<program, job, sched, has_backup, bakrow>>
    BY <1>1, <1>3 DEF IInv, PhaseInv, RunTask, FJ!Fork
  <2> QED BY <2>1
<1>4. CASE SampleReturn
  BY <1>4 DEF SampleReturn
<1>5. CASE MapReturn \/ ReduceReturn \/ MergeReturn
  BY <1>5 DEF MapReturn, ReduceReturn, MergeReturn
<1>6. ASSUME NEW w \in Lcpu,
             MapBegin(w) \/ ClaimSplit(w) \/ MapTask(w) \/ MapEnd(w) \/ MapBeginRehash(w)
      PROVE  BackupInv'
  <2>1. /\ UNCHANGED <<program, job, sched, has_backup>>
        /\ \A v \in Lcpu : wst'[v] \in {"none", "todo"} =>
             wst[v] \in {"none", "todo"} /\ bakrow'[v] = bakrow[v]
    BY <1>1, <1>6
       DEF TypeOK, FJ!FJTypeOK, MapBegin, ClaimSplit, MapTask, MapEnd, MapBeginRehash,
           FJ!Begin, FJ!End
  <2> QED BY <2>1
<1>7. ASSUME NEW w \in Lcpu,
             \/ ReduceBegin(w) \/ ClaimColumn(w) \/ ReduceTask(w) \/ ReduceEnd(w)
             \/ MergeBegin(w) \/ MergeEnd(w)
      PROVE  BackupInv'
  <2>1. /\ UNCHANGED <<program, job, sched, has_backup>>
        /\ sched \in {"REDUCE", "MERGE"}
    BY <1>7 DEF ReduceBegin, ClaimColumn, ReduceTask, ReduceEnd, MergeBegin, MergeEnd
  <2> QED BY <2>1
<1>8. CASE UNCHANGED vars
  BY <1>8 DEF vars
<1> QED
  BY <1>2, <1>3, <1>4, <1>5, <1>6, <1>7, <1>8 DEF Next, MainStep, WorkerStep, Exit

(* kvstore.c, btreebktmgr.c and pch_insert_kvs: in every process that does *)
(* not turn from a sampled to an unsampled job (all applications of the    *)
(* repository run one job, or the same job again), the store conserves the *)
(* pairs and no assertion of the rehash fails.                             *)
THEOREM StoreIsSound ==
  ASSUME \A p \in Programs : SampledToEnd(p)
  PROVE  Safety => []StoreSound
<1>1. Init => BackupInv
  BY DEF Init, BackupInv, Mapping
<1>2. IInv /\ BackupInv /\ [Next]_vars => BackupInv'
  BY BackupStep
<1>3. IInv /\ BackupInv => StoreSound
  <2> SUFFICES ASSUME IInv, BackupInv PROVE StoreSound
    OBVIOUS
  <2>1. RehashRowPresent
    <3> SUFFICES ASSUME NEW w \in Lcpu, Mapping, has_backup, wst[w] = "todo"
                 PROVE  RehashAsserts(w)
      BY DEF RehashRowPresent
    <3>1. job = SampledJob /\ bakrow[w]
      BY DEF BackupInv
    <3>2. PairsOf(mapper[w]) = {}
      BY NoRowPairs DEF IInv, RowInv
    <3> QED BY <3>1, <3>2 DEF RehashAsserts, SampledJob
  <2> QED BY <2>1, ConservationHolds, GroupingHolds, DivisorHolds DEF StoreSound
<1> QED BY <1>1, <1>2, <1>3, MapReduceInvariant, PTL DEF Safety

=============================================================================
