------------------------------- MODULE Bench -------------------------------
(***************************************************************************)
(* The multi-threaded measurement programs of the artifact: the page-fault *)
(* micro-benchmarks (page_fault.cc, page_fault.cpp, workingset.cc,         *)
(* mlock.cpp, mage_noeviction.cc), seq_scan.cpp and memcached's built-in   *)
(* load generator (test_thread.c).                                         *)
(*                                                                         *)
(* They share one shape.  A main thread creates n threads per phase and    *)
(* joins them; a measured phase starts at a barrier that the threads and   *)
(* the main thread cross together; every gap-th access of a thread leaves  *)
(* a latency in a slot of one shared, unsynchronised array; after the last *)
(* join the main thread sorts the array and reports percentiles of it.     *)
(* Pages (for test_thread.c: keys) are numbered from 0.  Sizes are in      *)
(* pages: every size the code computes in bytes is rounded down to a page, *)
(* and rounding after each division or once at the end gives the same.     *)
(*                                                                         *)
(* cfg is the command line of the run: file names the program, n_threads,  *)
(* stride, total_iter, random_access, exclusive, write_test and            *)
(* minor_fault are its options, gap is kSampleGap, and spurious says       *)
(* whether waits on condition variables may end without a notification.    *)
(***************************************************************************)
EXTENDS Integers, Sequences, FiniteSets, SequencesExt, Functions

CONSTANTS
    Runs,               \* the command lines that are explored
    kTotalSize,         \* pages of the test array
    kMlockSize,         \* pages that mlock.cpp locks
    kTotalAccesses,     \* accesses of a random test, all threads together
    N_FILL_REQS,        \* keys each filling thread of test_thread.c stores
    N_TEST_REQS,        \* requests of each of its test threads
    MAX_TEST_THREADS,   \* its limit on the number of threads
    NUM_SOCKET, NUM_PHYSICAL_CPU_PER_SOCKET, SMT_LEVEL

ASSUME BenchAssumption ==
    /\ \A k \in {kTotalSize, kMlockSize, kTotalAccesses, N_FILL_REQS,
                 N_TEST_REQS, MAX_TEST_THREADS, NUM_SOCKET,
                 NUM_PHYSICAL_CPU_PER_SOCKET, SMT_LEVEL} : k \in Nat \ {0}
    /\ kMlockSize <= kTotalSize
    /\ \A c \in Runs : /\ c.n_threads \in 1 .. kTotalSize
                       /\ c.file = "test_thread" => c.n_threads <= MAX_TEST_THREADS

VARIABLES
    cfg,          \* the command line
    phase,        \* index of the phase main is in
    at,           \* where each thread, and main, is
    created,      \* threads of this phase created so far
    joined,       \* threads of this phase joined so far
    bar,          \* the barrier object
    cpu,          \* the static counters of getCPUid
    pin,          \* the processor of each thread's affinity mask
    cnt,          \* accesses each thread has made in this phase
    total_count,  \* what each thread of the measured phase reported
    mem,          \* contents of each page
    sample,       \* latency_sample: the accesses that wrote each slot, of which
                  \* one, the last, is what the slot still holds
    report        \* what main reported, once it has

vars == <<cfg, phase, at, created, joined, bar, cpu, pin, cnt, total_count,
          mem, sample, report>>

Main == -1            \* threads have the numbers from 0
None == <<>>
MaxThreads == Max({c.n_threads : c \in Runs})
Tids == 0 .. MaxThreads - 1
Live == 0 .. cfg.n_threads - 1
Keyed == cfg.file = "test_thread"

----------------------------------------------------------------------------
(* What a thread touches: a sequence with, for each access, the set of     *)
(* pages it may pick.                                                      *)

\* Pages of one thread; per_thread_size in pages.
per_thread_size(c) ==
    IF c.file = "test_thread" THEN N_FILL_REQS ELSE kTotalSize \div c.n_threads

thread_start(c, t) == t * per_thread_size(c)

\* for (i = lo; i + kPageSize < hi; i += step): the last page is never visited.
Strided(lo, hi, step) ==
    [k \in 1 .. (hi - 1 - lo + step - 1) \div step |-> {lo + (k - 1) * step}]

\* for (i = lo; i < hi; i += kPageSize)
Scan(lo, hi) == [k \in 1 .. hi - lo |-> {lo + k - 1}]

\* zipf_next ends in "% nranges": any of the ranges may come out.
zipf_next(nranges) == 0 .. nranges - 1

RandomAccesses(c, t) ==
    [k \in 1 .. kTotalAccesses \div c.n_threads |->
        IF c.exclusive
        THEN {thread_start(c, t) + r : r \in zipf_next(per_thread_size(c))}
        ELSE zipf_next(c.n_threads * per_thread_size(c))]

page_fault_accesses(c, t) ==
    LET lo == thread_start(c, t)
        hi == thread_start(c, t + 1)
    IN  IF c.random_access THEN RandomAccesses(c, t)
        ELSE FlattenSeq([l \in 1 .. c.total_iter * c.stride |->
                Strided(lo + ((l - 1) % c.stride), hi, c.stride)])

workingset_accesses(c, t) ==
    LET part(k) == (k * per_thread_size(c)) \div 6
        hot1_start == thread_start(c, t)
        hot2_start == hot1_start + part(1)
        cold_start == hot2_start + part(1)
        Hot1 == Scan(hot1_start, hot2_start)
        Cold(k) == Scan(cold_start + part(k), cold_start + part(k + 1))
        Hot2 == Scan(hot2_start, cold_start)
    IN  Hot1 \o Hot1 \o Hot1
        \o FlattenSeq([k \in 1 .. 4 |-> Cold(k - 1) \o Hot2])

mlock_accesses(c, t) ==
    LET lo == thread_start(c, t)
    IN  Strided(lo, lo + (kMlockSize \div c.n_threads), c.stride)

mage_accesses(c, t) ==
    FlattenSeq([l \in 1 .. c.total_iter |->
        Scan(thread_start(c, t), thread_start(c, t + 1))])

\* test_zipfian: any key any of the filling threads stored.
test_zipfian(c) ==
    [k \in 1 .. N_TEST_REQS |-> zipf_next(c.n_threads * N_FILL_REQS)]

Accesses(c, t) ==
    CASE c.file \in {"page_fault_cc", "page_fault_cpp", "seq_scan"} ->
            page_fault_accesses(c, t)
      [] c.file = "workingset"  -> workingset_accesses(c, t)
      [] c.file = "mlock"       -> mlock_accesses(c, t)
      [] c.file = "mage"        -> mage_accesses(c, t)
      [] c.file = "test_thread" -> test_zipfian(c)

(* Where its k-th access (from 0) leaves its latency, how many slots the   *)
(* array has, and how many of them main sorts.                             *)

\* page_fault.cc: no room for further iterations (see KeepsSamples).
page_fault_slot(c, t, k) ==
    LET per_thread == IF c.random_access THEN kTotalAccesses \div c.n_threads
                                         ELSE per_thread_size(c)
    IN  ((per_thread * t) \div c.gap) + (k \div c.gap)


\* page_fault.cpp and seq_scan.cpp leave room for every iteration.
page_fault_cpp_slot(c, t, k) ==
    IF c.random_access THEN page_fault_slot(c, t, k)
    ELSE ((per_thread_size(c) * t * c.total_iter) \div c.gap) + (k \div c.gap)

seq_scan_slot(c, t, k) == page_fault_cpp_slot(c, t, k)

mlock_slot(c, t, k) == ((per_thread_size(c) * t) \div c.gap) + (k \div c.gap)

mage_slot(c, t, k) ==
    ((c.total_iter * per_thread_size(c) * t) \div c.gap) + (k \div c.gap)

\* The thread number plays no part.
test_thread_slot(c, t, k) == N_TEST_REQS + (k \div c.gap)

Slot(c, t, k) ==
    CASE c.file = "page_fault_cc"  -> page_fault_slot(c, t, k)
      [] c.file = "page_fault_cpp" -> page_fault_cpp_slot(c, t, k)
      [] c.file = "seq_scan"       -> seq_scan_slot(c, t, k)
      [] c.file = "mlock"          -> mlock_slot(c, t, k)
      [] c.file = "mage"           -> mage_slot(c, t, k)
      [] c.file = "test_thread"    -> test_thread_slot(c, t, k)

\* workingset.cc measures throughput only.
Sampled(c, k) == c.file # "workingset" /\ k % c.gap = 0

SampleSlots(c) ==
    CASE c.file = "test_thread" -> MAX_TEST_THREADS * N_TEST_REQS
      [] c.file = "workingset"  -> 0
      [] c.file = "mlock" -> (per_thread_size(c) * c.n_threads + c.gap) \div c.gap
      [] OTHER ->
            ((IF c.random_access THEN kTotalAccesses
              ELSE per_thread_size(c) * c.n_threads * c.total_iter) + c.gap) \div c.gap

(* What main reports on, given the accesses it counted: the slots it sorts *)
(* in descending order, and the position it prints as the 99th percentile. *)
Sorted(c, count) ==
    CASE c.file \in {"test_thread", "mlock"} -> SampleSlots(c)
      [] c.file = "mage" -> (per_thread_size(c) * c.n_threads) \div c.gap
      [] c.file = "workingset" -> 0
      [] OTHER -> count \div c.gap

Counted(c, count) ==
    CASE c.file = "mage" -> per_thread_size(c) * c.n_threads
      [] c.file = "test_thread" -> N_TEST_REQS * c.n_threads
      [] OTHER -> count

P99Position(c, count) == (Counted(c, count) \div c.gap) \div 100

----------------------------------------------------------------------------
(* Phases: how its threads start together, and what they do.               *)

Phase(sync, work, pinned) == [sync |-> sync, work |-> work, pinned |-> pinned]

page_fault_phases(c) ==
    (IF c.minor_fault THEN <<>> ELSE <<Phase("none", "fill", FALSE)>>)
    \o <<Phase("Wait", "test", TRUE)>>

mage_phases == <<Phase("none", "fill", FALSE), Phase("none", "pageout", TRUE),
                 Phase("Wait", "test", TRUE)>>

main_test_thread_phases ==
    <<Phase("cross", "fill", TRUE), Phase("cross", "test", TRUE)>>

Phases(c) ==
    CASE c.file = "mage"        -> mage_phases
      [] c.file = "test_thread" -> main_test_thread_phases
      [] OTHER                  -> page_fault_phases(c)

Ph == Phases(cfg)[phase]
Measured == Ph.work = "test"

----------------------------------------------------------------------------
(* getCPUid hands out processors round robin: over the cores of a socket,  *)
(* then the sockets, then the hardware threads of each core.               *)
CpuReset == [socket |-> 0, physical |-> 0, smt |-> 0]

getCPUid(u) ==
    LET wrapP == u.physical + 1 = NUM_PHYSICAL_CPU_PER_SOCKET
        wrapS == wrapP /\ u.socket + 1 = NUM_SOCKET
    IN  [physical |-> IF wrapP THEN 0 ELSE u.physical + 1,
         socket   |-> IF wrapS THEN 0 ELSE IF wrapP THEN u.socket + 1 ELSE u.socket,
         smt      |-> IF wrapS THEN (u.smt + 1) % SMT_LEVEL ELSE u.smt]

Init ==
    /\ cfg \in Runs
    /\ phase = 1
    /\ at = [a \in Tids \cup {Main} |-> IF a = Main THEN "create" ELSE "none"]
    /\ created = 0 /\ joined = 0
    /\ bar = [count |-> 0, generation |-> 0,
              gen |-> [a \in Tids \cup {Main} |-> 0]]
    /\ cpu = CpuReset
    /\ pin = [t \in Tids |-> None]
    /\ cnt = [t \in Tids |-> 0]
    /\ total_count = [t \in Tids |-> 0]
    /\ mem = [p \in 0 .. Max({c.n_threads * per_thread_size(c) : c \in Runs}) - 1 |->
                "raw"]
    /\ sample = [s \in 0 .. SampleSlots(cfg) - 1 |-> {}]
    /\ report = None

\* Main creates the next thread of the phase, after it chose its processor:
\* test_thread.c numbers the processors itself.
CreateThread ==
    /\ at[Main] = "create"
    /\ created < cfg.n_threads
    /\ at' = [at EXCEPT ![created] = IF Ph.sync = "none" THEN "run" ELSE "new"]
    /\ pin' = [pin EXCEPT ![created] =
                IF ~Ph.pinned THEN None
                ELSE IF Keyed THEN [CpuReset EXCEPT !.physical = created] ELSE cpu]
    /\ cpu' = IF Ph.pinned /\ ~Keyed THEN getCPUid(cpu) ELSE cpu
    /\ cnt' = [cnt EXCEPT ![created] = 0]
    /\ created' = created + 1
    /\ UNCHANGED <<cfg, phase, joined, bar, total_count, mem, sample, report>>

AllCreated ==
    /\ at[Main] = "create"
    /\ created = cfg.n_threads
    /\ at' = [at EXCEPT ![Main] = IF Ph.sync = "none" THEN "join" ELSE "new"]
    /\ UNCHANGED <<cfg, phase, created, joined, bar, cpu, pin, cnt, total_count,
                   mem, sample, report>>

\* test_thread_worker cannot reach the server, or pthread_create fails: exit(1).
WorkerFails ==
    /\ Keyed
    /\ \/ at[Main] = "create" /\ created < cfg.n_threads
       \/ \E t \in Live : at[t] = "new"
    /\ at[Main] \notin {"done", "exit"}
    /\ at' = [at EXCEPT ![Main] = "exit"]
    /\ UNCHANGED <<cfg, phase, created, joined, bar, cpu, pin, cnt, total_count,
                   mem, sample, report>>

----------------------------------------------------------------------------
(* The two barriers.  Both are entered and re-entered under a mutex, so    *)
(* arriving, and deciding after a wake-up, are single steps.               *)

Actors == Live \cup {Main}
Through(a) == IF a = Main THEN "join" ELSE "run"
WakeAll(f) == [a \in DOMAIN f |-> IF f[a] = "waiting" THEN "woken" ELSE f[a]]

\* Mutant: notify_all is forgotten.
WaitNoNotify(a) ==
    /\ at[a] = "new"
    /\ Ph.sync = "Wait"
    /\ IF bar.count + 1 = cfg.n_threads + 1
       THEN /\ bar' = [bar EXCEPT !.count = 0, !.generation = @ + 1]
            /\ at' = [at EXCEPT ![a] = Through(a)]
       ELSE /\ bar' = [bar EXCEPT !.count = @ + 1, !.gen[a] = bar.generation]
            /\ at' = [at EXCEPT ![a] = "waiting"]

\* Barrier::Wait of the C++ programs: counts down from n_threads + 1 (count
\* here is the number of arrivals, initialCount minus the code's).
Wait(a) ==
    /\ at[a] = "new"
    /\ Ph.sync = "Wait"
    /\ IF bar.count + 1 = cfg.n_threads + 1
       THEN /\ bar' = [bar EXCEPT !.count = 0, !.generation = @ + 1]
            /\ at' = [WakeAll(at) EXCEPT ![a] = Through(a)]
       ELSE /\ bar' = [bar EXCEPT !.count = @ + 1, !.gen[a] = bar.generation]
            /\ at' = [at EXCEPT ![a] = "waiting"]

\* Mutant: a wait without a predicate.
WaitWakeBlind(a) ==
    /\ at[a] = "woken"
    /\ Ph.sync = "Wait"
    /\ at' = [at EXCEPT ![a] = Through(a)]
    /\ UNCHANGED bar

\* cv.wait(lock, pred) goes back to sleep while the generation is its own.
WaitWake(a) ==
    /\ at[a] = "woken"
    /\ Ph.sync = "Wait"
    /\ at' = [at EXCEPT ![a] =
                IF bar.gen[a] # bar.generation THEN Through(a) ELSE "waiting"]
    /\ UNCHANGED bar

barrier_cross(a) ==
    /\ at[a] = "new"
    /\ Ph.sync = "cross"
    /\ IF bar.count + 1 < cfg.n_threads + 1
       THEN /\ bar' = [bar EXCEPT !.count = @ + 1]
            /\ at' = [at EXCEPT ![a] = "waiting"]
       ELSE /\ bar' = [bar EXCEPT !.count = 0]
            /\ at' = [WakeAll(at) EXCEPT ![a] = Through(a)]

\* pthread_cond_wait is not in a loop: whatever woke it, the thread goes on.
cross_wake(a) ==
    /\ at[a] = "woken"
    /\ Ph.sync = "cross"
    /\ at' = [at EXCEPT ![a] = Through(a)]
    /\ UNCHANGED bar

Barrier(a) ==
    /\ \/ Wait(a) \/ WaitWake(a) \/ barrier_cross(a) \/ cross_wake(a)
    /\ at[Main] # "exit"
    /\ UNCHANGED <<cfg, phase, created, joined, cpu, pin, cnt, total_count, mem,
                   sample, report>>

\* POSIX lets a wait on a condition variable return with nobody having signalled.
SpuriousWakeup(a) ==
    /\ cfg.spurious
    /\ at[a] = "waiting"
    /\ at[Main] # "exit"
    /\ at' = [at EXCEPT ![a] = "woken"]
    /\ UNCHANGED <<cfg, phase, created, joined, bar, cpu, pin, cnt, total_count,
                   mem, sample, report>>

----------------------------------------------------------------------------
(* The body of a thread.                                                   *)

OwnPages(t) == thread_start(cfg, t) .. thread_start(cfg, t + 1) - 1

Running(t) == at[t] = "run" /\ at[Main] # "exit"

\* The populating loop (test_parallel for keys) and the write-back by
\* madvise(MADV_PAGEOUT) treat the thread's own pages one after the other;
\* nothing reads them before the phase is joined.
FillOrPageout(t) ==
    /\ Running(t)
    /\ Ph.work \in {"fill", "pageout"}
    /\ mem' = [p \in DOMAIN mem |->
                IF p \notin OwnPages(t) THEN mem[p]
                ELSE IF Ph.work = "fill" THEN "filled" ELSE "out"]
    /\ cnt' = [cnt EXCEPT ![t] = per_thread_size(cfg)]
    /\ at' = [at EXCEPT ![t] = "done"]
    /\ UNCHANGED <<cfg, phase, created, joined, bar, cpu, pin, total_count,
                   sample, report>>

Touched(v) == IF cfg.write_test THEN "written" ELSE IF v = "out" THEN "filled" ELSE v

\* One measured access: touch the page, store the latency in its slot, cnt++.
Access(t) ==
    /\ Running(t)
    /\ Measured
    /\ cnt[t] < Len(Accesses(cfg, t))
    /\ \E p \in Accesses(cfg, t)[cnt[t] + 1] :
         mem' = [mem EXCEPT ![p] = Touched(@)]
    /\ sample' = IF Sampled(cfg, cnt[t])
                 THEN [sample EXCEPT ![Slot(cfg, t, cnt[t])] = @ \cup {<<t, cnt[t]>>}]
                 ELSE sample
    /\ cnt' = [cnt EXCEPT ![t] = @ + 1]
    /\ UNCHANGED <<cfg, phase, at, created, joined, bar, cpu, pin, total_count,
                   report>>

\* total_count[tid] = cnt, and the thread returns.
Finish(t) ==
    /\ Running(t)
    /\ Measured
    /\ cnt[t] = Len(Accesses(cfg, t))
    /\ total_count' = [total_count EXCEPT ![t] = cnt[t]]
    /\ at' = [at EXCEPT ![t] = "done"]
    /\ UNCHANGED <<cfg, phase, created, joined, bar, cpu, pin, cnt, mem, sample,
                   report>>

----------------------------------------------------------------------------
(* Main again.                                                             *)

Join ==
    /\ at[Main] = "join"
    /\ joined < cfg.n_threads
    /\ at[joined] = "done"
    /\ joined' = joined + 1
    /\ UNCHANGED <<cfg, phase, at, created, bar, cpu, pin, cnt, total_count, mem,
                   sample, report>>

\* The next phase; mage_noeviction.cc clears the samples and restarts the
\* processor numbering before each of its pinned phases.
NextPhase ==
    /\ at[Main] = "join"
    /\ joined = cfg.n_threads
    /\ ~Measured
    /\ phase' = phase + 1
    /\ at' = [a \in DOMAIN at |-> IF a = Main THEN "create" ELSE "none"]
    /\ created' = 0 /\ joined' = 0
    /\ cnt' = [t \in Tids |-> 0]
    /\ pin' = [t \in Tids |-> None]
    /\ cpu' = IF cfg.file = "mage" THEN CpuReset ELSE cpu
    /\ UNCHANGED <<cfg, bar, total_count, mem, sample, report>>

\* Sum the counts, sort, print the percentiles.
Report ==
    /\ at[Main] = "join"
    /\ joined = cfg.n_threads
    /\ Measured
    /\ LET count == SumFunctionOnSet(total_count, Live)
       IN  report' = [count |-> count, sorted |-> Sorted(cfg, count),
                      p99 |-> P99Position(cfg, count)]
    /\ at' = [at EXCEPT ![Main] = "done"]
    /\ UNCHANGED <<cfg, phase, created, joined, bar, cpu, pin, cnt, total_count,
                   mem, sample>>

Ended == at[Main] \in {"done", "exit"}
Stop == Ended /\ UNCHANGED vars

Next ==
    \/ CreateThread \/ AllCreated \/ WorkerFails \/ Join \/ NextPhase \/ Report
    \/ \E a \in Actors : Barrier(a) \/ SpuriousWakeup(a)
    \/ \E t \in Live : FillOrPageout(t) \/ Access(t) \/ Finish(t)
    \/ Stop

MainStep == CreateThread \/ AllCreated \/ Join \/ NextPhase \/ Report \/ Barrier(Main)
ThreadStep(t) == t \in Live /\ (Barrier(t) \/ FillOrPageout(t) \/ Access(t) \/ Finish(t))

(* Every runnable thread is scheduled; a failing connection and a wake-up  *)
(* out of nowhere never have to happen.                                    *)
Fairness == WF_vars(MainStep) /\ \A t \in Tids : WF_vars(ThreadStep(t))

Spec == Init /\ [][Next]_vars /\ Fairness

----------------------------------------------------------------------------
(* Properties.                                                             *)

\* The measured work of a phase that starts at a barrier does not begin before
\* every thread of the phase and main have arrived at it: the throughput main
\* computes covers all accesses (Barrier::Wait, barrier_cross).
StartTogether ==
    Ph.sync # "none" /\ (\E t \in Live : at[t] \in {"run", "done"})
        => at[Main] \notin {"create", "new"} /\ \A u \in Live : at[u] \notin {"none", "new"}

\* While there are processors enough, no two threads of a phase share one
\* (getCPUid; CPU_SET(NUMA_CPUS + ii) in test_thread.c).
PinnedApart ==
    cfg.n_threads <= NUM_SOCKET * NUM_PHYSICAL_CPU_PER_SOCKET * SMT_LEVEL =>
        \A t, u \in Live : t # u /\ pin[t] # None => pin[t] # pin[u]

\* A measured phase is what its program says it is: it starts together, on
\* processors of its own.
PhaseSetUp == StartTogether /\ PinnedApart

AboutToAccess(t) == Running(t) /\ Measured /\ cnt[t] < Len(Accesses(cfg, t))

\* A measured access finds its page populated by the earlier phase, stays in
\* its thread's part unless the test is shared, and (mage_noeviction.cc, first
\* round) finds it written back: "Then read from the remote side".
AccessesPrepared ==
    \A t \in Live : AboutToAccess(t) =>
        \A p \in Accesses(cfg, t)[cnt[t] + 1] :
            /\ p \in DOMAIN mem
            /\ ~cfg.minor_fault => mem[p] # "raw"
            /\ ~Keyed /\ ~(cfg.random_access /\ ~cfg.exclusive) => p \in OwnPages(t)
            /\ cfg.file = "mage" /\ cnt[t] < per_thread_size(cfg) => mem[p] = "out"

Taken(t) == {k \in 0 .. cnt[t] - 1 : Measured /\ Sampled(cfg, k)}

\* The runs whose array keeps every sample: test_thread.c's does not, mlock.cpp
\* sorts more than it wrote, and page_fault.cc computes a thread's first slot
\* without total_iter, so threads that scan more than once overwrite each other.
KeepsSamples ==
    /\ cfg.file \notin {"test_thread", "mlock"}
    /\ cfg.file = "page_fault_cc" =>
         cfg.random_access \/ cfg.total_iter = 1 \/ cfg.n_threads = 1

\* Latencies go to slots of the array; where samples are kept, no thread
\* overwrites one (another thread's or its own) and main sorts and reports only
\* slots that were written; its count is the number of accesses made.
SamplesSound ==
    /\ \A t \in Live : AboutToAccess(t) /\ Sampled(cfg, cnt[t]) =>
            Slot(cfg, t, cnt[t]) \in DOMAIN sample
    /\ KeepsSamples => \A t \in Live : \A k \in Taken(t) : sample[Slot(cfg, t, k)] = {<<t, k>>}
    /\ report # None =>
        /\ report.count = SumFunctionOnSet(cnt, Live)
        /\ KeepsSamples => \A s \in 0 .. report.sorted - 1 : sample[s] # {}


\* The value printed as "p99-latency" is one that at most a hundredth of the
\* samples in the array exceed ("p99 latency", test_thread.c).
ReportsP99 ==
    report # None =>
        100 * report.p99 <= Cardinality({s \in DOMAIN sample : sample[s] # {}})

\* Every run comes to its report, or exits because a worker could not start.
RunEnds == <>Ended
============================================================================
