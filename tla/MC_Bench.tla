------------------------------ MODULE MC_Bench ------------------------------
(***************************************************************************)
(* Command lines for Bench: two to five threads, an array of 24 pages, a   *)
(* sample every second access.  With 24 pages, per_thread_size is a        *)
(* multiple of the gap for 2 and 3 threads, as 6 GB / n is of kSampleGap   *)
(* for the thread counts the artifact uses.                                *)
(***************************************************************************)
EXTENDS Bench

Run(f, n) ==
    [file |-> f, n_threads |-> n, stride |-> 1, total_iter |-> 1,
     random_access |-> FALSE, exclusive |-> FALSE, write_test |-> FALSE,
     minor_fault |-> FALSE, gap |-> 2, spurious |-> f # "test_thread"]

Random(r) == [r EXCEPT !.random_access = TRUE]

PassingRuns == {
    Run("page_fault_cc", 3),
    [Run("page_fault_cc", 3) EXCEPT !.stride = 2],
    [Run("page_fault_cc", 2) EXCEPT !.minor_fault = TRUE, !.write_test = TRUE],
    [Run("page_fault_cc", 2) EXCEPT !.total_iter = 2, !.spurious = FALSE],
    Random([Run("page_fault_cc", 3) EXCEPT !.exclusive = TRUE, !.spurious = FALSE]),
    [Run("page_fault_cpp", 2) EXCEPT !.total_iter = 2, !.gap = 4],
    [Run("seq_scan", 2) EXCEPT !.stride = 3, !.total_iter = 2, !.gap = 3],
    Random([Run("seq_scan", 2) EXCEPT !.spurious = FALSE]),
    [Run("workingset", 2) EXCEPT !.write_test = TRUE, !.spurious = FALSE],
    [Run("mlock", 2) EXCEPT !.stride = 2],
    [Run("mage", 3) EXCEPT !.spurious = FALSE],
    [Run("workingset", 5) EXCEPT !.spurious = FALSE],
    Run("test_thread", 3)}

(* Known failures (Bench_p99.cfg): the percentile of test_thread.c, and     *)
(* the samples of page_fault.cc with more than one iteration.              *)
LatencyRuns == {[Run("test_thread", 2) EXCEPT !.gap = 1],
                [Run("page_fault_cc", 2) EXCEPT !.total_iter = 2]}

(* No sample of page_fault.cc is overwritten.                              *)
SamplesKept ==
    cfg.file = "page_fault_cc" =>
        \A t \in Live : \A k \in Taken(t) : sample[Slot(cfg, t, k)] = {<<t, k>>}
=============================================================================
