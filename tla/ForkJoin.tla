------------------------------ MODULE ForkJoin ------------------------------
(***************************************************************************)
(* What Metis' scheduler relies on when it calls mr_run_task: a team of    *)
(* logical cpus is forked, every member runs the phase's worker routine    *)
(* exactly once, and the call returns only when all of them have finished. *)
(* The hand-shake of lib/pthreadpool.c (module ThreadPool) implements this *)
(* specification; the scheduler (module MapReduce) is written on top of    *)
(* its actions.                                                            *)
(***************************************************************************)
CONSTANT Lcpu                  \* the logical cpus of the pool

VARIABLES inphase,             \* TRUE while an mr_run_task call is active
          wst                  \* what each cpu has done of the current phase

fjvars == <<inphase, wst>>

WorkerState == {"none", "todo", "running", "done"}

FJTypeOK == /\ inphase \in BOOLEAN
            /\ wst \in [Lcpu -> WorkerState]

FJInit == /\ inphase = FALSE
          /\ wst = [l \in Lcpu |-> "none"]

(* mr_run_task is entered: every member of the team has the body to run.   *)
Fork(team) == /\ ~inphase
              /\ inphase' = TRUE
              /\ wst' = [l \in Lcpu |-> IF l \in team THEN "todo" ELSE "none"]

(* Cpu l enters, and leaves, the worker routine of the phase.              *)
Begin(l) == /\ wst[l] = "todo"
            /\ wst' = [wst EXCEPT ![l] = "running"]
            /\ UNCHANGED inphase

End(l) == /\ wst[l] = "running"
          /\ wst' = [wst EXCEPT ![l] = "done"]
          /\ UNCHANGED inphase

(* mr_run_task returns: nobody has work left.                              *)
Join == /\ inphase
        /\ \A l \in Lcpu : wst[l] \in {"none", "done"}
        /\ inphase' = FALSE
        /\ wst' = [l \in Lcpu |-> "none"]

FJNext == \/ \E team \in SUBSET Lcpu : Fork(team)
          \/ \E l \in Lcpu : Begin(l) \/ End(l)
          \/ Join

FJSafety == FJInit /\ [][FJNext]_fjvars

(* A forked phase goes on until it is joined; nobody has to fork another.  *)
FJFairness == /\ \A l \in Lcpu : WF_fjvars(Begin(l)) /\ WF_fjvars(End(l))
              /\ WF_fjvars(Join)

FJSpec == FJSafety /\ FJFairness
=============================================================================
