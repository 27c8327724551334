----------------------------- MODULE ThreadPool -----------------------------
(***************************************************************************)
(* The worker pool of Metis (lib/pthreadpool.c) and the fork/join loop     *)
(* that drives it (mr_run_task of lib/mr-sched.c).                         *)
(*                                                                         *)
(* The main thread and each pool thread communicate through four volatile  *)
(* words per logical cpu: arg, start_routine, ready and running.  There is *)
(* no lock: the main thread spins on running and ready, the worker spins   *)
(* on ready.  Every store, and every read that ends a spin, is one step    *)
(* here.  Stores are seen in program order, as on the x86 machines the     *)
(* code is built for.                                                      *)
(***************************************************************************)
EXTENDS Naturals

CONSTANTS NCpus,       \* nlcpus of mthread_init
          MainLcpu,    \* mlcpu of mthread_init
          MaxPhases,   \* bound: calls of mr_run_task
          MaxInits     \* bound: times the pool is created

ASSUME PoolAssumption == /\ NCpus \in Nat \ {0}
                         /\ MainLcpu \in 0 .. NCpus - 1
                         /\ MaxPhases \in Nat
                         /\ MaxInits \in Nat

Lcpu    == 0 .. NCpus - 1
Workers == Lcpu \ {MainLcpu}

VARIABLES
  mthread_inited,  \* the pool exists
  inits,           \* history: how often it was created
  mpc,             \* where the main thread is
  routine,         \* the start_routine the main thread is handing out
  ncpus,           \* upper end of the main thread's loop over lcpus
  cur,             \* its loop index i
  phase,           \* number of mr_run_task calls so far; names its task_pos
  live,            \* task_pos blocks allocated and not freed
  arg, start_routine, ready, running,  \* thread_pool[lid]
  wpc,             \* where each pool thread is in mthread_entry
  warg             \* the argument its routine was called with

pool == <<arg, start_routine, ready, running>>
main == <<mthread_inited, inits, mpc, routine, ncpus, cur, phase, live>>
vars == <<main, pool, wpc, warg>>

NullArg == 0

MainPc == {"idle", "create", "set_arg", "set_routine", "set_ready",
           "wait_ready", "inline", "inline_body", "join", "pjoin"}
WorkerPc == {"absent", "spin", "set_running", "clear_ready", "call", "body",
             "clear_running", "exited"}
Routine == {"worker", "exit"}

TypeOK ==
  /\ mthread_inited \in BOOLEAN
  /\ inits \in 0 .. MaxInits
  /\ mpc \in MainPc
  /\ routine \in Routine
  /\ ncpus \in 0 .. NCpus
  /\ cur \in 0 .. NCpus
  /\ phase \in 0 .. MaxPhases
  /\ live \in SUBSET (1 .. MaxPhases)
  /\ arg \in [Lcpu -> 0 .. MaxPhases]
  /\ start_routine \in [Lcpu -> Routine]
  /\ ready \in [Lcpu -> BOOLEAN]
  /\ running \in [Lcpu -> BOOLEAN]
  /\ wpc \in [Lcpu -> WorkerPc]
  /\ warg \in [Lcpu -> 0 .. MaxPhases]

(* Both loops of mr_run_task, and both of mthread_finalize, go over the    *)
(* lcpus in order and skip the main one.                                   *)
SkipMain(i) == IF i = MainLcpu THEN i + 1 ELSE i
FirstLcpu == SkipMain(0)

NextLcpu == SkipMain(cur + 1)

(* memset(&thread_pool, 0, ...)                                            *)
ClearPool == /\ arg' = [l \in Lcpu |-> NullArg]
             /\ start_routine' = [l \in Lcpu |-> "worker"]
             /\ ready' = [l \in Lcpu |-> FALSE]
             /\ running' = [l \in Lcpu |-> FALSE]

Init ==
  /\ mthread_inited = FALSE /\ inits = 0
  /\ mpc = "idle" /\ routine = "worker"
  /\ ncpus = 0 /\ cur = FirstLcpu
  /\ phase = 0 /\ live = {}
  /\ arg = [l \in Lcpu |-> NullArg]
  /\ start_routine = [l \in Lcpu |-> "worker"]
  /\ ready = [l \in Lcpu |-> FALSE]
  /\ running = [l \in Lcpu |-> FALSE]
  /\ wpc = [l \in Lcpu |-> "absent"]
  /\ warg = [l \in Lcpu |-> NullArg]

-----------------------------------------------------------------------------
(* The main thread                                                         *)

(* mthread_init: clear the table, start one thread per other lcpu.  A call *)
(* on a pool that exists returns at once and is not a step.                *)
MthreadInit ==
  /\ mpc = "idle" /\ ~mthread_inited /\ inits < MaxInits
  /\ mthread_inited' = TRUE
  /\ inits' = inits + 1
  /\ ClearPool
  /\ wpc' = [l \in Lcpu |-> IF l = MainLcpu THEN "absent" ELSE "spin"]
  /\ UNCHANGED <<mpc, routine, ncpus, cur, phase, live, warg>>

(* mr_run_task is entered: allocate task_pos, start the creation loop over *)
(* the n lcpus of the phase (all of them, or merge_ncpus when merging).    *)
RunTask(n) ==
  /\ mpc = "idle" /\ mthread_inited /\ phase < MaxPhases
  /\ phase' = phase + 1
  /\ live' = live \cup {phase + 1}
  /\ ncpus' = n /\ cur' = FirstLcpu /\ routine' = "worker"
  /\ mpc' = "create"
  /\ UNCHANGED <<mthread_inited, inits, pool, wpc, warg>>

(* mr_run_task passes task_pos, mthread_finalize passes NULL.              *)
HandedArg == IF routine = "worker" THEN phase ELSE NullArg

(* mthread_create(lid): wait for the worker to be free, hand the routine   *)
(* over field by field, raise ready and wait for the acknowledgement.      *)
CreateStart ==
  /\ mpc = "create" /\ cur < ncpus
  /\ ~running[cur]
  /\ mpc' = "set_arg"
  /\ UNCHANGED <<mthread_inited, inits, routine, ncpus, cur, phase, live,
                 pool, wpc, warg>>

SetArg ==
  /\ mpc = "set_arg"
  /\ arg' = [arg EXCEPT ![cur] = HandedArg]
  /\ mpc' = "set_routine"
  /\ UNCHANGED <<mthread_inited, inits, routine, ncpus, cur, phase, live,
                 start_routine, ready, running, wpc, warg>>

SetRoutine ==
  /\ mpc = "set_routine"
  /\ start_routine' = [start_routine EXCEPT ![cur] = routine]
  /\ mpc' = "set_ready"
  /\ UNCHANGED <<mthread_inited, inits, routine, ncpus, cur, phase, live,
                 arg, ready, running, wpc, warg>>

SetReady ==
  /\ mpc = "set_ready"
  /\ ready' = [ready EXCEPT ![cur] = TRUE]
  /\ mpc' = "wait_ready"
  /\ UNCHANGED <<mthread_inited, inits, routine, ncpus, cur, phase, live,
                 arg, start_routine, running, wpc, warg>>

(* A main thread that does not wait for the acknowledgement.               *)
WaitReadyWithoutAck ==
  /\ mpc = "wait_ready"
  /\ cur' = NextLcpu
  /\ mpc' = "create"
  /\ UNCHANGED <<mthread_inited, inits, routine, ncpus, phase, live, pool,
                 wpc, warg>>

WaitReady ==
  /\ mpc = "wait_ready"
  /\ ~ready[cur]
  /\ cur' = NextLcpu
  /\ mpc' = "create"
  /\ UNCHANGED <<mthread_inited, inits, routine, ncpus, phase, live, pool,
                 wpc, warg>>

(* The creation loop ends: run the main cpu's share inline, or wait for    *)
(* the exiting threads.                                                    *)
CreateDone ==
  /\ mpc = "create" /\ cur >= ncpus
  /\ mpc' = IF routine = "worker" THEN "inline" ELSE "pjoin"
  /\ cur' = FirstLcpu
  /\ UNCHANGED <<mthread_inited, inits, routine, ncpus, phase, live, pool,
                 wpc, warg>>

(* mthread_create(main_lcpu) calls the worker routine itself.              *)
InlineBegin ==
  /\ mpc = "inline"
  /\ mpc' = "inline_body"
  /\ UNCHANGED <<mthread_inited, inits, routine, ncpus, cur, phase, live,
                 pool, wpc, warg>>

InlineEnd ==
  /\ mpc = "inline_body"
  /\ mpc' = "join"
  /\ UNCHANGED <<mthread_inited, inits, routine, ncpus, cur, phase, live,
                 pool, wpc, warg>>

(* A join that does not look at running.                                   *)
MthreadJoinBlind ==
  /\ mpc = "join" /\ cur < ncpus
  /\ cur' = NextLcpu
  /\ UNCHANGED <<mthread_inited, inits, mpc, routine, ncpus, phase, live,
                 pool, wpc, warg>>

MthreadJoin ==
  /\ mpc = "join" /\ cur < ncpus
  /\ ~running[cur]
  /\ cur' = NextLcpu
  /\ UNCHANGED <<mthread_inited, inits, mpc, routine, ncpus, phase, live,
                 pool, wpc, warg>>

(* The join loop ends: free(task_pos) and return from mr_run_task.         *)
TaskReturn ==
  /\ mpc = "join" /\ cur >= ncpus
  /\ live' = live \ {phase}
  /\ mpc' = "idle"
  /\ UNCHANGED <<mthread_inited, inits, routine, ncpus, cur, phase, pool,
                 wpc, warg>>

(* mthread_finalize hands mthread_exit to every worker, joins the threads  *)
(* and clears the table.                                                   *)
MthreadFinalize ==
  /\ mpc = "idle" /\ mthread_inited
  /\ ncpus' = NCpus /\ cur' = FirstLcpu /\ routine' = "exit"
  /\ mpc' = "create"
  /\ UNCHANGED <<mthread_inited, inits, phase, live, pool, wpc, warg>>

(* A finalize that does not wait for the threads to exit.                  *)
PthreadJoinBlind ==
  /\ mpc = "pjoin" /\ cur < ncpus
  /\ cur' = NextLcpu
  /\ UNCHANGED <<mthread_inited, inits, mpc, routine, ncpus, phase, live,
                 pool, wpc, warg>>

PthreadJoin ==
  /\ mpc = "pjoin" /\ cur < ncpus
  /\ wpc[cur] = "exited"
  /\ cur' = NextLcpu
  /\ UNCHANGED <<mthread_inited, inits, mpc, routine, ncpus, phase, live,
                 pool, wpc, warg>>

FinalizeReturn ==
  /\ mpc = "pjoin" /\ cur >= ncpus
  /\ ClearPool
  /\ mthread_inited' = FALSE
  /\ mpc' = "idle"
  /\ UNCHANGED <<inits, routine, ncpus, cur, phase, live, wpc, warg>>

MainStep ==
  \/ CreateStart \/ SetArg \/ SetRoutine \/ SetReady
  \/ WaitReady \/ CreateDone \/ InlineBegin \/ InlineEnd \/ MthreadJoin
  \/ TaskReturn \/ PthreadJoin \/ FinalizeReturn

-----------------------------------------------------------------------------
(* A pool thread: the loop of mthread_entry                                *)

Goto(w, from, to) == /\ wpc[w] = from
                     /\ wpc' = [wpc EXCEPT ![w] = to]

SeeReady(w) ==
  /\ Goto(w, "spin", "set_running")
  /\ ready[w]
  /\ UNCHANGED <<main, pool, warg>>

SetRunning(w) ==
  /\ Goto(w, "set_running", "clear_ready")
  /\ running' = [running EXCEPT ![w] = TRUE]
  /\ UNCHANGED <<main, arg, start_routine, ready, warg>>

ClearReady(w) ==
  /\ Goto(w, "clear_ready", "call")
  /\ ready' = [ready EXCEPT ![w] = FALSE]
  /\ UNCHANGED <<main, arg, start_routine, running, warg>>

(* start_routine(arg): mthread_exit ends the thread, with running set.     *)
Call(w) ==
  /\ wpc[w] = "call"
  /\ \/ /\ start_routine[w] = "exit"
        /\ wpc' = [wpc EXCEPT ![w] = "exited"]
        /\ UNCHANGED warg
     \/ /\ start_routine[w] = "worker"
        /\ wpc' = [wpc EXCEPT ![w] = "body"]
        /\ warg' = [warg EXCEPT ![w] = arg[w]]
  /\ UNCHANGED <<main, pool>>

BodyEnd(w) ==
  /\ Goto(w, "body", "clear_running")
  /\ UNCHANGED <<main, pool, warg>>

(* A thread that forgets to clear running.                                 *)
ClearRunningForgotten(w) ==
  /\ Goto(w, "clear_running", "spin")
  /\ UNCHANGED <<main, pool, warg>>

ClearRunning(w) ==
  /\ Goto(w, "clear_running", "spin")
  /\ running' = [running EXCEPT ![w] = FALSE]
  /\ UNCHANGED <<main, arg, start_routine, ready, warg>>

WorkerStep(w) ==
  \/ SeeReady(w) \/ SetRunning(w) \/ ClearReady(w) \/ Call(w)
  \/ BodyEnd(w) \/ ClearRunning(w)

Next == \/ MthreadInit
        \/ MainStep
        \/ \E n \in 1 .. NCpus : RunTask(n)
        \/ MthreadFinalize
        \/ \E w \in Workers : WorkerStep(w)

Safety == Init /\ [][Next]_vars

(* Every thread of a running process is scheduled, and every worker        *)
(* routine ends (BodyEnd is part of WorkerStep).  The program is not       *)
(* obliged to call mr_run_task, mthread_init or mr_finalize again.         *)
Fairness == /\ WF_vars(MainStep)
            /\ \A w \in Workers : WF_vars(WorkerStep(w))

Spec == Safety /\ Fairness

-----------------------------------------------------------------------------
(* Properties                                                              *)

InPhase == routine = "worker" /\ mpc # "idle"
InLoop == {"create", "set_arg", "set_routine", "set_ready", "wait_ready"}

(* A pool thread that is inside a worker routine runs the routine of the   *)
(* mr_run_task call that is active now, with that call's task_pos, and     *)
(* that block has not been freed: no thread is left over from an earlier   *)
(* phase, and mr_reduce_worker never increments freed memory.              *)
PhaseIsolation ==
  \A w \in Workers : wpc[w] = "body" =>
    /\ InPhase
    /\ w < ncpus
    /\ warg[w] = phase
    /\ phase \in live

(* The fields a worker was given do not change between the moment the main *)
(* thread raises ready and the worker's call of start_routine(arg).        *)
HandoffStable ==
  [][\A w \in Workers :
       arg'[w] # arg[w] \/ start_routine'[w] # start_routine[w] =>
         ~ready[w] /\ wpc[w] \in {"absent", "spin", "exited"}]_vars

(* The table is cleared by mthread_finalize only when every pool thread is *)
(* gone: none of them sees its words change under it.                      *)
FinalizeQuiescent ==
  [][mthread_inited /\ ~mthread_inited' =>
       \A w \in Workers : wpc[w] = "exited"]_vars

(* Every call of mr_run_task, and every mthread_finalize, returns: the     *)
(* spin loops on ready and running never wait for each other.              *)
CallsReturn == (mpc # "idle") ~> (mpc = "idle")

(* The main thread has not yet reached worker w in its creation loop.      *)
Fresh(w) == \/ mpc \in InLoop \ {"wait_ready"} /\ cur <= w
            \/ mpc = "wait_ready" /\ cur < w
            \/ w >= ncpus

(* Worker w has taken what it was given: it runs it, or has finished it.   *)
Acked(w) ==
  \/ /\ routine = "worker"
     /\ \/ running[w] /\ wpc[w] \in {"call", "body", "clear_running"}
        \/ ~running[w] /\ wpc[w] = "spin"
  \/ routine = "exit" /\ running[w] /\ wpc[w] \in {"call", "exited"}

Resting(w) == wpc[w] = "spin" /\ ~ready[w] /\ ~running[w]

(* The four states of the hand-shake of one worker during wait_ready.      *)
Shaking(w) == \/ ready[w] /\ ~running[w] /\ wpc[w] \in {"spin", "set_running"}
              \/ ready[w] /\ running[w] /\ wpc[w] = "clear_ready"
              \/ ~ready[w] /\ Acked(w)

MainInv ==
  /\ cur # MainLcpu
  /\ mpc # "idle" => mthread_inited
  /\ mpc \in {"set_arg", "set_routine", "set_ready", "wait_ready"} => cur < ncpus
  /\ mpc \in {"inline", "inline_body", "join"} => routine = "worker"
  /\ mpc \in {"inline", "inline_body"} => cur = FirstLcpu
  /\ mpc = "pjoin" => routine = "exit"
  /\ mpc # "idle" /\ routine = "exit" => ncpus = NCpus
  /\ InPhase => phase \in live

WorkerInv(w) ==
  /\ ~mthread_inited => /\ wpc[w] \in {"absent", "exited"}
                        /\ ~ready[w] /\ ~running[w]
  /\ mthread_inited /\ mpc = "idle" => Resting(w)
  /\ mpc # "idle" =>
       /\ Fresh(w) => Resting(w)
       /\ mpc = "wait_ready" /\ cur = w => Shaking(w)
       /\ ~Fresh(w) /\ ~(mpc = "wait_ready" /\ cur = w) =>
            ~ready[w] /\ Acked(w)
       /\ mpc = "join" /\ w < cur /\ w < ncpus => wpc[w] = "spin"
       /\ mpc = "pjoin" /\ w < cur => wpc[w] = "exited"

ArgInv(w) ==
  /\ mpc \in {"set_routine", "set_ready"} /\ cur = w => arg[w] = HandedArg
  /\ mpc = "set_ready" /\ cur = w => start_routine[w] = routine
  /\ ready[w] \/ wpc[w] = "call" =>
       arg[w] = HandedArg /\ start_routine[w] = routine
  /\ wpc[w] = "body" => warg[w] = phase

(* The inductive invariant: where the main thread is determines what each  *)
(* worker may be doing, and a worker that has been given something still   *)
(* finds it in its words.                                                  *)
PoolInv == MainInv /\ \A w \in Workers : WorkerInv(w) /\ ArgInv(w)

-----------------------------------------------------------------------------
(* The abstract fork/join that the hand-shake implements.  What a cpu has  *)
(* done of the phase is read off the program counters.                     *)

(* Worker w is still to be created, or is between ready and its call.      *)
Todo(w) == \/ mpc \in InLoop \ {"wait_ready"} /\ cur <= w
           \/ mpc = "wait_ready" /\ cur < w
           \/ ready[w]
           \/ wpc[w] = "call"

WorkerView(w) == IF ~InPhase \/ w >= ncpus THEN "none"
                 ELSE IF wpc[w] = "body" THEN "running"
                 ELSE IF Todo(w) THEN "todo"
                 ELSE "done"

MainView == IF ~InPhase THEN "none"
            ELSE IF mpc \in InLoop \cup {"inline"} THEN "todo"
            ELSE IF mpc = "inline_body" THEN "running"
            ELSE "done"

View == [l \in Lcpu |-> IF l = MainLcpu THEN MainView ELSE WorkerView(l)]

FJ == INSTANCE ForkJoin WITH Lcpu <- Lcpu, inphase <- InPhase, wst <- View

(* The pool gives mr_run_task a fork/join: every cpu of the team runs the  *)
(* routine exactly once per call, between the fork and the return, and the *)
(* call does return.                                                       *)
ImplementsForkJoin == FJ!FJSpec
=============================================================================
