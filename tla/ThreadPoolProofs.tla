-------------------------- MODULE ThreadPoolProofs --------------------------
(***************************************************************************)
(* Proofs about the worker pool, for every number of cpus, phases and      *)
(* pool creations: type correctness, the inductive invariant PoolInv, what *)
(* follows from it, and that the pool implements the safety part of the    *)
(* abstract fork/join.                                                     *)
(***************************************************************************)
EXTENDS ThreadPool, TLAPS

USE PoolAssumption

(* Where the main thread's loop index can go: it stays on the lcpus, never *)
(* rests on the main one, and passes over no worker.                       *)
LEMMA NextLcpuType ==
  ASSUME cur \in 0 .. NCpus, cur < NCpus
  PROVE  /\ NextLcpu \in 0 .. NCpus
         /\ NextLcpu # MainLcpu
         /\ NextLcpu > cur
         /\ \A w \in Workers : w < NextLcpu => w <= cur
  BY DEF NextLcpu, SkipMain, Workers, Lcpu

(* The loops start at the first worker.                                    *)
LEMMA FirstLcpuType ==
  /\ FirstLcpu \in 0 .. NCpus
  /\ FirstLcpu # MainLcpu
  /\ \A w \in Workers : w >= FirstLcpu /\ ~(w < FirstLcpu)
  BY DEF FirstLcpu, SkipMain, Workers, Lcpu

(* Every step keeps the types; the loop index needs MainInv.                *)
LEMMA TypeStep ==
  ASSUME TypeOK, MainInv, [Next]_vars
  PROVE  TypeOK'
<1> USE DEF TypeOK, MainPc, WorkerPc, Routine, Workers, Lcpu, NullArg
<1>1. CASE MthreadInit
  BY <1>1 DEF MthreadInit, ClearPool, NullArg
<1>2. CASE CreateStart
  BY <1>2 DEF CreateStart, pool
<1>3. CASE SetArg
  <2>1. HandedArg \in 0 .. MaxPhases
    BY DEF HandedArg
  <2> QED BY <1>3, <2>1 DEF SetArg
<1>4. CASE SetRoutine
  BY <1>4 DEF SetRoutine
<1>5. CASE SetReady
  BY <1>5 DEF SetReady
<1>6. CASE WaitReady
  <2>1. cur < NCpus
    BY <1>6 DEF WaitReady, MainInv
  <2> QED BY <1>6, <2>1, NextLcpuType DEF WaitReady, pool
<1>7. CASE CreateDone
  BY <1>7, FirstLcpuType DEF CreateDone, pool
<1>8. CASE InlineBegin
  BY <1>8 DEF InlineBegin, pool
<1>9. CASE InlineEnd
  BY <1>9 DEF InlineEnd, pool
<1>10. CASE MthreadJoin
  BY <1>10, NextLcpuType DEF MthreadJoin, pool
<1>11. CASE TaskReturn
  BY <1>11 DEF TaskReturn, pool
<1>12. CASE PthreadJoin
  BY <1>12, NextLcpuType DEF PthreadJoin, pool
<1>13. CASE FinalizeReturn
  <2>1. /\ ready' = [l \in Lcpu |-> FALSE]
        /\ running' = [l \in Lcpu |-> FALSE]
        /\ arg' = [l \in Lcpu |-> NullArg]
        /\ start_routine' = [l \in Lcpu |-> "worker"]
    BY <1>13 DEF FinalizeReturn, ClearPool
  <2>2. /\ mthread_inited' = FALSE
        /\ mpc' = "idle"
        /\ UNCHANGED <<inits, routine, ncpus, cur, phase, live, wpc, warg>>
    BY <1>13 DEF FinalizeReturn
  <2>3. mthread_inited' \in BOOLEAN /\ mpc' \in MainPc
    BY <2>2
  <2>4. ready' \in [Lcpu -> BOOLEAN] /\ running' \in [Lcpu -> BOOLEAN]
    BY <2>1
  <2>5. /\ arg' \in [Lcpu -> 0 .. MaxPhases]
        /\ start_routine' \in [Lcpu -> Routine]
    BY <2>1
  <2> QED BY <2>2, <2>3, <2>4, <2>5
<1>14. ASSUME NEW n \in 1 .. NCpus, RunTask(n) PROVE TypeOK'
  BY <1>14, FirstLcpuType DEF RunTask, pool
<1>15. CASE MthreadFinalize
  BY <1>15, FirstLcpuType DEF MthreadFinalize, pool
<1>16. ASSUME NEW x \in Workers, SeeReady(x) PROVE TypeOK'
  BY <1>16 DEF SeeReady, main, pool, Goto
<1>17. ASSUME NEW x \in Workers, SetRunning(x) PROVE TypeOK'
  BY <1>17 DEF SetRunning, main, Goto
<1>18. ASSUME NEW x \in Workers, ClearReady(x) PROVE TypeOK'
  BY <1>18 DEF ClearReady, main, Goto
<1>19. ASSUME NEW x \in Workers, Call(x) PROVE TypeOK'
  <2>1. CASE start_routine[x] = "exit"
    BY <1>19, <2>1 DEF Call, main, pool
  <2>2. CASE start_routine[x] = "worker"
    <3>1. /\ wpc' = [wpc EXCEPT ![x] = "body"]
          /\ warg' = [warg EXCEPT ![x] = arg[x]]
      BY <1>19, <2>2 DEF Call
    <3>2. wpc' \in [Lcpu -> WorkerPc] /\ warg' \in [Lcpu -> 0 .. MaxPhases]
      BY <3>1
    <3> QED BY <1>19, <3>2 DEF Call, main, pool
  <2> QED BY <1>19, <2>1, <2>2 DEF Call
<1>20. ASSUME NEW x \in Workers, BodyEnd(x) PROVE TypeOK'
  BY <1>20 DEF BodyEnd, main, pool, Goto
<1>21. ASSUME NEW x \in Workers, ClearRunning(x) PROVE TypeOK'
  BY <1>21 DEF ClearRunning, main, Goto
<1>22. CASE UNCHANGED vars
  BY <1>22 DEF vars, main, pool
<1> QED
  BY <1>1, <1>2, <1>3, <1>4, <1>5, <1>6, <1>7, <1>8, <1>9, <1>10, <1>11, <1>12, <1>13, <1>14, <1>15, <1>16, <1>17, <1>18, <1>19, <1>20, <1>21, <1>22
     DEF Next, MainStep, WorkerStep

(* What the main thread knows at each of its program points.               *)
LEMMA MainStepInv ==
  ASSUME TypeOK, MainInv, [Next]_vars
  PROVE  MainInv'
<1> USE DEF TypeOK, MainInv, InPhase, Routine, Workers, Lcpu
<1>1. CASE MthreadInit
  BY <1>1 DEF MthreadInit, ClearPool, NullArg
<1>2. CASE CreateStart
  BY <1>2 DEF CreateStart, pool
<1>3. CASE SetArg
  BY <1>3 DEF SetArg, HandedArg, NullArg
<1>4. CASE SetRoutine
  BY <1>4 DEF SetRoutine
<1>5. CASE SetReady
  BY <1>5 DEF SetReady
<1>6. CASE WaitReady
  BY <1>6, NextLcpuType DEF WaitReady, pool
<1>7. CASE CreateDone
  BY <1>7, FirstLcpuType DEF CreateDone, pool
<1>8. CASE InlineBegin
  BY <1>8 DEF InlineBegin, pool
<1>9. CASE InlineEnd
  BY <1>9 DEF InlineEnd, pool
<1>10. CASE MthreadJoin
  BY <1>10, NextLcpuType DEF MthreadJoin, pool
<1>11. CASE TaskReturn
  BY <1>11 DEF TaskReturn, pool
<1>12. CASE PthreadJoin
  BY <1>12, NextLcpuType DEF PthreadJoin, pool
<1>13. CASE FinalizeReturn
  BY <1>13 DEF FinalizeReturn, ClearPool, NullArg
<1>14. ASSUME NEW n \in 1 .. NCpus, RunTask(n) PROVE MainInv'
  BY <1>14, FirstLcpuType DEF RunTask, pool
<1>15. CASE MthreadFinalize
  BY <1>15, FirstLcpuType DEF MthreadFinalize, pool
<1>16. ASSUME NEW x \in Workers, SeeReady(x) PROVE MainInv'
  BY <1>16 DEF SeeReady, main, pool, Goto
<1>17. ASSUME NEW x \in Workers, SetRunning(x) PROVE MainInv'
  BY <1>17 DEF SetRunning, main, Goto
<1>18. ASSUME NEW x \in Workers, ClearReady(x) PROVE MainInv'
  BY <1>18 DEF ClearReady, main, Goto
<1>19. ASSUME NEW x \in Workers, Call(x) PROVE MainInv'
  BY <1>19 DEF Call, main, pool
<1>20. ASSUME NEW x \in Workers, BodyEnd(x) PROVE MainInv'
  BY <1>20 DEF BodyEnd, main, pool, Goto
<1>21. ASSUME NEW x \in Workers, ClearRunning(x) PROVE MainInv'
  BY <1>21 DEF ClearRunning, main, Goto
<1>22. CASE UNCHANGED vars
  BY <1>22 DEF vars, main, pool
<1> QED
  BY <1>1, <1>2, <1>3, <1>4, <1>5, <1>6, <1>7, <1>8, <1>9, <1>10, <1>11, <1>12, <1>13, <1>14, <1>15, <1>16, <1>17, <1>18, <1>19, <1>20, <1>21, <1>22
     DEF Next, MainStep, WorkerStep

(* What a worker may be doing at each program point of the main thread.    *)
LEMMA WorkerStepInv ==
  ASSUME TypeOK, MainInv,
         \A v \in Workers : WorkerInv(v) /\ ArgInv(v),
         NEW w \in Workers, [Next]_vars
  PROVE  WorkerInv(w)'
<1> USE DEF TypeOK, MainInv, WorkerInv, Fresh, Resting, Shaking, Acked, InLoop, Workers,
  Lcpu
<1>1. CASE MthreadInit
  BY <1>1 DEF MthreadInit, ClearPool, NullArg
<1>2. CASE CreateStart
  BY <1>2 DEF CreateStart, pool
<1>3. CASE SetArg
  BY <1>3 DEF SetArg, HandedArg, NullArg
<1>4. CASE SetRoutine
  BY <1>4 DEF SetRoutine
<1>5. CASE SetReady
  BY <1>5 DEF SetReady
<1>6. CASE WaitReady
  BY <1>6, NextLcpuType DEF WaitReady, pool
<1>7. CASE CreateDone
  <2>1. w < ncpus => ~ready[w] /\ Acked(w)
    BY <1>7 DEF CreateDone
  <2>2. w >= ncpus => Resting(w)
    BY <1>7 DEF CreateDone
  <2>3. mthread_inited' /\ mpc' \in {"inline", "pjoin"} /\ cur' = FirstLcpu
    BY <1>7 DEF CreateDone
  <2>5. ~(w < cur')
    BY <2>3, FirstLcpuType
  <2>4. UNCHANGED <<ready[w], running[w], wpc[w], routine, ncpus>>
    BY <1>7 DEF CreateDone, pool
  <2> QED BY <2>1, <2>2, <2>3, <2>4, <2>5
<1>8. CASE InlineBegin
  BY <1>8 DEF InlineBegin, pool
<1>9. CASE InlineEnd
  <2>1. w < ncpus => ~ready[w] /\ Acked(w)
    BY <1>9 DEF InlineEnd
  <2>2. w >= ncpus => Resting(w)
    BY <1>9 DEF InlineEnd
  <2>3. mthread_inited' /\ mpc' = "join" /\ cur' = FirstLcpu
    BY <1>9 DEF InlineEnd
  <2>5. ~(w < cur')
    BY <2>3, FirstLcpuType
  <2>4. UNCHANGED <<ready[w], running[w], wpc[w], routine, ncpus>>
    BY <1>9 DEF InlineEnd, pool
  <2> QED BY <2>1, <2>2, <2>3, <2>4, <2>5
<1>10. CASE MthreadJoin
  BY <1>10, NextLcpuType DEF MthreadJoin, pool
<1>11. CASE TaskReturn
  <2>1. CASE w >= ncpus
    BY <1>11, <2>1 DEF TaskReturn, pool
  <2>2. CASE w < ncpus
    <3>1. wpc[w] = "spin" /\ ~ready[w] /\ Acked(w)
      BY <1>11, <2>2 DEF TaskReturn
    <3>2. Resting(w)
      BY <3>1
    <3> QED BY <1>11, <3>2 DEF TaskReturn, pool
  <2> QED BY <2>1, <2>2
<1>12. CASE PthreadJoin
  BY <1>12, NextLcpuType DEF PthreadJoin, pool
<1>13. CASE FinalizeReturn
  BY <1>13 DEF FinalizeReturn, ClearPool, NullArg
<1>14. ASSUME NEW n \in 1 .. NCpus, RunTask(n) PROVE WorkerInv(w)'
  BY <1>14, FirstLcpuType DEF RunTask, pool
<1>15. CASE MthreadFinalize
  BY <1>15, FirstLcpuType DEF MthreadFinalize, pool
<1>16. ASSUME NEW x \in Workers, SeeReady(x) PROVE WorkerInv(w)'
  BY <1>16 DEF SeeReady, main, pool, Goto
<1>17. ASSUME NEW x \in Workers, SetRunning(x) PROVE WorkerInv(w)'
  BY <1>17 DEF SetRunning, main, Goto
<1>18. ASSUME NEW x \in Workers, ClearReady(x) PROVE WorkerInv(w)'
  <2>1. CASE x # w
    BY <1>18, <2>1 DEF ClearReady, main, Goto
  <2>2. CASE x = w
    <3>1. mpc = "wait_ready" /\ cur = w /\ mthread_inited /\ running[w]
      BY <1>18, <2>2 DEF ClearReady, Goto
    <3>2. ~ready'[w] /\ running'[w] /\ wpc'[w] = "call"
      BY <1>18, <2>2, <3>1 DEF ClearReady, Goto
    <3>3. UNCHANGED <<mpc, cur, ncpus, routine, mthread_inited>>
      BY <1>18 DEF ClearReady, main
    <3>4. ~Fresh(w)'
      BY <3>1, <3>3
    <3>5. Acked(w)'
      BY <3>2, <3>3 DEF Routine
    <3>6. Shaking(w)'
      BY <3>2, <3>5
    <3> QED BY <3>1, <3>3, <3>4, <3>6
  <2> QED BY <2>1, <2>2
<1>19. ASSUME NEW x \in Workers, Call(x) PROVE WorkerInv(w)'
  <2>1. CASE x # w
    <3>1. wpc'[w] = wpc[w]
      BY <1>19, <2>1 DEF Call
    <3> QED BY <1>19, <3>1 DEF Call, main, pool
  <2>2. CASE x = w
    <3>1. start_routine[w] = routine
      BY <1>19, <2>2 DEF Call, ArgInv
    <3>2. UNCHANGED <<main, pool>>
      BY <1>19 DEF Call
    <3>3. CASE routine = "exit"
      BY <1>19, <2>2, <3>1, <3>2, <3>3 DEF Call, main, pool
    <3>4. CASE routine = "worker"
      <4>1. wpc'[w] = "body"
        BY <1>19, <2>2, <3>1, <3>4 DEF Call
      <4>2. wpc[w] = "call"
        BY <1>19, <2>2 DEF Call
      <4>3. mpc # "idle" /\ mthread_inited /\ ~Fresh(w)
        BY <4>2
      <4>4. ~ready[w] /\ running[w] /\ Acked(w)
        BY <4>2, <4>3
      <4>5. ~(mpc = "join" /\ w < cur) /\ mpc # "pjoin"
        BY <3>4, <4>2, <4>3
      <4>6. Acked(w)'
        BY <3>2, <3>4, <4>1, <4>4 DEF main, pool
      <4> QED BY <3>2, <4>3, <4>4, <4>5, <4>6 DEF main, pool
    <3> QED BY <3>3, <3>4 DEF Routine
  <2> QED BY <2>1, <2>2
<1>20. ASSUME NEW x \in Workers, BodyEnd(x) PROVE WorkerInv(w)'
  BY <1>20 DEF BodyEnd, main, pool, Goto
<1>21. ASSUME NEW x \in Workers, ClearRunning(x) PROVE WorkerInv(w)'
  BY <1>21 DEF ClearRunning, main, Goto
<1>22. CASE UNCHANGED vars
  BY <1>22 DEF vars, main, pool
<1> QED
  BY <1>1, <1>2, <1>3, <1>4, <1>5, <1>6, <1>7, <1>8, <1>9, <1>10, <1>11, <1>12, <1>13, <1>14, <1>15, <1>16, <1>17, <1>18, <1>19, <1>20, <1>21, <1>22
     DEF Next, MainStep, WorkerStep

(* What a worker was given stays in its words until it has read it.        *)
LEMMA ArgStepInv ==
  ASSUME TypeOK, MainInv,
         \A v \in Workers : WorkerInv(v) /\ ArgInv(v),
         NEW w \in Workers, [Next]_vars
  PROVE  ArgInv(w)'
<1> USE DEF TypeOK, MainInv, WorkerInv, ArgInv, HandedArg, Fresh, Resting, Shaking, Acked,
  InLoop, Workers, Lcpu
<1>1. CASE MthreadInit
  BY <1>1 DEF MthreadInit, ClearPool, NullArg
<1>2. CASE CreateStart
  BY <1>2 DEF CreateStart, pool
<1>3. CASE SetArg
  BY <1>3 DEF SetArg, HandedArg, NullArg
<1>4. CASE SetRoutine
  BY <1>4 DEF SetRoutine
<1>5. CASE SetReady
  BY <1>5 DEF SetReady
<1>6. CASE WaitReady
  BY <1>6, NextLcpuType DEF WaitReady, pool
<1>7. CASE CreateDone
  BY <1>7, FirstLcpuType DEF CreateDone, pool
<1>8. CASE InlineBegin
  BY <1>8 DEF InlineBegin, pool
<1>9. CASE InlineEnd
  BY <1>9 DEF InlineEnd, pool
<1>10. CASE MthreadJoin
  BY <1>10, NextLcpuType DEF MthreadJoin, pool
<1>11. CASE TaskReturn
  BY <1>11 DEF TaskReturn, pool
<1>12. CASE PthreadJoin
  BY <1>12, NextLcpuType DEF PthreadJoin, pool
<1>13. CASE FinalizeReturn
  BY <1>13 DEF FinalizeReturn, ClearPool, NullArg
<1>14. ASSUME NEW n \in 1 .. NCpus, RunTask(n) PROVE ArgInv(w)'
  BY <1>14, FirstLcpuType DEF RunTask, pool
<1>15. CASE MthreadFinalize
  BY <1>15, FirstLcpuType DEF MthreadFinalize, pool
<1>16. ASSUME NEW x \in Workers, SeeReady(x) PROVE ArgInv(w)'
  BY <1>16 DEF SeeReady, main, pool, Goto
<1>17. ASSUME NEW x \in Workers, SetRunning(x) PROVE ArgInv(w)'
  BY <1>17 DEF SetRunning, main, Goto
<1>18. ASSUME NEW x \in Workers, ClearReady(x) PROVE ArgInv(w)'
  BY <1>18 DEF ClearReady, main, Goto
<1>19. ASSUME NEW x \in Workers, Call(x) PROVE ArgInv(w)'
  BY <1>19 DEF Call, main, pool
<1>20. ASSUME NEW x \in Workers, BodyEnd(x) PROVE ArgInv(w)'
  BY <1>20 DEF BodyEnd, main, pool, Goto
<1>21. ASSUME NEW x \in Workers, ClearRunning(x) PROVE ArgInv(w)'
  BY <1>21 DEF ClearRunning, main, Goto
<1>22. CASE UNCHANGED vars
  BY <1>22 DEF vars, main, pool
<1> QED
  BY <1>1, <1>2, <1>3, <1>4, <1>5, <1>6, <1>7, <1>8, <1>9, <1>10, <1>11, <1>12, <1>13, <1>14, <1>15, <1>16, <1>17, <1>18, <1>19, <1>20, <1>21, <1>22
     DEF Next, MainStep, WorkerStep

-----------------------------------------------------------------------------
(* The pool's invariant, for any number of cpus and calls: at every point  *)
(* of mr_run_task, mthread_create, mthread_join and mthread_finalize it is *)
(* known what each pool thread may be doing.                               *)
THEOREM PoolInvariant == Safety => [](TypeOK /\ PoolInv)
<1>1. Init => TypeOK /\ PoolInv
  <2> SUFFICES ASSUME Init PROVE TypeOK /\ PoolInv
    OBVIOUS
  <2>1. TypeOK
    <3>1. /\ mthread_inited \in BOOLEAN
          /\ ready \in [Lcpu -> BOOLEAN]
          /\ running \in [Lcpu -> BOOLEAN]
      BY DEF Init
    <3>2. /\ arg \in [Lcpu -> 0 .. MaxPhases]
          /\ warg \in [Lcpu -> 0 .. MaxPhases]
          /\ start_routine \in [Lcpu -> Routine]
          /\ wpc \in [Lcpu -> WorkerPc]
      BY DEF Init, NullArg, Routine, WorkerPc
    <3> QED BY <3>1, <3>2, FirstLcpuType DEF Init, TypeOK, MainPc, Routine
  <2>2. MainInv
    BY FirstLcpuType DEF Init, MainInv, InPhase
  <2>3. ASSUME NEW w \in Workers PROVE WorkerInv(w) /\ ArgInv(w)
    <3>1. w \in Lcpu /\ wpc[w] = "absent" /\ ~ready[w] /\ ~running[w]
      BY DEF Init, Workers
    <3> QED BY <3>1 DEF Init, WorkerInv, ArgInv
  <2> QED BY <2>1, <2>2, <2>3 DEF PoolInv
<1>2. TypeOK /\ PoolInv /\ [Next]_vars => (TypeOK /\ PoolInv)'
  <2> SUFFICES ASSUME TypeOK, PoolInv, [Next]_vars PROVE (TypeOK /\ PoolInv)'
    OBVIOUS
  <2>1. MainInv /\ \A v \in Workers : WorkerInv(v) /\ ArgInv(v)
    BY DEF PoolInv
  <2>2. TypeOK'
    BY <2>1, TypeStep
  <2>3. MainInv'
    BY <2>1, MainStepInv
  <2>4. ASSUME NEW w \in Workers PROVE WorkerInv(w)' /\ ArgInv(w)'
    BY <2>1, WorkerStepInv, ArgStepInv
  <2> QED BY <2>2, <2>3, <2>4 DEF PoolInv, Workers, Lcpu
<1> QED BY <1>1, <1>2, PTL DEF Safety

(* Every variable keeps its type: in particular the main thread's index    *)
(* never leaves thread_pool[0 .. nlcpus], and no argument is ever anything *)
(* but NULL or the task_pos of some call.                                  *)
THEOREM TypeCorrect == Safety => []TypeOK
  BY PoolInvariant, PTL

(* A thread inside a worker routine belongs to the mr_run_task call that   *)
(* is active, and that call's task_pos is still allocated.                 *)
THEOREM NoStragglers == Safety => []PhaseIsolation
<1>1. TypeOK /\ PoolInv => PhaseIsolation
  <2> SUFFICES ASSUME TypeOK, PoolInv, NEW w \in Workers, wpc[w] = "body"
               PROVE  InPhase /\ w < ncpus /\ warg[w] = phase /\ phase \in live
    BY DEF PhaseIsolation
  <2>1. WorkerInv(w) /\ ArgInv(w) /\ MainInv
    BY DEF PoolInv
  <2>2. mpc # "idle" /\ ~Fresh(w)
    BY <2>1 DEF WorkerInv, Resting
  <2>3. Acked(w)
    BY <2>1, <2>2 DEF WorkerInv, Shaking
  <2>4. InPhase /\ w < ncpus
    BY <2>2, <2>3 DEF Acked, InPhase, Fresh, Workers, Lcpu, TypeOK
  <2> QED BY <2>1, <2>4 DEF ArgInv, MainInv
<1> QED BY <1>1, PoolInvariant, PTL

(* The words of a worker change only while it spins with ready down, or is *)
(* not there: the hand-over is never overwritten.                          *)
THEOREM HandoffIsStable == Safety => HandoffStable
<1>1. TypeOK /\ PoolInv /\ [Next]_vars =>
        [\A w \in Workers :
           arg'[w] # arg[w] \/ start_routine'[w] # start_routine[w] =>
             ~ready[w] /\ wpc[w] \in {"absent", "spin", "exited"}]_vars
  <2> SUFFICES ASSUME TypeOK, PoolInv, Next, NEW w \in Workers,
                      arg'[w] # arg[w] \/ start_routine'[w] # start_routine[w]
               PROVE  ~ready[w] /\ wpc[w] \in {"absent", "spin", "exited"}
    BY DEF vars, main, pool
  <2>1. WorkerInv(w) /\ MainInv
    BY DEF PoolInv
  <2>2. MthreadInit \/ SetArg \/ SetRoutine \/ FinalizeReturn
    BY DEF Next, MainStep, WorkerStep, CreateStart, SetReady, WaitReady,
           CreateDone, InlineBegin, InlineEnd, MthreadJoin, TaskReturn,
           PthreadJoin, RunTask, MthreadFinalize, SeeReady, SetRunning,
           ClearReady, Call, BodyEnd, ClearRunning, pool
  <2>3. CASE MthreadInit
    BY <2>1, <2>3 DEF MthreadInit, WorkerInv
  <2>4. CASE SetArg \/ SetRoutine
    <3>1. cur = w /\ mpc \in {"set_arg", "set_routine"}
      BY <2>4 DEF SetArg, SetRoutine, TypeOK, Workers
    <3>2. Fresh(w)
      BY <3>1 DEF Fresh, InLoop, Workers, Lcpu
    <3> QED BY <2>1, <3>1, <3>2 DEF WorkerInv, Resting
  <2>5. CASE FinalizeReturn
    <3>1. w < cur /\ mpc = "pjoin"
      BY <2>1, <2>5 DEF FinalizeReturn, MainInv, Workers, Lcpu, TypeOK
    <3>2. ~Fresh(w)
      BY <2>1, <3>1 DEF Fresh, InLoop, MainInv, Workers, Lcpu
    <3> QED BY <2>1, <3>1, <3>2 DEF WorkerInv
  <2> QED BY <2>2, <2>3, <2>4, <2>5
<1> QED BY <1>1, PoolInvariant, PTL DEF Safety, HandoffStable

(* mthread_finalize clears the table only after every thread has exited.   *)
THEOREM FinalizeIsQuiescent == Safety => FinalizeQuiescent
<1>1. TypeOK /\ PoolInv /\ [Next]_vars =>
        [mthread_inited /\ ~mthread_inited' =>
           \A w \in Workers : wpc[w] = "exited"]_vars
  <2> SUFFICES ASSUME TypeOK, PoolInv, Next, mthread_inited, ~mthread_inited',
                      NEW w \in Workers
               PROVE  wpc[w] = "exited"
    BY DEF vars, main
  <2>1. WorkerInv(w) /\ MainInv
    BY DEF PoolInv
  <2>2. FinalizeReturn
    BY DEF Next, MainStep, WorkerStep, MthreadInit, SetArg, SetRoutine,
           CreateStart, SetReady, WaitReady, CreateDone, InlineBegin,
           InlineEnd, MthreadJoin, TaskReturn, PthreadJoin, RunTask,
           MthreadFinalize, SeeReady, SetRunning, ClearReady, Call, BodyEnd,
           ClearRunning, main
  <2>3. w < cur /\ mpc = "pjoin"
    BY <2>1, <2>2 DEF FinalizeReturn, MainInv, Workers, Lcpu, TypeOK
  <2> QED BY <2>1, <2>3 DEF WorkerInv
<1> QED BY <1>1, PoolInvariant, PTL DEF Safety, FinalizeQuiescent

-----------------------------------------------------------------------------
(* Refinement: the pool implements the safety part of the fork/join.       *)

(* A step that changes no cpu's view of the phase is a stutter of ForkJoin. *)
LEMMA SameView ==
  ASSUME InPhase' = InPhase, MainView' = MainView,
         \A w \in Workers : WorkerView(w)' = WorkerView(w)
  PROVE  UNCHANGED FJ!fjvars
<1>1. View' = View
  BY DEF View, Workers
<1> QED BY <1>1 DEF FJ!fjvars

(* Outside of a phase nobody has anything to do.                           *)
LEMMA NoPhase ==
  ASSUME ~InPhase, ~InPhase'
  PROVE  UNCHANGED FJ!fjvars
<1>1. InPhase' = InPhase
  BY DEF InPhase
<1>2. MainView = "none" /\ MainView' = "none"
  BY DEF MainView
<1>3. \A w \in Workers : WorkerView(w) = "none" /\ WorkerView(w)' = "none"
  BY DEF WorkerView
<1> QED BY <1>1, <1>2, <1>3, SameView

(* What a step of worker x does to the other workers' views: nothing.      *)
LEMMA OneView ==
  ASSUME NEW x \in Workers, InPhase' = InPhase, MainView' = MainView,
         \A w \in Workers \ {x} : WorkerView(w)' = WorkerView(w)
  PROVE  View' = [View EXCEPT ![x] = WorkerView(x)']
  BY DEF View, Workers

(* Every step of the pool is a step of ForkJoin, or none.                  *)
LEMMA ForkJoinStep ==
  ASSUME TypeOK, PoolInv, [Next]_vars
  PROVE  [FJ!FJNext]_(FJ!fjvars)
<1> USE DEF TypeOK, Workers, Lcpu
<1>a. MainInv /\ \A w \in Workers : WorkerInv(w) /\ ArgInv(w)
  BY DEF PoolInv
<1>1. CASE MthreadInit
  <2>1. ~InPhase /\ ~InPhase'
    BY <1>1 DEF MthreadInit, InPhase
  <2> QED BY <2>1, NoPhase
<1>2. CASE CreateStart \/ SetArg \/ SetRoutine
  <2>1. /\ mpc \in InLoop \ {"wait_ready"} /\ mpc' \in InLoop \ {"wait_ready"}
        /\ UNCHANGED <<routine, ncpus, cur, ready, wpc>>
    BY <1>2 DEF CreateStart, SetArg, SetRoutine, InLoop, pool
  <2>2. InPhase' = InPhase
    BY <2>1 DEF InPhase, InLoop
  <2>3. ASSUME NEW w \in Workers PROVE WorkerView(w)' = WorkerView(w)
    BY <2>1, <2>2 DEF WorkerView, Todo
  <2>4. MainView' = MainView
    BY <2>1, <2>2 DEF MainView
  <2> QED BY <2>2, <2>3, <2>4, SameView
<1>3. CASE SetReady
  <2>1. InPhase' = InPhase /\ MainView' = MainView
    BY <1>3 DEF SetReady, InPhase, InLoop, MainView
  <2>2. ASSUME NEW w \in Workers PROVE WorkerView(w)' = WorkerView(w)
    <3>1. Todo(w)' = Todo(w)
      BY <1>3 DEF SetReady, Todo, InLoop
    <3> QED BY <1>3, <2>1, <3>1 DEF SetReady, WorkerView
  <2> QED BY <2>1, <2>2, SameView
<1>4. CASE WaitReady
  <2>1. InPhase' = InPhase /\ MainView' = MainView
    BY <1>4 DEF WaitReady, InPhase, InLoop, MainView
  <2>2. ASSUME NEW w \in Workers PROVE WorkerView(w)' = WorkerView(w)
    <3>1. cur < w <=> NextLcpu <= w
      BY <1>4, <1>a, NextLcpuType DEF WaitReady, MainInv
    <3>2. Todo(w)' = Todo(w)
      BY <1>4, <3>1 DEF WaitReady, Todo, InLoop, pool
    <3> QED BY <1>4, <2>1, <3>2 DEF WaitReady, WorkerView
  <2> QED BY <2>1, <2>2, SameView
<1>5. CASE CreateDone
  <2>1. InPhase' = InPhase /\ MainView' = MainView
    BY <1>5 DEF CreateDone, InPhase, InLoop, MainView
  <2>2. ASSUME NEW w \in Workers PROVE WorkerView(w)' = WorkerView(w)
    <3>1. w < ncpus => Todo(w)' = Todo(w)
      BY <1>5 DEF CreateDone, Todo, InLoop, pool
    <3> QED BY <1>5, <2>1, <3>1 DEF CreateDone, WorkerView
  <2> QED BY <2>1, <2>2, SameView
<1>6. CASE InlineBegin \/ InlineEnd
  <2>1. ASSUME NEW w \in Workers PROVE WorkerView(w)' = WorkerView(w)
    BY <1>6 DEF InlineBegin, InlineEnd, WorkerView, Todo, InLoop, InPhase, pool
  <2>2. InPhase /\ InPhase' /\ InPhase' = InPhase
    BY <1>6, <1>a DEF InlineBegin, InlineEnd, InPhase, MainInv
  <2>3. View' = [View EXCEPT ![MainLcpu] = MainView']
    BY <2>1 DEF View
  <2>4. View[MainLcpu] = MainView
    BY DEF View
  <2>5. \/ MainView = "todo" /\ MainView' = "running"
        \/ MainView = "running" /\ MainView' = "done"
    BY <1>6, <2>2 DEF InlineBegin, InlineEnd, MainView, InLoop
  <2>6. FJ!Begin(MainLcpu) \/ FJ!End(MainLcpu)
    BY <2>2, <2>3, <2>4, <2>5 DEF FJ!Begin, FJ!End
  <2> QED BY <2>6 DEF FJ!FJNext
<1>7. CASE MthreadJoin \/ PthreadJoin
  <2>1. InPhase' = InPhase /\ MainView' = MainView
    BY <1>7 DEF MthreadJoin, PthreadJoin, InPhase, InLoop, MainView
  <2>2. ASSUME NEW w \in Workers PROVE WorkerView(w)' = WorkerView(w)
    BY <1>7, <2>1 DEF MthreadJoin, PthreadJoin, WorkerView, Todo, InLoop, pool
  <2> QED BY <2>1, <2>2, SameView
<1>8. CASE TaskReturn
  <2>1. InPhase /\ ~InPhase' /\ MainView = "done"
    BY <1>8, <1>a DEF TaskReturn, InPhase, MainInv, MainView, InLoop
  <2>2. ASSUME NEW w \in Workers PROVE WorkerView(w) \in {"none", "done"}
    <3>1. WorkerInv(w)
      BY <1>a
    <3>2. w < ncpus => wpc[w] = "spin" /\ ~ready[w]
      BY <1>8, <3>1 DEF TaskReturn, WorkerInv, Fresh, InLoop
    <3> QED BY <1>8, <3>2 DEF TaskReturn, WorkerView, Todo, InLoop
  <2>3. \A l \in Lcpu : View[l] \in {"none", "done"}
    BY <2>1, <2>2 DEF View
  <2>4. View' = [l \in Lcpu |-> "none"]
    BY <2>1 DEF View, MainView, WorkerView
  <2>5. FJ!Join
    BY <2>1, <2>3, <2>4 DEF FJ!Join
  <2> QED BY <2>5 DEF FJ!FJNext
<1>9. CASE FinalizeReturn \/ MthreadFinalize
  <2>1. ~InPhase /\ ~InPhase'
    BY <1>9, <1>a DEF FinalizeReturn, MthreadFinalize, InPhase, MainInv
  <2> QED BY <2>1, NoPhase
<1>10. ASSUME NEW n \in 1 .. NCpus, RunTask(n) PROVE FJ!FJNext
  <2> DEFINE team == {l \in Lcpu : l < n \/ l = MainLcpu}
  <2>1. ~InPhase /\ InPhase' /\ MainView' = "todo"
    BY <1>10 DEF RunTask, InPhase, MainView, InLoop
  <2>2. ASSUME NEW w \in Workers
        PROVE  WorkerView(w)' = IF w \in team THEN "todo" ELSE "none"
    <3>1. WorkerInv(w)
      BY <1>a
    <3>2. Resting(w)
      BY <1>10, <3>1 DEF RunTask, WorkerInv
    <3>3. Todo(w)'
      BY <1>10, FirstLcpuType DEF RunTask, Todo, InLoop
    <3>4. wpc'[w] = "spin" /\ ncpus' = n
      BY <1>10, <3>2 DEF RunTask, Resting
    <3> QED BY <2>1, <3>3, <3>4 DEF WorkerView
  <2>3. View' = [l \in Lcpu |-> IF l \in team THEN "todo" ELSE "none"]
    BY <2>1, <2>2 DEF View
  <2>4. FJ!Fork(team)
    BY <2>1, <2>3 DEF FJ!Fork
  <2> QED BY <2>4 DEF FJ!FJNext
<1>11. ASSUME NEW x \in Workers, SeeReady(x) \/ SetRunning(x) \/ ClearRunning(x)
       PROVE  UNCHANGED FJ!fjvars
  <2>1. InPhase' = InPhase /\ MainView' = MainView
    BY <1>11 DEF SeeReady, SetRunning, ClearRunning, main, InPhase, MainView
  <2>2. ASSUME NEW w \in Workers PROVE WorkerView(w)' = WorkerView(w)
    <3>1. (wpc'[w] = "body") = (wpc[w] = "body")
      BY <1>11 DEF SeeReady, SetRunning, ClearRunning, Goto
    <3>2. Todo(w)' = Todo(w)
      BY <1>11 DEF SeeReady, SetRunning, ClearRunning, Goto, Todo, main, pool
    <3> QED BY <1>11, <2>1, <3>1, <3>2
            DEF SeeReady, SetRunning, ClearRunning, WorkerView, main
  <2> QED BY <2>1, <2>2, SameView
<1>12. ASSUME NEW x \in Workers, ClearReady(x) PROVE UNCHANGED FJ!fjvars
  <2>1. InPhase' = InPhase /\ MainView' = MainView
    BY <1>12 DEF ClearReady, main, InPhase, MainView
  <2>2. ready[x]
    <3>1. WorkerInv(x) /\ wpc[x] = "clear_ready"
      BY <1>a, <1>12 DEF ClearReady, Goto
    <3> QED BY <3>1, <1>a DEF WorkerInv, Resting, Shaking, Acked, MainInv
  <2>3. ASSUME NEW w \in Workers PROVE WorkerView(w)' = WorkerView(w)
    <3>1. (wpc'[w] = "body") = (wpc[w] = "body")
      BY <1>12 DEF ClearReady, Goto
    <3>2. Todo(w)' = Todo(w)
      BY <1>12, <2>2 DEF ClearReady, Goto, Todo, main
    <3> QED BY <1>12, <2>1, <3>1, <3>2 DEF ClearReady, WorkerView, main
  <2> QED BY <2>1, <2>3, SameView
<1>13. ASSUME NEW x \in Workers, Call(x) \/ BodyEnd(x)
       PROVE  FJ!FJNext \/ UNCHANGED FJ!fjvars
  <2>1. InPhase' = InPhase /\ MainView' = MainView
    BY <1>13 DEF Call, BodyEnd, main, InPhase, MainView
  <2>2. ASSUME NEW w \in Workers \ {x} PROVE WorkerView(w)' = WorkerView(w)
    BY <1>13, <2>1 DEF Call, BodyEnd, Goto, main, pool, WorkerView, Todo
  <2>3. View[x] = WorkerView(x) /\ View' = [View EXCEPT ![x] = WorkerView(x)']
    BY <2>1, <2>2, OneView DEF View
  <2>4. WorkerInv(x) /\ ArgInv(x)
    BY <1>a
  <2>5. CASE Call(x) /\ routine = "exit"
    <3>1. ~InPhase /\ ~InPhase'
      BY <2>1, <2>5 DEF InPhase
    <3> QED BY <3>1, NoPhase
  <2>6. CASE Call(x) /\ routine = "worker"
    <3>1. wpc[x] = "call" /\ wpc'[x] = "body"
      BY <2>4, <2>6 DEF Call, ArgInv
    <3>2. mpc # "idle" /\ x < ncpus
      BY <2>4, <3>1 DEF WorkerInv, Resting, Fresh
    <3>3. WorkerView(x) = "todo"
      BY <2>6, <3>1, <3>2 DEF WorkerView, Todo, InPhase
    <3>4. WorkerView(x)' = "running"
      BY <2>1, <2>6, <3>1, <3>2 DEF WorkerView, InPhase, Call, main
    <3>5. FJ!Begin(x)
      BY <2>1, <2>3, <3>3, <3>4 DEF FJ!Begin
    <3> QED BY <3>5 DEF FJ!FJNext
  <2>7. CASE BodyEnd(x)
    <3>1. wpc[x] = "body" /\ wpc'[x] = "clear_running"
      BY <2>7 DEF BodyEnd, Goto
    <3>2. mpc # "idle" /\ ~Fresh(x)
      BY <2>4, <3>1 DEF WorkerInv, Resting
    <3>3. Acked(x) /\ ~ready[x]
      BY <2>4, <3>1, <3>2 DEF WorkerInv, Shaking
    <3>4. InPhase /\ x < ncpus
      BY <3>1, <3>2, <3>3 DEF Acked, InPhase, Fresh
    <3>5. WorkerView(x) = "running"
      BY <3>1, <3>4 DEF WorkerView
    <3>6. ~Todo(x)'
      BY <2>7, <3>1, <3>2, <3>3 DEF BodyEnd, Todo, Fresh, main, pool
    <3>7. WorkerView(x)' = "done"
      BY <2>1, <2>7, <3>1, <3>4, <3>6 DEF BodyEnd, WorkerView, main
    <3>8. FJ!End(x)
      BY <2>1, <2>3, <3>5, <3>7 DEF FJ!End
    <3> QED BY <3>8 DEF FJ!FJNext
  <2> QED BY <1>13, <2>5, <2>6, <2>7 DEF Routine
<1>14. CASE UNCHANGED vars
  <2>1. InPhase' = InPhase /\ MainView' = MainView
    BY <1>14 DEF vars, main, InPhase, MainView
  <2>2. ASSUME NEW w \in Workers PROVE WorkerView(w)' = WorkerView(w)
    BY <1>14, <2>1 DEF vars, main, pool, WorkerView, Todo
  <2> QED BY <2>1, <2>2, SameView
<1> QED
  BY <1>1, <1>2, <1>3, <1>4, <1>5, <1>6, <1>7, <1>8, <1>9, <1>10, <1>11,
     <1>12, <1>13, <1>14
     DEF Next, MainStep, WorkerStep

(* For any number of cpus, mr_run_task on the pool is a fork/join: every   *)
(* cpu of the team runs the routine exactly once, and the call returns     *)
(* only when all of them have finished it.                                 *)
THEOREM PoolImplementsForkJoin == Safety => FJ!FJSafety
<1>1. Init => FJ!FJInit
  <2> SUFFICES ASSUME Init PROVE FJ!FJInit
    OBVIOUS
  <2>1. ~InPhase
    BY DEF Init, InPhase
  <2>2. View = [l \in Lcpu |-> "none"]
    BY <2>1 DEF View, MainView, WorkerView
  <2> QED BY <2>1, <2>2 DEF FJ!FJInit
<1>2. TypeOK /\ PoolInv /\ [Next]_vars => [FJ!FJNext]_(FJ!fjvars)
  BY ForkJoinStep
<1> QED BY <1>1, <1>2, PoolInvariant, PTL DEF Safety, FJ!FJSafety

=============================================================================
