-------------------------- MODULE PsrsBarrierProofs -------------------------
(***************************************************************************)
(* Proofs about the spin barrier, for every number of cpus and rounds: the *)
(* inductive invariant BarInv, that rounds never mix, and that the barrier *)
(* implements the safety part of the abstract one.                         *)
(***************************************************************************)
EXTENDS PsrsBarrier, TLAPS

USE BarrierAssumption

(* The main cpu is a cpu, and is not one of the others.                    *)
LEMMA Cpus == /\ MainLcpu \in Lcpu /\ MainLcpu \notin Workers
              /\ \A w \in Workers : w \in Lcpu /\ w \in 1 .. NCpus - 1
              /\ \A l \in Lcpu : l = MainLcpu \/ l \in Workers
  BY DEF MainLcpu, Lcpu, Workers

(* Every step keeps the types; that nobody leaves more barriers than the   *)
(* bound follows from BarInv.                                              *)
LEMMA TypeStep ==
  ASSUME TypeOK, BarInv, [Next]_vars
  PROVE  TypeOK'
<1> USE Cpus DEF TypeOK, WorkerPc, MainPc
<1>1. ASSUME NEW l \in Lcpu, EnterBarrier(l) PROVE TypeOK'
  <2>1. entered' \in [Lcpu -> 0 .. MaxRounds]
    BY <1>1 DEF EnterBarrier
  <2>2. CASE l = MainLcpu
    BY <1>1, <2>1, <2>2 DEF EnterBarrier, Goto
  <2>3. CASE l \in Workers
    BY <1>1, <2>1, <2>3 DEF EnterBarrier, Goto
  <2> QED BY <2>2, <2>3
<1>2. ASSUME NEW w \in Workers, WaitStart(w) PROVE TypeOK'
  BY <1>2 DEF WaitStart, Goto
<1>3. ASSUME NEW w \in Workers, SetReady(w) PROVE TypeOK'
  BY <1>3 DEF SetReady, Goto
<1>4. ASSUME NEW w \in Workers, WaitStop(w) PROVE TypeOK'
  BY <1>4 DEF WaitStop, Goto
<1>5. ASSUME NEW w \in Workers, ClearReady(w) PROVE TypeOK'
  <2>1. pc[w] = "clear_ready" /\ BarWorker(w)
    BY <1>5 DEF ClearReady, Goto, BarInv
  <2>2. left[w] + 1 = entered[w]
    BY <2>1 DEF BarWorker, Before, Opening, Closing, R
  <2>3. left' \in [Lcpu -> 0 .. MaxRounds]
    BY <1>5, <2>2 DEF ClearReady
  <2> QED BY <1>5, <2>3 DEF ClearReady, Goto
<1>6. CASE SetStart
  BY <1>6 DEF SetStart, Goto
<1>7. CASE WaitReady
  BY <1>7 DEF WaitReady
<1>8. CASE AllReady
  BY <1>8 DEF AllReady, Goto
<1>9. CASE SetStop
  BY <1>9 DEF SetStop, Goto
<1>10. CASE WaitNotReady
  BY <1>10 DEF WaitNotReady
<1>11. CASE MainLeave
  <2>1. left[MainLcpu] + 1 = entered[MainLcpu]
    BY <1>11 DEF MainLeave, Goto, BarInv, BarMain, R
  <2>2. left' \in [Lcpu -> 0 .. MaxRounds]
    BY <1>11, <2>1 DEF MainLeave
  <2> QED BY <1>11, <2>2 DEF MainLeave, Goto
<1>12. CASE UNCHANGED vars
  BY <1>12 DEF vars
<1> QED BY <1>1, <1>2, <1>3, <1>4, <1>5, <1>6, <1>7, <1>8, <1>9, <1>10, <1>11,
           <1>12 DEF Next, WorkerStep, MainStep

(* What status and the main cpu's counters are at each of its points.      *)
LEMMA BarMainStep ==
  ASSUME TypeOK, BarInv, [Next]_vars
  PROVE  BarMain'
<1> USE Cpus DEF TypeOK, MainPc, BarMain, R
<1>a. BarMain
  BY DEF BarInv
<1>1. ASSUME NEW l \in Lcpu, EnterBarrier(l) PROVE BarMain'
  <2>1. CASE l = MainLcpu
    BY <1>a, <1>1, <2>1 DEF EnterBarrier, Goto
  <2>2. CASE l \in Workers
    BY <1>a, <1>1, <2>2 DEF EnterBarrier, Goto
  <2> QED BY <2>1, <2>2
<1>2. ASSUME NEW w \in Workers, WorkerStep(w) PROVE BarMain'
  <2>1. /\ pc'[MainLcpu] = pc[MainLcpu] /\ status' = status
        /\ entered' = entered /\ left'[MainLcpu] = left[MainLcpu]
    BY <1>2 DEF WorkerStep, WaitStart, SetReady, WaitStop, ClearReady, Goto
  <2> QED BY <1>a, <2>1
<1>3. CASE SetStart
  BY <1>a, <1>3 DEF SetStart, Goto
<1>4. CASE WaitReady
  BY <1>a, <1>4 DEF WaitReady
<1>5. CASE AllReady
  BY <1>a, <1>5 DEF AllReady, Goto
<1>6. CASE SetStop
  BY <1>a, <1>6 DEF SetStop, Goto
<1>7. CASE WaitNotReady
  BY <1>a, <1>7 DEF WaitNotReady
<1>8. CASE MainLeave
  BY <1>a, <1>8 DEF MainLeave, Goto
<1>9. CASE UNCHANGED vars
  BY <1>a, <1>9 DEF vars
<1> QED BY <1>1, <1>2, <1>3, <1>4, <1>5, <1>6, <1>7, <1>8, <1>9
        DEF Next, MainStep

(* Each other cpu stays in step with the main one.  The step of another    *)
(* cpu does not matter to it.                                              *)
LEMMA BarWorkerStep ==
  ASSUME TypeOK, BarInv, [Next]_vars, NEW w \in Workers
  PROVE  BarWorker(w)'
<1> USE Cpus DEF TypeOK, WorkerPc, MainPc, R
<1>a. BarMain /\ BarWorker(w)
  BY DEF BarInv
<1>b. ASSUME pc'[w] = pc[w], ready'[w] = ready[w], i' = i,
             entered'[w] = entered[w], left'[w] = left[w],
             pc'[MainLcpu] = pc[MainLcpu],
             entered'[MainLcpu] = entered[MainLcpu],
             left'[MainLcpu] = left[MainLcpu]
      PROVE  BarWorker(w)'
  BY <1>a, <1>b DEF BarWorker, Before, Opening, Closing
<1>1. ASSUME NEW l \in Lcpu, EnterBarrier(l) PROVE BarWorker(w)'
  <2>1. CASE l # w /\ l # MainLcpu
    BY <1>1, <1>b, <2>1 DEF EnterBarrier, Goto
  <2>2. CASE l = MainLcpu
    <3>1. /\ pc'[w] = pc[w] /\ ready' = ready /\ left' = left
          /\ entered'[w] = entered[w] /\ pc[MainLcpu] = "out"
          /\ pc'[MainLcpu] = "start"
      BY <1>1, <2>2 DEF EnterBarrier, Goto
    <3> QED BY <1>a, <3>1 DEF BarWorker, Before
  <2>3. CASE l = w
    <3>1. /\ pc[w] = "out" /\ pc'[w] = "wait_start" /\ ready' = ready
          /\ left' = left /\ entered'[w] = entered[w] + 1 /\ i' = i
          /\ entered'[MainLcpu] = entered[MainLcpu]
          /\ pc'[MainLcpu] = pc[MainLcpu]
      BY <1>1, <2>3 DEF EnterBarrier, Goto
    <3> QED BY <1>a, <3>1 DEF BarMain, BarWorker, Before, Opening, Closing
  <2> QED BY <2>1, <2>2, <2>3
<1>2. ASSUME NEW x \in Workers, WorkerStep(x), x # w PROVE BarWorker(w)'
  BY <1>2, <1>b
     DEF WorkerStep, WaitStart, SetReady, WaitStop, ClearReady, Goto
<1>3. CASE WorkerStep(w)
  <2>0. /\ pc'[MainLcpu] = pc[MainLcpu] /\ i' = i /\ entered' = entered
        /\ left'[MainLcpu] = left[MainLcpu]
    BY <1>3 DEF WorkerStep, WaitStart, SetReady, WaitStop, ClearReady, Goto
  <2>1. CASE WaitStart(w)
    <3>1. /\ pc[w] = "wait_start" /\ pc'[w] = "set_ready" /\ status = "START"
          /\ ready' = ready /\ left' = left
      BY <2>1 DEF WaitStart, Goto
    <3>2. pc[MainLcpu] \in {"wait_all", "stop"}
      BY <1>a, <3>1 DEF BarMain
    <3> QED BY <1>a, <2>0, <3>1, <3>2 DEF BarMain, BarWorker, Before, Opening
  <2>2. CASE SetReady(w)
    <3>1. /\ pc[w] = "set_ready" /\ pc'[w] = "wait_stop" /\ ready'[w] = 1
          /\ left' = left
      BY <2>2 DEF SetReady, Goto
    <3> QED BY <1>a, <2>0, <3>1 DEF BarWorker, Before, Opening, Closing
  <2>3. CASE WaitStop(w)
    <3>1. /\ pc[w] = "wait_stop" /\ pc'[w] = "clear_ready" /\ status = "STOP"
          /\ ready' = ready /\ left' = left
      BY <2>3 DEF WaitStop, Goto
    <3>2. pc[MainLcpu] = "wait_none"
      BY <1>a, <3>1 DEF BarMain, BarWorker, Before
    <3> QED BY <1>a, <2>0, <3>1, <3>2 DEF BarWorker, Closing
  <2>4. CASE ClearReady(w)
    <3>1. /\ pc[w] = "clear_ready" /\ pc'[w] = "out" /\ ready'[w] = 0
          /\ left'[w] = left[w] + 1
      BY <2>4 DEF ClearReady, Goto
    <3> QED BY <1>a, <2>0, <3>1 DEF BarWorker, Before, Opening, Closing
  <2> QED BY <1>3, <2>1, <2>2, <2>3, <2>4 DEF WorkerStep
<1>4. CASE SetStart
  BY <1>a, <1>4 DEF SetStart, Goto, BarWorker, Before, Opening
<1>5. CASE WaitReady
  <2>1. /\ pc[MainLcpu] = "wait_all" /\ ready[i] = 1 /\ i' = i + 1
        /\ UNCHANGED <<status, ready, pc, entered, left>>
    BY <1>5 DEF WaitReady
  <2>2. w < i' => pc[w] = "wait_stop"
    BY <1>a, <2>1 DEF BarWorker, Opening, Before
  <2> QED BY <1>a, <2>1, <2>2 DEF BarWorker, Opening, Before
<1>6. CASE AllReady
  BY <1>a, <1>6 DEF AllReady, Goto, BarWorker, Opening, Before
<1>7. CASE SetStop
  <2>1. /\ pc[MainLcpu] = "stop" /\ pc'[MainLcpu] = "wait_none" /\ i' = 1
        /\ pc'[w] = pc[w] /\ UNCHANGED <<ready, entered, left>>
    BY <1>7 DEF SetStop, Goto
  <2> QED BY <1>a, <2>1 DEF BarWorker, Opening, Before, Closing
<1>8. CASE WaitNotReady
  <2>1. /\ pc[MainLcpu] = "wait_none" /\ ready[i] = 0 /\ i' = i + 1
        /\ UNCHANGED <<status, ready, pc, entered, left>>
    BY <1>8 DEF WaitNotReady
  <2>2. w < i' => ready[w] = 0
    BY <1>a, <2>1 DEF BarWorker
  <2> QED BY <1>a, <2>1, <2>2 DEF BarWorker, Closing
<1>9. CASE MainLeave
  <2>1. /\ pc[MainLcpu] = "wait_none" /\ pc'[MainLcpu] = "out" /\ i = NCpus
        /\ pc'[w] = pc[w] /\ left'[w] = left[w]
        /\ left'[MainLcpu] = left[MainLcpu] + 1
        /\ UNCHANGED <<ready, entered>>
    BY <1>9 DEF MainLeave, Goto
  <2>2. ready[w] = 0 /\ left'[MainLcpu] = entered[MainLcpu]
    BY <1>a, <2>1 DEF BarWorker, BarMain
  <2> QED BY <1>a, <2>1, <2>2 DEF BarWorker, Closing, Before
<1>10. CASE UNCHANGED vars
  BY <1>b, <1>10 DEF vars
<1> QED BY <1>1, <1>2, <1>3, <1>4, <1>5, <1>6, <1>7, <1>8, <1>9, <1>10
        DEF Next, MainStep

(* The invariant of psrs_barrier holds in every reachable state, whatever  *)
(* the number of cpus.                                                     *)
THEOREM BarrierInvariant == Safety => [](TypeOK /\ BarInv)
<1>1. Init => TypeOK /\ BarInv
  <2> SUFFICES ASSUME Init PROVE TypeOK /\ BarInv
    OBVIOUS
  <2>1. TypeOK
    BY Cpus DEF Init, TypeOK, WorkerPc, MainPc
  <2>2. BarMain
    BY Cpus DEF Init, BarMain, R
  <2>3. ASSUME NEW w \in Workers PROVE BarWorker(w)
    BY Cpus DEF Init, BarWorker, Before
  <2> QED BY <2>1, <2>2, <2>3 DEF BarInv
<1>2. TypeOK /\ BarInv /\ [Next]_vars => (TypeOK /\ BarInv)'
  <2> SUFFICES ASSUME TypeOK, BarInv, [Next]_vars PROVE (TypeOK /\ BarInv)'
    OBVIOUS
  <2>1. \A w \in Workers : BarWorker(w)'
    BY BarWorkerStep
  <2>2. BarInv'
    BY <2>1, BarMainStep DEF BarInv, Workers, Lcpu
  <2> QED BY <2>2, TypeStep
<1> QED BY <1>1, <1>2, PTL DEF Safety

(* How far two cpus can be apart: a consequence of BarInv.                 *)
LEMMA Separation ==
  ASSUME TypeOK, BarInv
  PROVE  RoundsSeparated
<1> USE Cpus DEF TypeOK, WorkerPc, MainPc
<1> DEFINE low == left[MainLcpu]
<1>1. low <= R /\ R <= low + 1 /\ R \in Nat /\ low \in Nat
  BY DEF BarInv, BarMain, R
<1>2. ASSUME NEW w \in Workers
      PROVE  /\ left[w] <= R
             /\ low <= entered[w]
             /\ pc[MainLcpu] \in {"out", "start", "wait_all", "stop"} =>
                  left[w] = low
             /\ pc[MainLcpu] = "wait_none" => entered[w] >= R
  <2>1. BarWorker(w) /\ BarMain
    BY DEF BarInv
  <2> QED BY <2>1 DEF BarMain, BarWorker, Before, Opening, Closing, R
<1>3. ASSUME NEW l \in Lcpu, NEW m \in Lcpu PROVE left[l] <= entered[m]
  <2>1. CASE pc[MainLcpu] = "wait_none"
    <3>1. left[l] <= R
      BY <1>1, <1>2
    <3>2. R <= entered[m]
      BY <1>1, <1>2, <2>1 DEF R
    <3> QED BY <3>1, <3>2, <1>1
  <2>2. CASE pc[MainLcpu] # "wait_none"
    <3>1. left[l] = low
      BY <1>2, <2>2
    <3>2. low <= entered[m]
      BY <1>1, <1>2 DEF R
    <3> QED BY <3>1, <3>2
  <2> QED BY <2>1, <2>2
<1> QED BY <1>3 DEF RoundsSeparated

(* No cpu ever leaves a barrier that some cpu has not entered: the states  *)
(* of two successive barriers of psrs never mix.                           *)
THEOREM RoundsNeverMix == Safety => []RoundsSeparated
<1>1. TypeOK /\ BarInv => RoundsSeparated
  BY Separation
<1> QED BY <1>1, BarrierInvariant, PTL

(* A step of the spin barrier enters or leaves the abstract barrier, or    *)
(* does nothing to it.  That a cpu may leave is read off the state after   *)
(* its step, where the rounds are still separated.                         *)
LEMMA BarrierStep ==
  ASSUME TypeOK, BarInv, RoundsSeparated', [Next]_vars
  PROVE  [B!BNext]_(B!bvars)
<1> USE Cpus DEF TypeOK, WorkerPc, MainPc
<1>l. ASSUME NEW l \in Lcpu, left[l] + 1 = entered[l],
             left' = [left EXCEPT ![l] = @ + 1], entered' = entered
      PROVE  B!Leave(l)
  <2>1. left'[l] = entered[l]
    BY <1>l
  <2>2. \A m \in Lcpu : entered[m] >= entered[l]
    BY <1>l, <2>1 DEF RoundsSeparated
  <2> QED BY <1>l, <2>2 DEF B!Leave, B!Outside
<1>1. ASSUME NEW l \in Lcpu, EnterBarrier(l) PROVE B!BNext
  <2>1. pc[l] = "out"
    BY <1>1 DEF EnterBarrier, Goto
  <2>2. entered[l] = left[l]
    <3>1. CASE l = MainLcpu
      BY <2>1, <3>1 DEF BarInv, BarMain, R
    <3>2. CASE l \in Workers
      <4>1. BarWorker(l) /\ pc[MainLcpu] \in MainPc
        BY <3>2 DEF BarInv
      <4> QED BY <2>1, <4>1 DEF BarWorker, Before, Opening, Closing
    <3> QED BY <3>1, <3>2
  <2>3. B!Enter(l)
    BY <1>1, <2>2 DEF EnterBarrier, B!Enter, B!Outside
  <2> QED BY <2>3 DEF B!BNext
<1>2. ASSUME NEW w \in Workers, ClearReady(w) PROVE B!BNext
  <2>1. pc[w] = "clear_ready" /\ BarWorker(w)
    BY <1>2 DEF ClearReady, Goto, BarInv
  <2>2. left[w] + 1 = entered[w]
    BY <2>1 DEF BarWorker, Before, Opening, Closing, R
  <2>3. B!Leave(w)
    BY <1>2, <1>l, <2>2 DEF ClearReady
  <2> QED BY <2>3 DEF B!BNext
<1>3. CASE MainLeave
  <2>1. left[MainLcpu] + 1 = entered[MainLcpu]
    BY <1>3 DEF MainLeave, Goto, BarInv, BarMain, R
  <2>2. B!Leave(MainLcpu)
    BY <1>3, <1>l, <2>1 DEF MainLeave
  <2> QED BY <2>2 DEF B!BNext
<1>4. ASSUME NEW w \in Workers, WaitStart(w) \/ SetReady(w) \/ WaitStop(w)
      PROVE  UNCHANGED B!bvars
  BY <1>4 DEF WaitStart, SetReady, WaitStop, B!bvars
<1>5. CASE SetStart \/ WaitReady \/ AllReady \/ SetStop \/ WaitNotReady
  BY <1>5 DEF SetStart, WaitReady, AllReady, SetStop, WaitNotReady, B!bvars
<1>6. CASE UNCHANGED vars
  BY <1>6 DEF vars, B!bvars
<1> QED BY <1>1, <1>2, <1>3, <1>4, <1>5, <1>6 DEF Next, WorkerStep, MainStep

(* psrs_barrier implements the barrier that module Psrs is written on, for *)
(* any number of cpus and rounds.                                          *)
THEOREM SpinImplementsBarrier == Safety => B!BSafety
<1>1. Init => B!BInit
  BY DEF Init, B!BInit
<1>2. TypeOK /\ BarInv /\ RoundsSeparated' /\ [Next]_vars
        => [B!BNext]_(B!bvars)
  BY BarrierStep
<1> QED BY <1>1, <1>2, BarrierInvariant, RoundsNeverMix, PTL
        DEF Safety, B!BSafety
=============================================================================
