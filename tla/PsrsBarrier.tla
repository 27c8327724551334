----------------------------- MODULE PsrsBarrier ----------------------------
(***************************************************************************)
(* psrs_barrier of lib/psrs.c: a barrier made of one shared word, status,  *)
(* written by the main cpu, and one word per other cpu, ready.  Each store *)
(* and each read that ends a spin is one step.  The stores to status are   *)
(* followed by a fence, so are the stores ready = 1; the x86 store order   *)
(* covers ready = 0.                                                       *)
(***************************************************************************)
EXTENDS Naturals

CONSTANTS NCpus,      \* ncpus
          MaxRounds   \* bound: barriers each cpu passes

MainLcpu == 0         \* main_lcpu

ASSUME BarrierAssumption == NCpus \in Nat \ {0} /\ MaxRounds \in Nat

Lcpu    == 0 .. NCpus - 1
Workers == Lcpu \ {MainLcpu}

VARIABLES
  status,         \* START or STOP
  ready,          \* ready[lcpu].v
  pc,             \* per cpu, its place in psrs_barrier; "out" outside of it
  i,              \* loop index of the main cpu
  entered, left   \* history: barriers entered and left by each cpu

vars == <<status, ready, pc, i, entered, left>>

WorkerPc == {"out", "wait_start", "set_ready", "wait_stop", "clear_ready"}
MainPc   == {"out", "start", "wait_all", "stop", "wait_none"}

TypeOK ==
  /\ status \in {"START", "STOP"}
  /\ ready \in [Lcpu -> {0, 1}]
  /\ pc \in [Lcpu -> WorkerPc \cup MainPc]
  /\ \A w \in Workers : pc[w] \in WorkerPc
  /\ pc[MainLcpu] \in MainPc
  /\ i \in 1 .. NCpus
  /\ entered \in [Lcpu -> 0 .. MaxRounds]
  /\ left \in [Lcpu -> 0 .. MaxRounds]

Init ==
  /\ status = "STOP"
  /\ ready = [l \in Lcpu |-> 0]
  /\ pc = [l \in Lcpu |-> "out"]
  /\ i = 1
  /\ entered = [l \in Lcpu |-> 0]
  /\ left = [l \in Lcpu |-> 0]

Goto(l, from, to) == /\ pc[l] = from
                     /\ pc' = [pc EXCEPT ![l] = to]

EnterBarrier(l) ==
  /\ entered[l] < MaxRounds
  /\ Goto(l, "out", IF l = MainLcpu THEN "start" ELSE "wait_start")
  /\ entered' = [entered EXCEPT ![l] = @ + 1]
  /\ UNCHANGED <<status, ready, i, left>>

-----------------------------------------------------------------------------
(* The other cpus                                                          *)

WaitStart(w) ==
  /\ Goto(w, "wait_start", "set_ready")
  /\ status = "START"
  /\ UNCHANGED <<status, ready, i, entered, left>>

SetReady(w) ==
  /\ Goto(w, "set_ready", "wait_stop")
  /\ ready' = [ready EXCEPT ![w] = 1]
  /\ UNCHANGED <<status, i, entered, left>>

(* A cpu that does not wait for STOP.                                      *)
WaitStopBlind(w) ==
  /\ Goto(w, "wait_stop", "clear_ready")
  /\ UNCHANGED <<status, ready, i, entered, left>>

WaitStop(w) ==
  /\ Goto(w, "wait_stop", "clear_ready")
  /\ status = "STOP"
  /\ UNCHANGED <<status, ready, i, entered, left>>

ClearReady(w) ==
  /\ Goto(w, "clear_ready", "out")
  /\ ready' = [ready EXCEPT ![w] = 0]
  /\ left' = [left EXCEPT ![w] = @ + 1]
  /\ UNCHANGED <<status, i, entered>>

-----------------------------------------------------------------------------
(* The main cpu; its loops run over 1 .. ncpus - 1.                        *)

SetStart ==
  /\ Goto(MainLcpu, "start", "wait_all")
  /\ status' = "START"
  /\ i' = 1
  /\ UNCHANGED <<ready, entered, left>>

WaitReady ==
  /\ pc[MainLcpu] = "wait_all" /\ i < NCpus
  /\ ready[i] = 1
  /\ i' = i + 1
  /\ UNCHANGED <<status, ready, pc, entered, left>>

AllReady ==
  /\ i = NCpus
  /\ Goto(MainLcpu, "wait_all", "stop")
  /\ UNCHANGED <<status, ready, i, entered, left>>

SetStop ==
  /\ Goto(MainLcpu, "stop", "wait_none")
  /\ status' = "STOP"
  /\ i' = 1
  /\ UNCHANGED <<ready, entered, left>>

(* A main cpu that leaves without its second loop.                         *)
WaitNotReadySkipped ==
  /\ pc[MainLcpu] = "wait_none" /\ i < NCpus
  /\ i' = i + 1
  /\ UNCHANGED <<status, ready, pc, entered, left>>

WaitNotReady ==
  /\ pc[MainLcpu] = "wait_none" /\ i < NCpus
  /\ ready[i] = 0
  /\ i' = i + 1
  /\ UNCHANGED <<status, ready, pc, entered, left>>

MainLeave ==
  /\ i = NCpus
  /\ Goto(MainLcpu, "wait_none", "out")
  /\ left' = [left EXCEPT ![MainLcpu] = @ + 1]
  /\ UNCHANGED <<status, ready, i, entered>>

-----------------------------------------------------------------------------
WorkerStep(w) == WaitStart(w) \/ SetReady(w) \/ WaitStop(w) \/ ClearReady(w)

MainStep == \/ SetStart \/ WaitReady \/ AllReady \/ SetStop \/ WaitNotReady
            \/ MainLeave

Next == \/ \E l \in Lcpu : EnterBarrier(l)
        \/ \E w \in Workers : WorkerStep(w)
        \/ MainStep

Safety == Init /\ [][Next]_vars

(* The cpus spin, they do not block: each keeps taking steps.              *)
Fairness == WF_vars(MainStep) /\ \A w \in Workers : WF_vars(WorkerStep(w))

(* The sort itself: a cpu outside of a barrier comes to its next one.      *)
Spec == Safety /\ Fairness /\ \A l \in Lcpu : WF_vars(EnterBarrier(l))

-----------------------------------------------------------------------------
(* Properties                                                              *)

(* The rounds never mix: a cpu has left a barrier only if all cpus have    *)
(* entered it, however late a cpu is in seeing status change.              *)
RoundsSeparated == \A l, m \in Lcpu : left[l] <= entered[m]

(* A barrier that all cpus enter is left by all: no cpu keeps spinning on  *)
(* a status that has already gone back.                                    *)
AllPass == <>[](\A l \in Lcpu : left[l] = MaxRounds)

B == INSTANCE Barrier

(* The spin barrier implements the abstract one: nobody leaves before all  *)
(* have entered, and once all have entered everybody leaves.               *)
ImplementsBarrier == B!BSpec

(* The inductive invariant: R is the main cpu's round.                     *)
R == entered[MainLcpu]

BarMain ==
  /\ status = IF pc[MainLcpu] \in {"wait_all", "stop"} THEN "START" ELSE "STOP"
  /\ left[MainLcpu] = IF pc[MainLcpu] = "out" THEN R ELSE R - 1
  /\ pc[MainLcpu] # "out" => R >= 1

(* Before START is set the others are at most waiting for it.              *)
Before(w) ==
  /\ ready[w] = 0
  /\ \/ pc[w] = "out" /\ entered[w] = left[w] /\ left[w] = left[MainLcpu]
     \/ /\ pc[w] = "wait_start" /\ entered[w] = left[w] + 1
        /\ left[w] = left[MainLcpu]

(* While status is START a cpu enters, or raises ready and stays.          *)
Opening(w) ==
  \/ Before(w)
  \/ /\ pc[w] = "set_ready" /\ ready[w] = 0
     /\ entered[w] = R /\ left[w] = R - 1
  \/ /\ pc[w] = "wait_stop" /\ ready[w] = 1
     /\ entered[w] = R /\ left[w] = R - 1

(* Once all are ready the only way is out, and not into the next round.    *)
Closing(w) ==
  \/ /\ pc[w] \in {"wait_stop", "clear_ready"} /\ ready[w] = 1
     /\ entered[w] = R /\ left[w] = R - 1
  \/ /\ pc[w] = "out" /\ ready[w] = 0 /\ entered[w] = R /\ left[w] = R
  \/ /\ pc[w] = "wait_start" /\ ready[w] = 0
     /\ entered[w] = R + 1 /\ left[w] = R

BarWorker(w) ==
  /\ pc[MainLcpu] \in {"out", "start"} => Before(w)
  /\ pc[MainLcpu] = "wait_all" =>
       /\ Opening(w)
       /\ w < i => pc[w] = "wait_stop"
  /\ pc[MainLcpu] = "stop" => pc[w] = "wait_stop" /\ Opening(w)
  /\ pc[MainLcpu] = "wait_none" =>
       /\ Closing(w)
       /\ w < i => ready[w] = 0

BarInv == BarMain /\ \A w \in Workers : BarWorker(w)
=============================================================================
