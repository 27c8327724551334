------------------------------- MODULE Barrier ------------------------------
(***************************************************************************)
(* What psrs relies on when its cpus call psrs_barrier: nobody leaves its  *)
(* k-th barrier before everybody has entered its own k-th.  The spin       *)
(* barrier of lib/psrs.c (module PsrsBarrier) implements this              *)
(* specification; the parallel sort (module Psrs) is written on top of its *)
(* actions.                                                                *)
(***************************************************************************)
EXTENDS Naturals

CONSTANT Lcpu

VARIABLES entered,   \* how many barriers each cpu has entered
          left       \* how many it has left

bvars == <<entered, left>>

BTypeOK == entered \in [Lcpu -> Nat] /\ left \in [Lcpu -> Nat]

BInit == /\ entered = [l \in Lcpu |-> 0]
         /\ left = [l \in Lcpu |-> 0]

Outside(l) == entered[l] = left[l]

Enter(l) == /\ Outside(l)
            /\ entered' = [entered EXCEPT ![l] = @ + 1]
            /\ UNCHANGED left

Leave(l) == /\ ~Outside(l)
            /\ \A m \in Lcpu : entered[m] >= entered[l]
            /\ left' = [left EXCEPT ![l] = @ + 1]
            /\ UNCHANGED entered

BNext == \E l \in Lcpu : Enter(l) \/ Leave(l)

BSafety == BInit /\ [][BNext]_bvars

(* Whoever may leave, does; nobody has to enter a barrier.                 *)
BSpec == BSafety /\ \A l \in Lcpu : WF_bvars(Leave(l))
=============================================================================
