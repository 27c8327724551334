---------------------------- MODULE MC_MapReduce ----------------------------
(***************************************************************************)
(* Small instances of MapReduce: up to four splits and three keys.  ka and *)
(* kc share a column when there are two and not when there are three, and  *)
(* both occur in the sample: the rehash really moves pairs.                *)
(***************************************************************************)
EXTENDS MapReduce, TLC

CONSTANTS ka, kb, kc

MCKey == {ka, kb, kc}
MCEmits == 0 :> {ka, kc} @@ 1 :> {kb} @@ 2 :> {ka, kb} @@ 3 :> {kc}
MCHash == ka :> 0 @@ kb :> 1 @@ kc :> 2

Sampled == [atype |-> "mapgr", tasks |-> 0]
Fixed   == [atype |-> "mapgr", tasks |-> 2]
MapOnly == [atype |-> "maponly", tasks |-> 0]

(* What the applications do: one job, or the same job again (kmeans).      *)
AppPrograms == {<<Sampled, Sampled>>, <<Fixed, Sampled>>, <<Fixed, Fixed>>,
                <<MapOnly, MapOnly>>}

(* The number of reduce tasks is given in the second job only.             *)
MixedPrograms == {<<Sampled, Fixed>>}

(* matrix_mult and pca run map-only jobs.                                  *)
MapOnlyPrograms == {<<MapOnly>>}
=============================================================================
