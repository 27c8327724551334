-------------------------------- MODULE Psrs --------------------------------
(***************************************************************************)
(* psrs of lib/psrs.c: the parallel sort that merges the reduce buckets    *)
(* (called without doreduce, as rbkts_merge calls it).  The work each cpu  *)
(* does between two barriers is one action, which ends by entering the     *)
(* next barrier; leaving a barrier is an action of its own.  The barrier   *)
(* is the abstract one of module Barrier, which psrs_barrier implements.   *)
(*                                                                         *)
(* Memory is modelled where it can go wrong: the collections are freed by  *)
(* one cpu while others may still read them, and each cpu frees the local  *)
(* array that all others merge from.                                       *)
(***************************************************************************)
EXTENDS SortAlgo

CONSTANTS NCpus,    \* ncpus
          Inputs    \* the collections psrs may be called with

MainLcpu == 0       \* main_lcpu
FreeLcpu == 1       \* free_lcpu

ASSUME PsrsAssumption == NCpus \in Nat \ {0}

Lcpu == 0 .. NCpus - 1
Idle == -1          \* a word that was not written yet

VARIABLES
  input,            \* the contents of the collections, acolls
  colls,            \* what acolls holds: "input", "freed" or "set"
  total_len,
  lpairs,           \* each cpu's local array
  lfreed,           \* it has been freed
  pivots,           \* local pivots per cpu, then the selected ones
  subsize,          \* subsize[lcpu][0 .. ncpus]
  partsize,
  output,           \* the result: position -> element
  returned,         \* the cpus that returned
  entered, left     \* the barrier

data == <<input, colls, total_len, lpairs, lfreed, pivots, subsize, partsize,
          output>>
control == <<returned, entered, left>>   \* every step of a cpu changes it
vars == <<data, control>>

B == INSTANCE Barrier

(* The elements of the collections.                                        *)
Elem == Range(FlattenSeq(input))

TypeOK ==
  /\ colls \in {"input", "freed", "set"}
  /\ total_len \in Nat \cup {Idle}
  /\ \A l \in Lcpu : Range(lpairs[l]) \subseteq Elem
  /\ lfreed \in [Lcpu -> BOOLEAN]
  /\ partsize \in [Lcpu -> Nat \cup {Idle}]
  /\ DOMAIN output \subseteq 0 .. total_len - 1
  /\ returned \subseteq Lcpu
  /\ B!BTypeOK

Init ==
  /\ input \in Inputs
  /\ colls = "input"
  /\ total_len = Idle
  /\ lpairs = [l \in Lcpu |-> <<>>] /\ lfreed = [l \in Lcpu |-> FALSE]
  /\ pivots = <<>>
  /\ subsize = [l \in Lcpu |-> <<>>]
  /\ partsize = [l \in Lcpu |-> Idle]
  /\ output = <<>>
  /\ returned = {}
  /\ B!BInit

(* Cpu l is between its k-th and its next barrier.                         *)
Between(l, k) == /\ l \notin returned
                 /\ B!Outside(l) /\ left[l] = k

(* Too little to share: the main cpu sorts alone.                          *)
Alone == NCpus = 1 \/ total_len < NCpus * NCpus * NCpus

-----------------------------------------------------------------------------
(* Before the first barrier the main cpu sets the shared words up.         *)
Initialise(l) ==
  /\ Between(l, 0)
  /\ B!Enter(l)
  /\ IF l = MainLcpu
     THEN /\ total_len' = Len(FlattenSeq(input))
          /\ lpairs' = [m \in Lcpu |-> <<>>]
          /\ subsize' = [m \in Lcpu |-> [j \in 0 .. NCpus |-> 0]]
          /\ pivots' = [j \in 0 .. NCpus * (NCpus - 1) - 1 |-> 0]
     ELSE UNCHANGED <<total_len, lpairs, subsize, pivots>>
  /\ UNCHANGED <<input, colls, lfreed, partsize, output, returned>>

(* A barrier that does not wait for the main cpu.                          *)
LeaveBarrierEarly(l) ==
  /\ ~B!Outside(l)
  /\ \A m \in Lcpu \ {MainLcpu} : entered[m] >= entered[l]
  /\ left' = [left EXCEPT ![l] = @ + 1]
  /\ UNCHANGED <<data, returned, entered>>

LeaveBarrier(l) ==
  /\ B!Leave(l)
  /\ UNCHANGED <<data, returned>>

(* [start, end] of cpu l, and its part of the collections, sorted.         *)
WidthDown == total_len \div NCpus    \* a width that is rounded down
Width == (total_len + NCpus - 1) \div NCpus
SliceStart(l) == Width * l
SliceEnd(l) == Min2(Width * (l + 1) - 1, total_len - 1)

(* The (p - 1) elements that cpu l offers as pivots.                       *)
LocalPivots(loc) ==
  LET copied == Len(loc)
      rsize == (copied + NCpus - 1) \div NCpus
  IN  [j \in 0 .. NCpus - 2 |->
         At(loc, IF (j + 1) * rsize < copied THEN (j + 1) * rsize
                                             ELSE copied - 1)]

(* The collections are freed as soon as free_lcpu has its own slice.       *)
CopyAndFree(l) ==
  /\ Between(l, 1) /\ ~Alone
  /\ B!Enter(l)
  /\ lpairs' = [lpairs EXCEPT
                  ![l] = Sort(copy_elems(input, SliceStart(l), SliceEnd(l)))]
  /\ colls' = IF l = FreeLcpu THEN "freed" ELSE colls
  /\ UNCHANGED <<input, total_len, lfreed, pivots, subsize, partsize, output,
                 returned>>

(* After the first barrier: copy the slice, sort it, send the pivots.      *)
CopyAndSort(l) ==
  /\ Between(l, 1) /\ ~Alone
  /\ B!Enter(l)
  /\ LET loc == Sort(copy_elems(input, SliceStart(l), SliceEnd(l)))
         base == l * (NCpus - 1)
         mine == LocalPivots(loc)
     IN  /\ lpairs' = [lpairs EXCEPT ![l] = loc]
         /\ pivots' = [j \in DOMAIN pivots |->
                         IF j - base \in DOMAIN mine THEN mine[j - base]
                                                     ELSE pivots[j]]
  /\ UNCHANGED <<input, colls, total_len, lfreed, subsize, partsize, output,
                 returned>>

(* The other cpus do not return but go on to the next barrier.             *)
SortAloneNoReturn(l) ==
  /\ Between(l, 1) /\ Alone
  /\ \/ l # MainLcpu /\ B!Enter(l) /\ UNCHANGED <<returned, lpairs, colls>>
     \/ /\ l = MainLcpu /\ returned' = returned \cup {l} /\ colls' = "set"
        /\ UNCHANGED <<lpairs, entered, left>>
  /\ UNCHANGED <<input, total_len, lfreed, pivots, subsize, partsize, output>>

(* The same when there is too little to share: the main cpu copies, sorts  *)
(* and replaces the collections, the others return.                        *)
SortAlone(l) ==
  /\ Between(l, 1) /\ Alone
  /\ returned' = returned \cup {l}
  /\ IF l = MainLcpu
     THEN LET loc == Sort(copy_elems(input, 0, total_len - 1))
          IN  /\ lpairs' = [lpairs EXCEPT ![l] = loc]
              /\ colls' = "set"
     ELSE UNCHANGED <<lpairs, colls>>
  /\ UNCHANGED <<input, total_len, lfreed, pivots, subsize, partsize, output,
                 entered, left>>

(* After the second barrier: the main cpu sorts all pivots and selects     *)
(* p - 1 of them into pivots[1 .. p - 1]; free_lcpu frees the collections. *)
SelectPivots(l) ==
  /\ Between(l, 2) /\ l = MainLcpu
  /\ B!Enter(l)
  /\ LET sorted == Sort([j \in 1 .. NCpus * (NCpus - 1) |-> pivots[j - 1]])
         chosen[j \in 0 .. NCpus - 1] ==
           \* memcpy in place, in ascending order
           IF j = 0 THEN [x \in DOMAIN pivots |-> At(sorted, x)]
           ELSE [chosen[j - 1] EXCEPT
                   ![j] = chosen[j - 1][(j - 1) * NCpus + NCpus \div 2]]
     IN  pivots' = chosen[NCpus - 1]
  /\ UNCHANGED <<input, colls, total_len, lpairs, lfreed, subsize, partsize,
                 output, returned>>

FreeCollections(l) ==
  /\ Between(l, 2) /\ l # MainLcpu
  /\ B!Enter(l)
  /\ IF l = FreeLcpu
     THEN colls' = "freed"
     ELSE UNCHANGED colls
  /\ UNCHANGED <<input, total_len, lpairs, lfreed, pivots, subsize, partsize,
                 output, returned>>

(* After the third barrier: divide the local array at the pivots.          *)
Divide(l) ==
  /\ Between(l, 3)
  /\ B!Enter(l)
  /\ LET copied == Len(lpairs[l])
     IN  \E oob \in BOOLEAN :
           LET cut == sublists(lpairs[l], 0, copied - 1, pivots, 1, NCpus - 1, oob)
           IN  subsize' = [subsize EXCEPT ![l] =
                             [j \in 0 .. NCpus |->
                                IF j = 0 THEN 0
                                ELSE IF j = NCpus THEN copied ELSE cut[j]]]
  /\ UNCHANGED <<input, colls, total_len, lpairs, lfreed, pivots, partsize,
                 output, returned>>

Sum(f, S) == FoldFunctionOnSet(+, 0, f, S)

(* After the fourth barrier: the size of partition l over all cpus; the    *)
(* main cpu allocates the output and makes it the first collection.        *)
PartitionSize(l) ==
  /\ Between(l, 4)
  /\ B!Enter(l)
  /\ partsize' = [partsize EXCEPT ![l] =
                    Sum([m \in Lcpu |-> subsize[m][l + 1] - subsize[m][l]], Lcpu)]
  /\ IF l = MainLcpu THEN output' = <<>> /\ colls' = "set"
                      ELSE UNCHANGED <<output, colls>>
  /\ UNCHANGED <<input, total_len, lpairs, lfreed, pivots, subsize, returned>>

(* After the fifth barrier: merge partition l of all cpus into its place   *)
(* in the output.                                                          *)
StartPosAfter(l) == Sum(partsize, {m \in Lcpu : m <= l})   \* one too many
StartPos(l) == Sum(partsize, {m \in Lcpu : m < l})

MergePartition(l) ==
  /\ Between(l, 5)
  /\ B!Enter(l)
  /\ LET part == mergesort([m \in 1 .. NCpus |-> lpairs[m - 1]],
                           [m \in 1 .. NCpus |-> subsize[m - 1][l]],
                           [m \in 1 .. NCpus |-> subsize[m - 1][l + 1]],
                           partsize[l])
         mine == StartPos(l) .. StartPos(l) + partsize[l] - 1
     IN  output' = [j \in mine |-> At(part, j - StartPos(l))] @@ output
  /\ UNCHANGED <<input, colls, total_len, lpairs, lfreed, pivots, subsize,
                 partsize, returned>>

(* After the last barrier: free the local array and return.                *)
FreeLocal(l) ==
  /\ Between(l, 6)
  /\ lfreed' = [lfreed EXCEPT ![l] = TRUE]
  /\ returned' = returned \cup {l}
  /\ UNCHANGED <<input, colls, total_len, lpairs, pivots, subsize, partsize,
                 output, entered, left>>

-----------------------------------------------------------------------------
CpuStep(l) ==
  \/ Initialise(l) \/ LeaveBarrier(l) \/ CopyAndSort(l) \/ SortAlone(l)
  \/ SelectPivots(l) \/ FreeCollections(l) \/ Divide(l) \/ PartitionSize(l)
  \/ MergePartition(l) \/ FreeLocal(l)

Done == returned = Lcpu /\ UNCHANGED vars

Next == (\E l \in Lcpu : CpuStep(l)) \/ Done

Safety == Init /\ [][Next]_vars

(* The control of CpuStep(l), without the data it computes: it is enabled  *)
(* when CpuStep(l) is, and a step of Next is a Move(l) when it is a        *)
(* CpuStep(l).  Each cpu's thread keeps running.                           *)
Move(l) ==
  LET last == IF Alone THEN 1 ELSE 6
  IN  \/ (\E k \in 0 .. last - 1 : Between(l, k)) /\ B!Enter(l) /\ UNCHANGED returned
      \/ B!Leave(l) /\ UNCHANGED returned
      \/ Between(l, last) /\ returned' = returned \cup {l} /\ UNCHANGED <<entered, left>>

Spec == Safety /\ \A l \in Lcpu : WF_control(Move(l))

-----------------------------------------------------------------------------
(* Properties                                                              *)

AllReturned == returned = Lcpu

(* What the caller finds in the first collection.                          *)
Result == IF Alone THEN lpairs[MainLcpu]
                   ELSE [j \in 1 .. total_len |->
                           IF j - 1 \in DOMAIN output THEN output[j - 1] ELSE Idle]

Ascending(s) == \A j \in 1 .. Len(s) - 1 : s[j] <= s[j + 1]
Occurs(x, s) == Cardinality({j \in 1 .. Len(s) : s[j] = x})

(* No cpu reads the collections after free_lcpu freed them, and no cpu     *)
(* merges from a local array that its owner has freed; the array that      *)
(* becomes the result is not freed.                                        *)
MemorySafe ==
  /\ \A l \in Lcpu :
       /\ (Between(l, 0) \/ (Between(l, 1) /\ (l = MainLcpu \/ ~Alone)))
            => colls = "input"
       /\ Between(l, 5) => \A m \in Lcpu : ~lfreed[m]
  /\ AllReturned => (colls = "set" /\ (Alone => ~lfreed[MainLcpu]))

(* The pivots do not change any more once a cpu may divide its array by    *)
(* them.                                                                   *)
PivotsFrozen == [][pivots' # pivots => \A l \in Lcpu : left[l] < 3]_vars

(* The division of a local array: ascending indices from 0 to its length,  *)
(* so that the partitions are disjoint and lie in the array.               *)
SublistsInBounds ==
  \A l \in Lcpu : entered[l] >= 4 =>
    /\ subsize[l][0] = 0 /\ subsize[l][NCpus] = Len(lpairs[l])
    /\ \A j \in 1 .. NCpus : subsize[l][j - 1] <= subsize[l][j]

(* Nothing is lost and nothing is duplicated: the result has the elements  *)
(* of the collections, whoever wrote which part of it when.                *)
ResultIsPermutation ==
  AllReturned =>
    LET all == FlattenSeq(input)
    IN  /\ Len(Result) = Len(all)
        /\ \A x \in Elem : Occurs(x, Result) = Occurs(x, all)

(* What the merge achieves: every partition is sorted in itself, and so is *)
(* the whole result when the main cpu sorts alone.                         *)
PartitionsSorted ==
  AllReturned =>
    IF Alone THEN Ascending(Result)
    ELSE \A l \in Lcpu :
           Ascending(SubSeq(Result, StartPos(l) + 1, StartPos(l) + partsize[l]))

(* What psrs.c:203 says psrs does: sort the elements of the collections.   *)
ResultSorted == AllReturned => Ascending(Result)

(* No cpu reads what another has freed, and each stays inside the arrays   *)
(* that it divides and merges.                                             *)
AccessesSound == TypeOK /\ MemorySafe /\ SublistsInBounds

(* The result has all elements of the input, in sorted partitions.         *)
ResultSound == ResultIsPermutation /\ PartitionsSorted

(* Every cpu gets through all the barriers and returns.                    *)
Terminates == <>AllReturned
=============================================================================
