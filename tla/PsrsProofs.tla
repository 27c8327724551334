----------------------------- MODULE PsrsProofs -----------------------------
(***************************************************************************)
(* Proofs about the parallel sort of Metis' reduce buckets, for any number *)
(* of cpus and any collections: no cpu reads what another one has freed,   *)
(* and the pivots do not change under a cpu that divides by them.          *)
(* What the recursive operators compute (sorting, merging, sublists) is    *)
(* no part of these proofs.                                                *)
(***************************************************************************)
EXTENDS Psrs, TLAPS

(***************************************************************************)
(* The inductive invariant                                                 *)
(***************************************************************************)

(* How many barriers there are on the way of a cpu.                        *)
Barriers == IF Alone THEN 1 ELSE 6

(* Where the cpus are: nobody is ahead of a barrier that another cpu has   *)
(* not entered, and a cpu returns behind its last barrier.                 *)
ControlInv ==
  /\ B!BTypeOK /\ returned \subseteq Lcpu
  /\ \A l, m \in Lcpu : left[l] <= entered[m]
  /\ \A l \in Lcpu :
       /\ entered[l] <= left[l] + 1 /\ entered[l] <= Barriers
       /\ l \in returned => left[l] = Barriers

(* total_len is set by the main cpu before its first barrier and never     *)
(* changes again: all cpus take the same way.                              *)
LengthInv == entered[MainLcpu] = 0 => total_len = Idle

(* Who has freed what.                                                     *)
CollsState ==
  IF Alone THEN IF MainLcpu \in returned THEN "set" ELSE "input"
  ELSE IF entered[MainLcpu] >= 5 THEN "set"
  ELSE IF entered[FreeLcpu] >= 3 THEN "freed" ELSE "input"

MemoryInv ==
  /\ colls = CollsState
  /\ lfreed = [l \in Lcpu |-> ~Alone /\ l \in returned]

PsrsInv == ControlInv /\ LengthInv /\ MemoryInv

(***************************************************************************)
(* Lemmas                                                                  *)
(***************************************************************************)

(* main_lcpu exists; free_lcpu does when the sort is shared.               *)
LEMMA CpusExist ==
  /\ MainLcpu \in Lcpu
  /\ ~Alone => FreeLcpu \in Lcpu
  /\ total_len = Idle => Alone
<1>1. NCpus \in Nat \ {0}
  BY PsrsAssumption
<1>2. NCpus * NCpus \in Nat
  BY <1>1
<1>3. NCpus * NCpus * NCpus \in Nat
  BY <1>1, <1>2
<1>4. total_len = Idle => Alone
  <2> DEFINE cube == NCpus * NCpus * NCpus
  <2>1. cube \in Nat
    BY <1>3
  <2> HIDE DEF cube
  <2>2. -1 < cube
    BY <2>1
  <2> QED BY <2>2 DEF Alone, Idle, cube
<1>5. ~Alone => NCpus # 1
  BY DEF Alone
<1> QED BY <1>1, <1>4, <1>5 DEF MainLcpu, FreeLcpu, Lcpu

(* A cpu at work between its k-th and its next barrier keeps all others    *)
(* from leaving the next one.                                              *)
LEMMA NobodyAhead ==
  ASSUME ControlInv, NEW l \in Lcpu, NEW k \in Nat, Between(l, k)
  PROVE  /\ entered[l] = k /\ left[l] = k /\ l \notin returned
         /\ \A m \in Lcpu : /\ left[m] <= k /\ entered[m] <= k + 1
                            /\ entered[m] >= k
                            /\ left[m] \in Nat /\ entered[m] \in Nat
  BY DEF ControlInv, Between, B!Outside, B!BTypeOK

(* The three kinds of steps there are, as far as the control goes.         *)
Working(l) == \/ Initialise(l) \/ CopyAndSort(l) \/ SelectPivots(l) \/ FreeCollections(l)
              \/ Divide(l) \/ PartitionSize(l) \/ MergePartition(l)
Returning(l) == SortAlone(l) \/ FreeLocal(l)

(* Only Initialise, by the main cpu, writes total_len.                     *)
LEMMA LengthWritten ==
  ASSUME ControlInv, LengthInv, NEW l \in Lcpu, CpuStep(l)
  PROVE  /\ LengthInv'
         /\ \/ UNCHANGED total_len
            \/ Initialise(l) /\ l = MainLcpu /\ total_len = Idle /\ entered[MainLcpu] = 0
<1> USE CpusExist DEF ControlInv, B!BTypeOK
<1>1. CASE Initialise(l) /\ l = MainLcpu
  <2>1. entered[MainLcpu] = 0 /\ entered'[MainLcpu] = 1
    BY <1>1, NobodyAhead DEF Initialise, B!Enter, Between, B!Outside
  <2> QED BY <1>1, <2>1 DEF LengthInv
<1>2. CASE ~(Initialise(l) /\ l = MainLcpu)
  <2>1. UNCHANGED total_len
    BY <1>2 DEF CpuStep, Initialise, LeaveBarrier, CopyAndSort, SortAlone, SelectPivots,
       FreeCollections, Divide, PartitionSize, MergePartition, FreeLocal, data
  <2>2. entered'[MainLcpu] = 0 => entered[MainLcpu] = 0
    BY DEF CpuStep, Initialise, LeaveBarrier, CopyAndSort, SortAlone, SelectPivots,
       FreeCollections, Divide, PartitionSize, MergePartition, FreeLocal, B!Enter, B!Leave
  <2> QED BY <2>1, <2>2 DEF LengthInv
<1> QED BY <1>1, <1>2

(* A cpu that works enters the next barrier; which barrier decides which   *)
(* shared words it may have written.                                       *)
LEMMA WorkStep ==
  ASSUME NEW l \in Lcpu, Working(l)
  PROVE  \E k \in 0 .. 5 :
           /\ Between(l, k) /\ B!Enter(l) /\ returned' = returned /\ lfreed' = lfreed
           /\ k = 0 => Initialise(l)
           /\ k = 1 => ~Alone
           /\ pivots' # pivots => k \in 0 .. 2
           /\ IF k = 2 /\ l = FreeLcpu /\ l # MainLcpu THEN colls' = "freed"
              ELSE IF k = 4 /\ l = MainLcpu THEN colls' = "set" ELSE colls' = colls
<1> USE DEF MainLcpu, FreeLcpu
<1>1. CASE Initialise(l)
  <2>1. Between(l, 0) /\ B!Enter(l) /\ UNCHANGED <<colls, lfreed, returned>>
    BY <1>1 DEF Initialise
  <2> QED BY <1>1, <2>1
<1>2. CASE CopyAndSort(l)
  <2>1. Between(l, 1) /\ ~Alone /\ B!Enter(l) /\ UNCHANGED <<colls, lfreed, returned>>
    BY <1>2 DEF CopyAndSort
  <2> QED BY <2>1
<1>3. CASE SelectPivots(l)
  <2>1. Between(l, 2) /\ l = MainLcpu /\ B!Enter(l) /\ UNCHANGED <<colls, lfreed, returned>>
    BY <1>3 DEF SelectPivots
  <2> QED BY <2>1
<1>4. CASE FreeCollections(l)
  BY <1>4 DEF FreeCollections
<1>5. CASE Divide(l)
  <2>1. Between(l, 3) /\ B!Enter(l) /\ UNCHANGED <<colls, lfreed, returned, pivots>>
    BY <1>5 DEF Divide
  <2> QED BY <2>1
<1>6. CASE PartitionSize(l)
  <2>1. Between(l, 4) /\ B!Enter(l) /\ UNCHANGED <<lfreed, returned, pivots>>
    BY <1>6 DEF PartitionSize
  <2>2. IF l = MainLcpu THEN colls' = "set" ELSE colls' = colls
    BY <1>6 DEF PartitionSize
  <2> QED BY <2>1, <2>2
<1>7. CASE MergePartition(l)
  <2>1. Between(l, 5) /\ B!Enter(l) /\ UNCHANGED <<colls, lfreed, returned, pivots>>
    BY <1>7 DEF MergePartition
  <2> QED BY <2>1
<1> QED BY <1>1, <1>2, <1>3, <1>4, <1>5, <1>6, <1>7 DEF Working

(* Cpus of a sort that is not shared never enter a second barrier; while   *)
(* total_len is not known, nobody has left the first.                      *)
LEMMA AloneStep ==
  ASSUME PsrsInv, NEW l \in Lcpu, CpuStep(l)
  PROVE  /\ \/ Alone' = Alone
            \/ Initialise(l) /\ l = MainLcpu /\ Alone /\ entered[MainLcpu] = 0
<1>1. CASE UNCHANGED total_len
  BY <1>1 DEF Alone
<1>2. CASE Initialise(l) /\ l = MainLcpu /\ total_len = Idle /\ entered[MainLcpu] = 0
  BY <1>2, CpusExist
<1> QED BY <1>1, <1>2, LengthWritten DEF PsrsInv

(* The control: barriers are entered and left together.                    *)
LEMMA ControlStep ==
  ASSUME PsrsInv, [Next]_vars
  PROVE  ControlInv'
<1> USE CpusExist DEF B!BTypeOK, Barriers
<1>1. ControlInv
  BY DEF PsrsInv
<1>2. ASSUME NEW l \in Lcpu, Working(l) PROVE ControlInv'
  <2>1. PICK k \in 0 .. 5 :
          /\ Between(l, k) /\ B!Enter(l) /\ returned' = returned
          /\ k = 0 => Initialise(l)
          /\ k = 1 => ~Alone
    BY <1>2, WorkStep
  <2>2. /\ entered[l] = k /\ left[l] = k /\ l \notin returned
        /\ \A m \in Lcpu : left[m] <= k /\ entered[m] <= k + 1 /\ entered[m] >= k
    BY <1>1, <2>1, NobodyAhead
  <2>3. entered' = [entered EXCEPT ![l] = k + 1] /\ left' = left
    BY <2>1, <2>2 DEF B!Enter
  <2>4. Alone' = Alone \/ (Alone /\ k = 0 /\ \A m \in Lcpu : entered[m] <= 1 /\ left[m] = 0)
    <3>1. CpuStep(l)
      BY <1>2 DEF Working, CpuStep
    <3>2. CASE Initialise(l) /\ l = MainLcpu /\ Alone /\ entered[MainLcpu] = 0
      <4>1. \A m \in Lcpu : left[m] <= 0 /\ left[m] \in Nat /\ entered[m] <= left[m] + 1
        BY <1>1, <3>2 DEF ControlInv
      <4>2. \A m \in Lcpu : left[m] = 0 /\ entered[m] <= 1
        BY <1>1, <4>1 DEF ControlInv
      <4> QED BY <2>2, <3>2, <4>2
    <3> QED BY <3>1, <3>2, AloneStep
  <2>5. k + 1 <= Barriers
    BY <1>1, <2>1, <2>2 DEF ControlInv
  <2>6. B!BTypeOK' /\ returned' \subseteq Lcpu
    BY <1>1, <2>1, <2>3 DEF ControlInv
  <2>7. \A m, n \in Lcpu : left'[m] <= entered'[n]
    BY <1>1, <2>2, <2>3 DEF ControlInv
  <2>8. \A m \in Lcpu : entered'[m] <= left'[m] + 1
    BY <1>1, <2>2, <2>3 DEF ControlInv
  <2>9. \A m \in Lcpu : entered'[m] <= Barriers'
    <3>1. \A m \in Lcpu : entered'[m] <= Barriers
      BY <1>1, <2>3, <2>5 DEF ControlInv
    <3> QED BY <1>1, <2>2, <2>3, <2>4, <3>1 DEF ControlInv
  <2>10. \A m \in Lcpu : m \in returned' => left'[m] = Barriers'
    BY <1>1, <2>1, <2>2, <2>3, <2>4 DEF ControlInv
  <2> QED BY <2>6, <2>7, <2>8, <2>9, <2>10 DEF ControlInv
<1>3. ASSUME NEW l \in Lcpu, LeaveBarrier(l) PROVE ControlInv'
  <2>1. /\ UNCHANGED <<entered, returned, total_len>> /\ left' = [left EXCEPT ![l] = @ + 1]
        /\ entered[l] # left[l]
        /\ \A m \in Lcpu : entered[m] >= entered[l]
    BY <1>3 DEF LeaveBarrier, B!Leave, B!Outside, data
  <2>2. Alone' = Alone
    BY <2>1 DEF Alone
  <2>3. left[l] + 1 = entered[l]
    BY <1>1, <2>1 DEF ControlInv
  <2>4. l \notin returned
    BY <1>1, <2>3 DEF ControlInv
  <2> QED BY <1>1, <2>1, <2>2, <2>3, <2>4 DEF ControlInv
<1>4. ASSUME NEW l \in Lcpu, Returning(l) PROVE ControlInv'
  <2>1. /\ UNCHANGED <<entered, left, total_len>> /\ returned' = returned \cup {l}
        /\ (Alone /\ Between(l, 1)) \/ Between(l, 6)
    BY <1>4 DEF Returning, SortAlone, FreeLocal
  <2>2. Alone' = Alone
    BY <2>1 DEF Alone
  <2>3. left[l] = Barriers
    BY <1>1, <2>1 DEF ControlInv, Between, B!Outside
  <2> QED BY <1>1, <2>1, <2>2, <2>3 DEF ControlInv
<1>5. CASE UNCHANGED vars
  BY <1>1, <1>5 DEF ControlInv, vars, data, control, Alone
<1> QED
  BY <1>2, <1>3, <1>4, <1>5 DEF Next, CpuStep, Working, Returning, Done

(* Who has freed what follows the cpus' way through the barriers.          *)
LEMMA MemoryStep ==
  ASSUME PsrsInv, [Next]_vars
  PROVE  MemoryInv'
<1> USE CpusExist DEF B!BTypeOK, Barriers
<1>1. ControlInv /\ MemoryInv
  BY DEF PsrsInv
<1>2. ASSUME NEW l \in Lcpu, Working(l) PROVE MemoryInv'
  <2>1. PICK k \in 0 .. 5 :
          /\ Between(l, k) /\ B!Enter(l) /\ returned' = returned /\ lfreed' = lfreed
          /\ k = 0 => Initialise(l)
          /\ k = 1 => ~Alone
          /\ IF k = 2 /\ l = FreeLcpu /\ l # MainLcpu THEN colls' = "freed"
             ELSE IF k = 4 /\ l = MainLcpu THEN colls' = "set" ELSE colls' = colls
    BY <1>2, WorkStep
  <2>2. /\ entered[l] = k /\ left[l] = k /\ l \notin returned
        /\ \A m \in Lcpu : left[m] <= k /\ entered[m] <= k + 1 /\ entered[m] >= k
    BY <1>1, <2>1, NobodyAhead
  <2>3. entered' = [entered EXCEPT ![l] = k + 1] /\ left' = left
    BY <2>1, <2>2 DEF B!Enter
  <2>4. CpuStep(l)
    BY <1>2 DEF Working, CpuStep
  <2>5. CASE Alone' = Alone
    <3>1. colls' = CollsState'
      <4>1. CASE Alone
        <5>1. k = 0
          BY <1>1, <2>1, <2>2, <4>1 DEF ControlInv
        <5> QED BY <1>1, <2>1, <2>5, <4>1, <5>1 DEF MemoryInv, CollsState
      <4>2. CASE ~Alone
        <5>1. MainLcpu # FreeLcpu
          BY DEF MainLcpu, FreeLcpu
        <5>2. /\ entered'[MainLcpu] = IF l = MainLcpu THEN k + 1 ELSE entered[MainLcpu]
              /\ entered'[FreeLcpu] = IF l = FreeLcpu THEN k + 1 ELSE entered[FreeLcpu]
          BY <1>1, <2>3, <4>2 DEF ControlInv
        <5>3. /\ entered[MainLcpu] \in Nat /\ entered[MainLcpu] >= k /\ entered[MainLcpu] <= k + 1
              /\ entered[FreeLcpu] \in Nat /\ entered[FreeLcpu] >= k /\ entered[FreeLcpu] <= k + 1
          BY <1>1, <2>2, <4>2 DEF ControlInv
        <5>4. colls = IF entered[MainLcpu] >= 5 THEN "set"
                      ELSE IF entered[FreeLcpu] >= 3 THEN "freed" ELSE "input"
          BY <1>1, <4>2 DEF MemoryInv, CollsState
        <5>5. colls' = IF entered'[MainLcpu] >= 5 THEN "set"
                       ELSE IF entered'[FreeLcpu] >= 3 THEN "freed" ELSE "input"
          BY <2>1, <2>2, <5>1, <5>2, <5>3, <5>4
        <5> QED BY <2>5, <4>2, <5>5 DEF CollsState
      <4> QED BY <4>1, <4>2
    <3> QED BY <1>1, <2>1, <2>5, <3>1 DEF MemoryInv
  <2>6. CASE Initialise(l) /\ l = MainLcpu /\ Alone /\ entered[MainLcpu] = 0
    <3>1. \A m \in Lcpu : left[m] <= 0 /\ left[m] \in Nat /\ entered[m] <= left[m] + 1
      BY <1>1, <2>6 DEF ControlInv
    <3>2. \A m \in Lcpu : left[m] = 0 /\ entered[m] <= 1 /\ m \notin returned
      BY <1>1, <3>1 DEF ControlInv
    <3>3. colls = "input" /\ lfreed = [m \in Lcpu |-> FALSE]
      BY <1>1, <2>6, <3>2 DEF MemoryInv, CollsState
    <3>4. colls' = colls
      BY <2>6 DEF Initialise
    <3>5. \A m \in Lcpu : entered'[m] <= 1 /\ entered'[m] \in Nat
      BY <1>1, <2>2, <2>3, <2>6, <3>2 DEF ControlInv
    <3>6. /\ MainLcpu \notin returned'
          /\ ~Alone' => FreeLcpu \in Lcpu
      <4>1. MainLcpu \notin returned'
        BY <2>1, <2>2, <2>6
      <4>2. ~Alone' => NCpus # 1
        BY DEF Alone
      <4> QED BY <4>1, <4>2, PsrsAssumption DEF FreeLcpu, Lcpu
    <3>7. colls' = CollsState'
      BY <3>3, <3>4, <3>5, <3>6 DEF CollsState
    <3>8. \A m \in Lcpu : m \notin returned'
      BY <2>1, <3>2
    <3> QED BY <2>1, <3>3, <3>7, <3>8 DEF MemoryInv
  <2> QED BY <2>4, <2>5, <2>6, AloneStep
<1>3. ASSUME NEW l \in Lcpu, LeaveBarrier(l) PROVE MemoryInv'
  BY <1>1, <1>3 DEF LeaveBarrier, B!Leave, data, MemoryInv, CollsState, Alone
<1>4. ASSUME NEW l \in Lcpu, SortAlone(l) PROVE MemoryInv'
  <2>1. /\ UNCHANGED <<entered, total_len, lfreed>> /\ returned' = returned \cup {l} /\ Alone
        /\ IF l = MainLcpu THEN colls' = "set" ELSE colls' = colls
    BY <1>4 DEF SortAlone
  <2>2. Alone'
    BY <2>1 DEF Alone
  <2> QED BY <1>1, <2>1, <2>2 DEF MemoryInv, CollsState
<1>5. ASSUME NEW l \in Lcpu, FreeLocal(l) PROVE MemoryInv'
  <2>1. /\ UNCHANGED <<entered, total_len, colls>> /\ returned' = returned \cup {l}
        /\ lfreed' = [lfreed EXCEPT ![l] = TRUE] /\ Between(l, 6)
    BY <1>5 DEF FreeLocal
  <2>2. ~Alone /\ Alone' = Alone
    BY <1>1, <2>1, NobodyAhead DEF Alone, ControlInv
  <2> QED BY <1>1, <2>1, <2>2 DEF MemoryInv, CollsState
<1>6. CASE UNCHANGED vars
  BY <1>1, <1>6 DEF MemoryInv, vars, data, control, CollsState, Alone
<1> QED
  BY <1>2, <1>3, <1>4, <1>5, <1>6 DEF Next, CpuStep, Working, Done

(***************************************************************************)
(* The theorems                                                            *)
(***************************************************************************)

(* For any number of cpus and any collections, the cpus of psrs go through *)
(* the barriers together, and the collections and local arrays are freed   *)
(* where CollsState says.                                                  *)
THEOREM PsrsInvariant == Safety => []PsrsInv
<1>1. Init => PsrsInv
  <2> SUFFICES ASSUME Init PROVE PsrsInv
    OBVIOUS
  <2>1. Alone
    BY CpusExist DEF Init
  <2>2. /\ returned = {} /\ total_len = Idle /\ colls = "input"
        /\ lfreed = [m \in Lcpu |-> FALSE]
        /\ entered = [m \in Lcpu |-> 0] /\ left = [m \in Lcpu |-> 0]
    BY DEF Init, B!BInit
  <2>3. ControlInv
    BY <2>1, <2>2 DEF ControlInv, B!BTypeOK, Barriers
  <2>4. LengthInv /\ MemoryInv
    BY <2>1, <2>2 DEF LengthInv, MemoryInv, CollsState
  <2> QED BY <2>3, <2>4 DEF PsrsInv
<1>2. PsrsInv /\ [Next]_vars => PsrsInv'
  <2> SUFFICES ASSUME PsrsInv, [Next]_vars PROVE PsrsInv'
    OBVIOUS
  <2>1. LengthInv'
    BY LengthWritten DEF PsrsInv, Next, Done, vars, data, control, LengthInv
  <2> QED BY <2>1, ControlStep, MemoryStep DEF PsrsInv
<1> QED BY <1>1, <1>2, PTL DEF Safety

(* psrs frees the collections while other cpus are still at work, and each *)
(* cpu its local array: none of them is read after that, and what becomes  *)
(* the result is not freed.                                                *)
THEOREM MemoryIsSafe == Safety => []MemorySafe
<1>1. PsrsInv => MemorySafe
  <2> SUFFICES ASSUME PsrsInv PROVE MemorySafe
    OBVIOUS
  <2> USE CpusExist DEF PsrsInv, MemoryInv, CollsState, Barriers
  <2>1. ASSUME NEW l \in Lcpu, Between(l, 0) PROVE colls = "input"
    <3>1. \A m \in Lcpu : left[m] = 0 /\ entered[m] <= 1 /\ entered[m] \in Nat
      BY <2>1, NobodyAhead
    <3>2. \A m \in Lcpu : m \notin returned
      BY <3>1 DEF ControlInv
    <3> QED BY <3>1, <3>2
  <2>2. ASSUME NEW l \in Lcpu, Between(l, 1), l = MainLcpu \/ ~Alone PROVE colls = "input"
    <3>1. l \notin returned /\ \A m \in Lcpu : entered[m] <= 2 /\ entered[m] \in Nat
      BY <2>2, NobodyAhead
    <3> QED BY <2>2, <3>1
  <2>3. ASSUME NEW l \in Lcpu, Between(l, 5), NEW m \in Lcpu PROVE ~lfreed[m]
    <3>1. left[m] <= 5 /\ left[m] \in Nat
      BY <2>3, NobodyAhead
    <3>2. m \in returned => left[m] = IF Alone THEN 1 ELSE 6
      BY DEF ControlInv
    <3>3. ~(~Alone /\ m \in returned)
      BY <3>1, <3>2
    <3> QED BY <3>3
  <2>4. ASSUME AllReturned PROVE colls = "set" /\ (Alone => ~lfreed[MainLcpu])
    <3>1. MainLcpu \in returned
      BY <2>4 DEF AllReturned
    <3>2. ~Alone => left[MainLcpu] = 6 /\ left[MainLcpu] <= entered[MainLcpu]
      BY <3>1 DEF ControlInv
    <3>3. ~Alone => entered[MainLcpu] >= 5
      BY <3>2 DEF ControlInv, B!BTypeOK
    <3> QED BY <3>1, <3>3
  <2> QED BY <2>1, <2>2, <2>3, <2>4 DEF MemorySafe
<1> QED BY <1>1, PsrsInvariant, PTL

(* psrs: the pivots that the main cpu selects are the ones that every cpu  *)
(* divides its local array by.                                             *)
THEOREM PivotsAreFrozen == Safety => PivotsFrozen
<1>1. PsrsInv /\ [Next]_vars => [pivots' # pivots => \A l \in Lcpu : left[l] < 3]_vars
  <2> SUFFICES ASSUME PsrsInv, Next, pivots' # pivots, NEW m \in Lcpu PROVE left[m] < 3
    BY DEF vars, data
  <2>1. PICK l \in Lcpu : CpuStep(l)
    BY DEF Next, Done, vars, data
  <2>2. Working(l)
    BY <2>1 DEF CpuStep, Working, LeaveBarrier, SortAlone, FreeLocal, data
  <2>3. PICK k \in 0 .. 2 : Between(l, k)
    BY <2>2, WorkStep
  <2> QED BY <2>3, NobodyAhead DEF PsrsInv
<1> QED BY <1>1, PsrsInvariant, PTL DEF Safety, PivotsFrozen

=============================================================================
