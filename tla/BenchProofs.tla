---------------------------- MODULE BenchProofs ----------------------------
(***************************************************************************)
(* Proofs about the measurement programs (Bench), for every machine, array *)
(* size and set of command lines: the threads of a measured phase start    *)
(* together, on processors of their own.                                   *)
(***************************************************************************)
EXTENDS Bench, FiniteSetTheorems, WellFoundedInduction, TLAPS

(***************************************************************************)
(* The largest number of threads of a command line.                        *)
(***************************************************************************)

(* A set of numbers has a least one.                                       *)
LEMMA LeastNumber ==
  ASSUME NEW T, T \subseteq Nat, T # {}
  PROVE  \E x \in T : \A y \in T : x <= y
<1> DEFINE R == OpToRel(<, Nat)
<1>1. IsWellFoundedOn(R, Nat)
  BY NatLessThanWellFounded
<1>2. \A x, y \in Nat : y < x => <<y, x>> \in R
  BY DEF OpToRel
<1> HIDE DEF R
<1>3. PICK x \in T : \A y \in T : ~(<<y, x>> \in R)
  BY <1>1, WFMin
<1>4. \A y \in T : x <= y
  <2> SUFFICES ASSUME NEW y \in T, ~(x <= y) PROVE FALSE
    OBVIOUS
  <2>1. x \in Nat /\ y \in Nat /\ y < x
    OBVIOUS
  <2> QED
    BY <1>2, <1>3, <2>1
<1> QED
  BY <1>4

(* A bounded set of numbers has a greatest one, and Max is it.             *)
LEMMA MaxIsGreatest ==
  ASSUME NEW S, S # {}, NEW n \in Nat, S \subseteq 0 .. n
  PROVE  Max(S) \in S /\ \A y \in S : Max(S) >= y
<1> DEFINE T == {n - x : x \in S}
<1>1. T \subseteq Nat /\ T # {}
  <2>1. \A x \in S : n - x \in Nat
    OBVIOUS
  <2> QED
    BY <2>1
<1>2. PICK z \in T : \A y \in T : z <= y
  BY <1>1, LeastNumber
<1>3. PICK x \in S : z = n - x
  OBVIOUS
<1>4. ASSUME NEW y \in S PROVE x >= y
  <2>1. n - x <= n - y
    BY <1>2, <1>3
  <2>2. x \in Int /\ y \in Int
    OBVIOUS
  <2> QED
    BY <2>1, <2>2
<1> QED
  BY <1>4 DEF Max

Sizes == {c.n_threads : c \in Runs}

(* Every command line's threads have an entry in the tables of threads.    *)
LEMMA EnoughThreads ==
  ASSUME NEW c \in Runs
  PROVE  c.n_threads \in Nat \ {0} /\ 0 .. c.n_threads - 1 \subseteq Tids
<1>1. kTotalSize \in Nat /\ \A d \in Runs : d.n_threads \in 1 .. kTotalSize
  BY BenchAssumption
<1>2. Sizes # {} /\ Sizes \subseteq 0 .. kTotalSize
  BY <1>1 DEF Sizes
<1>3. Max(Sizes) \in Sizes /\ Max(Sizes) >= c.n_threads
  BY <1>1, <1>2, MaxIsGreatest DEF Sizes
<1>4. MaxThreads = Max(Sizes)
  BY DEF MaxThreads, Sizes
<1> DEFINE m == Max(Sizes)
<1>5. m \in 0 .. kTotalSize /\ m >= c.n_threads /\ MaxThreads = m
  BY <1>2, <1>3, <1>4
<1> HIDE DEF m
<1>6. MaxThreads \in Nat /\ c.n_threads \in Nat \ {0} /\ c.n_threads <= MaxThreads
  BY <1>1, <1>5
<1> QED
  BY <1>6 DEF Tids

(***************************************************************************)
(* The phases of a program.                                                *)
(***************************************************************************)

(* The last phase is the measured one; those of test_thread.c start at     *)
(* barrier_cross, no other program's do; a phase before the measured one   *)
(* is pinned in mage_noeviction.cc and test_thread.c only.                 *)
LEMMA PhasesAre ==
  ASSUME NEW c, NEW k \in 1 .. Len(Phases(c))
  PROVE  LET p == Phases(c)[k]
         IN  /\ p.sync \in {"none", "Wait", "cross"}
             /\ c.file = "test_thread" <=> p.sync = "cross"
             /\ p.work # "test" => k + 1 \in 1 .. Len(Phases(c))
             /\ p.pinned /\ p.work # "test" => c.file \in {"mage", "test_thread"}
             /\ 1 \in 1 .. Len(Phases(c))
<1> DEFINE f == Phase("none", "fill", FALSE)
           o == Phase("none", "pageout", TRUE)
           w == Phase("Wait", "test", TRUE)
           a == Phase("cross", "fill", TRUE)
           b == Phase("cross", "test", TRUE)
<1>1. \/ c.file = "mage" /\ Phases(c) = <<f, o, w>>
      \/ c.file = "test_thread" /\ Phases(c) = <<a, b>>
      \/ c.file \notin {"mage", "test_thread"} /\ (Phases(c) = <<f>> \o <<w>> \/ Phases(c) = <<>> \o <<w>>)
  BY DEF Phases, mage_phases, main_test_thread_phases, page_fault_phases
<1>2. f.sync = "none" /\ f.work = "fill" /\ f.pinned = FALSE
  BY DEF Phase
<1>3. o.sync = "none" /\ o.work = "pageout" /\ o.pinned = TRUE
  BY DEF Phase
<1>4. w.sync = "Wait" /\ w.work = "test" /\ w.pinned = TRUE
  BY DEF Phase
<1>5. a.sync = "cross" /\ a.work = "fill" /\ b.sync = "cross" /\ b.work = "test"
  BY DEF Phase
<1> HIDE DEF f, o, w, a, b
<1>6. CASE c.file = "mage" /\ Phases(c) = <<f, o, w>>
  <2>1. Len(Phases(c)) = 3 /\ k \in {1, 2, 3}
    BY <1>6
  <2>2. Phases(c)[1] = f /\ Phases(c)[2] = o /\ Phases(c)[3] = w
    BY <1>6
  <2> QED
    BY <1>2, <1>3, <1>4, <1>6, <2>1, <2>2
<1>7. CASE c.file = "test_thread" /\ Phases(c) = <<a, b>>
  <2>1. Len(Phases(c)) = 2 /\ k \in {1, 2}
    BY <1>7
  <2>2. Phases(c)[1] = a /\ Phases(c)[2] = b
    BY <1>7
  <2> QED
    BY <1>5, <1>7, <2>1, <2>2
<1>8. CASE c.file \notin {"mage", "test_thread"} /\ Phases(c) = <<f>> \o <<w>>
  <2>1. <<f>> \in Seq({f, w}) /\ <<w>> \in Seq({f, w}) /\ Len(<<f>>) = 1 /\ Len(<<w>>) = 1
    OBVIOUS
  <2>2. Len(Phases(c)) = 2 /\ Phases(c)[1] = f /\ Phases(c)[2] = w
    BY <1>8, <2>1
  <2>3. k \in {1, 2}
    BY <2>2
  <2> QED
    BY <1>2, <1>4, <1>8, <2>2, <2>3
<1>9. CASE c.file \notin {"mage", "test_thread"} /\ Phases(c) = <<>> \o <<w>>
  <2>1. Phases(c) = <<w>>
    BY <1>9
  <2>2. Len(Phases(c)) = 1 /\ k = 1 /\ Phases(c)[1] = w
    BY <2>1
  <2> QED
    BY <1>4, <1>9, <2>2
<1> QED
  BY <1>1, <1>6, <1>7, <1>8, <1>9
(***************************************************************************)
(* Starting together: the inductive invariant.                             *)
(***************************************************************************)

Everyone == Tids \cup {Main}

BenchType ==
  /\ cfg \in Runs
  /\ phase \in 1 .. Len(Phases(cfg))
  /\ DOMAIN at = Everyone
  /\ created \in 0 .. cfg.n_threads
  /\ bar \in [count : Int, generation : Int, gen : [Everyone -> Int]]

(* Threads that main has not yet created.                                  *)
ToCreate ==
  at[Main] = "create" => \A t \in Live : t >= created => at[t] = "none"

(* Those who have arrived at the barrier and have not left it.             *)
Arrived == {a \in Actors : at[a] \in {"waiting", "woken"}}

(* A phase without a barrier.                                              *)
Unsynced ==
  /\ Ph.sync = "none" /\ bar.count = 0
  /\ \A t \in Live : at[t] \in {"none", "run", "done"}
  /\ at[Main] \in {"create", "join", "done"}

(* Not everybody is at the barrier: those who are there are counted, in    *)
(* the generation of the barrier, and only Barrier::Wait has sleepers that *)
(* woke up without having been called.                                     *)
Gathering ==
  /\ Ph.sync \in {"Wait", "cross"}
  /\ \A t \in Live : at[t] \in {"none", "new", "waiting", "woken"}
  /\ at[Main] \in {"create", "new", "waiting", "woken", "exit"}
  /\ at[Main] # "exit" => bar.count = Cardinality(Arrived)
  /\ \A a \in Arrived : IF Ph.sync = "Wait" THEN bar.gen[a] = bar.generation
                                           ELSE at[a] = "waiting"

(* Everybody was: the barrier is ready for the next round, and whoever     *)
(* has not left it yet can tell that it was called.                        *)
Started ==
  /\ Ph.sync \in {"Wait", "cross"} /\ bar.count = 0
  /\ \A t \in Live : at[t] \in {"woken", "run", "done"}
  /\ at[Main] \in {"woken", "join", "done"}
  /\ \A a \in Arrived : Ph.sync = "Wait" => bar.gen[a] # bar.generation

StartInv == BenchType /\ ToCreate /\ (Unsynced \/ Gathering \/ Started)

(* barrier_cross of test_thread.c does not look again after a wake-up: the *)
(* theorem about starting together is for waits that end when they should. *)
CalledWaits == \A c \in Runs : c.file = "test_thread" => ~c.spurious

\* The threads are finite and one of them exists.
LEMMA Threads ==
  ASSUME BenchType
  PROVE  /\ cfg.n_threads \in Nat \ {0} /\ Live \subseteq Tids
         /\ Actors \subseteq Everyone /\ Live \subseteq Everyone /\ Main \in Everyone
         /\ Main \notin Live /\ Main \notin Tids
         /\ \A t \in Live : t \in Int /\ t # Main
<1>1. cfg.n_threads \in Nat \ {0} /\ Live \subseteq Tids
  BY EnoughThreads DEF BenchType, Live
<1>2. \A t \in Tids : t \in Int /\ t # Main
  BY DEF Tids, Main
<1> QED
  BY <1>1, <1>2 DEF Actors, Everyone

\* How many actors a phase has.
LEMMA ActorsCounted ==
  ASSUME BenchType
  PROVE  IsFiniteSet(Actors) /\ Cardinality(Actors) = cfg.n_threads + 1
<1> DEFINE n == cfg.n_threads
<1>1. n \in Nat \ {0}
  BY Threads
<1>2. IsFiniteSet(0 .. n - 1) /\ Cardinality(0 .. n - 1) = n
  <2>1. 0 \in Int /\ n - 1 \in Int
    BY <1>1
  <2>2. /\ IsFiniteSet(0 .. n - 1)
        /\ Cardinality(0 .. n - 1) = IF 0 > n - 1 THEN 0 ELSE n - 1 - 0 + 1
    BY <2>1, FS_Interval
  <2> QED
    BY <1>1, <2>2
<1>3. Actors = (0 .. n - 1) \cup {Main} /\ Main \notin 0 .. n - 1
  BY DEF Actors, Live, Main
<1> HIDE DEF n
<1>4. IsFiniteSet(Actors) /\ Cardinality(Actors) = Cardinality(0 .. n - 1) + 1
  BY <1>2, <1>3, FS_AddElement
<1> QED
  BY <1>2, <1>4 DEF n

(* The count says how many have arrived: it is short of all exactly when   *)
(* somebody else than the one who arrives now is missing.                  *)
LEMMA LastToArrive ==
  ASSUME BenchType, NEW a \in Actors, a \notin Arrived
  PROVE  /\ Cardinality(Arrived) \in Nat /\ Cardinality(Arrived) <= cfg.n_threads
         /\ Cardinality(Arrived) = cfg.n_threads => Arrived = Actors \ {a}
         /\ Cardinality(Arrived \cup {a}) = Cardinality(Arrived) + 1
<1>1. cfg.n_threads \in Nat
  BY Threads
<1>2. IsFiniteSet(Actors \ {a}) /\ Cardinality(Actors \ {a}) = cfg.n_threads
  <2>1. IsFiniteSet(Actors \ {a}) /\ Cardinality(Actors \ {a}) = Cardinality(Actors) - 1
    BY ActorsCounted, FS_RemoveElement
  <2> QED
    BY <1>1, <2>1, ActorsCounted
<1>3. Arrived \subseteq Actors \ {a}
  BY DEF Arrived
<1>4. /\ IsFiniteSet(Arrived) /\ Cardinality(Arrived) <= cfg.n_threads
      /\ Cardinality(Arrived) = cfg.n_threads => Arrived = Actors \ {a}
  BY <1>2, <1>3, FS_Subset
<1>5. Cardinality(Arrived) \in Nat
  BY <1>4, FS_CardinalityType
<1>6. Cardinality(Arrived \cup {a}) = Cardinality(Arrived) + 1
  BY <1>4, FS_AddElement
<1> QED
  BY <1>4, <1>5, <1>6

\* The invariant holds at first.
LEMMA StartInit == Init => StartInv
<1> SUFFICES ASSUME Init PROVE StartInv
  OBVIOUS
<1>1. cfg \in Runs /\ cfg.n_threads \in Nat
  BY EnoughThreads DEF Init
<1>2. 1 \in 1 .. Len(Phases(cfg)) /\ Ph.sync \in {"none", "Wait", "cross"}
  <2> DEFINE c == cfg
             p == Phases(c)
             f == Phase("none", "fill", FALSE)
             w == Phase("Wait", "test", TRUE)
  <2>1. Len(Phases(cfg)) >= 1 /\ Len(Phases(cfg)) \in Nat
    <3>1. CASE cfg.file = "mage"
      BY <3>1 DEF Phases, mage_phases
    <3>2. CASE cfg.file = "test_thread"
      BY <3>2 DEF Phases, main_test_thread_phases
    <3>3. CASE cfg.file \notin {"mage", "test_thread"}
      <4>1. <<f>> \in Seq({f, w}) /\ <<w>> \in Seq({f, w}) /\ Len(<<f>>) = 1 /\ Len(<<w>>) = 1
        OBVIOUS
      <4>2. p = <<f>> \o <<w>> \/ p = <<>> \o <<w>>
        BY <3>3 DEF Phases, page_fault_phases
      <4> HIDE DEF f, w, p
      <4>3. p = <<f>> \o <<w>> => Len(p) = 2
        BY <4>1
      <4>4. p = <<>> \o <<w>> => Len(p) = 1
        OBVIOUS
      <4> QED
        BY <4>2, <4>3, <4>4 DEF p
    <3> QED
      BY <3>1, <3>2, <3>3
  <2>2. 1 \in 1 .. Len(Phases(cfg))
    BY <2>1
  <2>3. phase = 1
    BY DEF Init
  <2> QED
    BY <2>2, <2>3, PhasesAre DEF Ph
<1>3. BenchType
  <2>1. DOMAIN at = Everyone /\ phase = 1 /\ created = 0
    BY DEF Init, Everyone
  <2>2. bar \in [count : Int, generation : Int, gen : [Everyone -> Int]]
    BY DEF Init, Everyone
  <2> QED
    BY <1>1, <1>2, <2>1, <2>2 DEF BenchType
<1>4. at[Main] = "create" /\ \A t \in Live : at[t] = "none"
  BY <1>3, Threads DEF Init, Everyone
<1>5. ToCreate
  BY <1>4 DEF ToCreate
<1>6. Arrived = {}
  BY <1>4 DEF Arrived, Actors
<1>7. bar.count = 0 /\ bar.count = Cardinality(Arrived)
  BY <1>6, FS_EmptySet DEF Init
<1>8. Unsynced \/ Gathering
  BY <1>2, <1>4, <1>6, <1>7 DEF Unsynced, Gathering
<1> QED
  BY <1>3, <1>5, <1>8 DEF StartInv

\* A step within a phase keeps its parameters.
LEMMA SamePhase ==
  ASSUME UNCHANGED <<cfg, phase>>
  PROVE  Ph' = Ph /\ Live' = Live /\ Actors' = Actors /\ (Keyed' <=> Keyed)
BY DEF Ph, Live, Actors, Keyed

(* The program is not one that waits without looking, or nothing wakes it. *)
LEMMA CrossIsKeyed ==
  ASSUME BenchType
  PROVE  /\ Ph.sync \in {"none", "Wait", "cross"}
         /\ Keyed <=> Ph.sync = "cross"
BY PhasesAre DEF BenchType, Ph, Keyed

\* pthread_create: one more thread is on its way.
LEMMA CreateStart ==
  ASSUME StartInv, CreateThread
  PROVE  StartInv'
<1> DEFINE s == IF Ph.sync = "none" THEN "run" ELSE "new"
<1>1. /\ at[Main] = "create" /\ created < cfg.n_threads /\ at' = [at EXCEPT ![created] = s]
      /\ created' = created + 1 /\ UNCHANGED <<cfg, phase, bar>>
  BY DEF CreateThread
<1>2. BenchType /\ cfg.n_threads \in Nat /\ created \in Live /\ created \in Nat
  <2>1. BenchType /\ cfg.n_threads \in Nat
    BY Threads DEF StartInv
  <2> QED
    BY <1>1, <2>1 DEF BenchType, Live
<1>3. /\ DOMAIN at' = Everyone /\ at'[created] = s
      /\ \A a \in Everyone : a # created => at'[a] = at[a]
  BY <1>1, <1>2, Threads DEF BenchType
<1>4. Ph' = Ph /\ Live' = Live /\ Actors' = Actors
  BY <1>1, SamePhase
<1>5. BenchType'
  <2>1. created' \in 0 .. cfg.n_threads
    BY <1>1, <1>2
  <2> QED
    BY <1>1, <1>2, <1>3, <2>1 DEF BenchType, Everyone
<1>6. at[created] = "none" /\ at'[Main] = at[Main]
  BY <1>1, <1>2, <1>3, Threads DEF StartInv, ToCreate, Everyone
<1>7. ToCreate'
  <2> SUFFICES ASSUME NEW t \in Live, t >= created + 1 PROVE at'[t] = "none"
    BY <1>1, <1>4 DEF ToCreate
  <2>1. t # created /\ t >= created /\ t \in Everyone
    BY <1>2, Threads
  <2> QED
    BY <1>1, <1>3, <2>1 DEF StartInv, ToCreate
<1>8. CASE Unsynced
  <2>1. s = "run"
    BY <1>8 DEF Unsynced
  <2>2. \A t \in Live : at'[t] \in {"none", "run", "done"}
    BY <1>2, <1>3, <1>8, <2>1, Threads DEF Unsynced
  <2>3. Unsynced'
    BY <1>1, <1>4, <1>6, <1>8, <2>2 DEF Unsynced
  <2> QED
    BY <1>5, <1>7, <2>3 DEF StartInv
<1>9. CASE Gathering
  <2>1. s = "new"
    BY <1>9 DEF Gathering
  <2>2. Arrived' = Arrived
    <3>1. \A a \in Actors : at'[a] \in {"waiting", "woken"} <=> at[a] \in {"waiting", "woken"}
      BY <1>2, <1>3, <1>6, <2>1, Threads
    <3> QED
      BY <1>4, <3>1 DEF Arrived
  <2>3. \A a \in Arrived : at'[a] = at[a]
    BY <1>2, <1>3, <1>6, Threads DEF Arrived
  <2>4. \A t \in Live : at'[t] \in {"none", "new", "waiting", "woken"}
    BY <1>2, <1>3, <1>9, <2>1, Threads DEF Gathering
  <2>5. Gathering'
    BY <1>1, <1>4, <1>6, <1>9, <2>2, <2>3, <2>4 DEF Gathering
  <2> QED
    BY <1>5, <1>7, <2>5 DEF StartInv
<1> QED
  BY <1>1, <1>8, <1>9 DEF StartInv, Started

(* Main goes on, in one of the ways that no thread's start depends on.     *)
LEMMA AllCreatedStart ==
  ASSUME StartInv, AllCreated
  PROVE  StartInv'
<1> DEFINE s == IF Ph.sync = "none" THEN "join" ELSE "new"
<1>1. /\ at[Main] = "create" /\ at' = [at EXCEPT ![Main] = s]
      /\ UNCHANGED <<cfg, phase, created, bar>>
  BY DEF AllCreated
<1>2. BenchType
  BY DEF StartInv
<1>3. DOMAIN at' = Everyone /\ at'[Main] = s /\ \A a \in Everyone : a # Main => at'[a] = at[a]
  BY <1>1, <1>2 DEF BenchType, Everyone
<1>4. Ph' = Ph /\ Live' = Live /\ Actors' = Actors
  BY <1>1, SamePhase
<1>5. BenchType' /\ ToCreate'
  BY <1>1, <1>2, <1>3 DEF BenchType, ToCreate, Everyone
<1>6. \A t \in Live : at'[t] = at[t]
  BY <1>2, <1>3, Threads
<1>7. CASE Unsynced
  BY <1>1, <1>3, <1>4, <1>5, <1>6, <1>7 DEF Unsynced, StartInv
<1>8. CASE Gathering
  <2>1. s = "new"
    BY <1>8 DEF Gathering
  <2>2. Arrived' = Arrived /\ \A a \in Arrived : at'[a] = at[a]
    BY <1>1, <1>2, <1>3, <1>4, <2>1, Threads DEF Arrived
  <2>3. Gathering'
    BY <1>1, <1>3, <1>4, <1>6, <1>8, <2>1, <2>2 DEF Gathering
  <2> QED
    BY <1>5, <2>3 DEF StartInv
<1> QED
  BY <1>1, <1>7, <1>8 DEF StartInv, Started

\* A failed pthread_create.
LEMMA FailStart ==
  ASSUME StartInv, WorkerFails
  PROVE  StartInv'
<1>1. /\ Keyed /\ (at[Main] = "create" \/ \E t \in Live : at[t] = "new")
      /\ at' = [at EXCEPT ![Main] = "exit"]
      /\ UNCHANGED <<cfg, phase, created, bar>>
  BY DEF WorkerFails
<1>2. BenchType /\ Ph.sync = "cross"
  BY <1>1, CrossIsKeyed DEF StartInv
<1>3. /\ DOMAIN at' = Everyone /\ at'[Main] = "exit"
      /\ \A a \in Everyone : a # Main => at'[a] = at[a]
  BY <1>1, <1>2 DEF BenchType, Everyone
<1>4. Ph' = Ph /\ Live' = Live /\ Actors' = Actors
  BY <1>1, SamePhase
<1>5. BenchType' /\ ToCreate'
  BY <1>1, <1>2, <1>3 DEF BenchType, ToCreate, Everyone
<1>6. Gathering
  BY <1>1, <1>2 DEF StartInv, Unsynced, Started
<1>7. \A t \in Live : at'[t] = at[t]
  BY <1>2, <1>3, Threads
<1>8. \A a \in Arrived' : a \in Arrived /\ at'[a] = at[a]
  BY <1>2, <1>3, <1>4, Threads DEF Arrived
<1>9. Gathering'
  BY <1>1, <1>3, <1>4, <1>6, <1>7, <1>8 DEF Gathering
<1> QED
  BY <1>5, <1>9 DEF StartInv

\* The next phase begins with nobody at the barrier.
LEMMA NextPhaseStart ==
  ASSUME StartInv, NextPhase
  PROVE  StartInv'
<1>1. /\ at[Main] = "join" /\ ~Measured /\ phase' = phase + 1
      /\ at' = [a \in DOMAIN at |-> IF a = Main THEN "create" ELSE "none"]
      /\ created' = 0 /\ UNCHANGED <<cfg, bar>>
  BY DEF NextPhase
<1>2. BenchType /\ cfg.n_threads \in Nat
  BY Threads DEF StartInv
<1>3. phase + 1 \in 1 .. Len(Phases(cfg))
  BY <1>1, <1>2, PhasesAre DEF BenchType, Measured, Ph
<1>4. DOMAIN at' = Everyone /\ at'[Main] = "create" /\ \A t \in Tids : at'[t] = "none"
  BY <1>1, <1>2, Threads DEF BenchType, Everyone
<1>5. BenchType'
  BY <1>1, <1>2, <1>3, <1>4 DEF BenchType, Everyone
<1>6. Live' = Live /\ Actors' = Actors
  BY <1>1 DEF Live, Actors
<1>7. \A t \in Live : at'[t] = "none"
  BY <1>2, <1>4, Threads
<1>8. ToCreate' /\ Arrived' = {}
  BY <1>4, <1>6, <1>7 DEF ToCreate, Arrived, Actors
<1>9. Ph'.sync \in {"none", "Wait", "cross"}
  BY <1>1, <1>3, PhasesAre DEF Ph
<1>10. bar.count = 0
  BY <1>1 DEF StartInv, Unsynced, Gathering, Started
<1>11. bar'.count = 0 /\ bar'.count = Cardinality(Arrived')
  BY <1>1, <1>8, <1>10, FS_EmptySet
<1>12. (Unsynced \/ Gathering)'
  BY <1>4, <1>6, <1>7, <1>8, <1>9, <1>11 DEF Unsynced, Gathering
<1> QED
  BY <1>5, <1>8, <1>12 DEF StartInv

(* One more is waiting.                                                    *)
LEMMA ArriveStart ==
  ASSUME StartInv, UNCHANGED <<cfg, phase, created>>, NEW a \in Actors, at[a] = "new",
         at[Main] # "exit", Ph.sync \in {"Wait", "cross"},
         at' = [at EXCEPT ![a] = "waiting"],
         bar' \in [count : Int, generation : Int, gen : [Everyone -> Int]],
         bar'.count = bar.count + 1,
         Ph.sync = "Wait" =>
           /\ bar'.generation = bar.generation
           /\ bar'.gen[a] = bar.generation /\ \A b \in Everyone : b # a => bar'.gen[b] = bar.gen[b]
  PROVE  StartInv'
<1>1. BenchType
  BY DEF StartInv
<1>2. Ph' = Ph /\ Live' = Live /\ Actors' = Actors
  BY SamePhase
<1>3. /\ DOMAIN at' = Everyone /\ at'[a] = "waiting"
      /\ \A b \in Everyone : b # a => at'[b] = at[b]
  BY <1>1, Threads DEF BenchType
<1>4. BenchType'
  BY <1>1, <1>3 DEF BenchType, Everyone
<1>5. ToCreate'
  BY <1>1, <1>2, <1>3, Threads DEF StartInv, ToCreate
<1>6. Gathering
  BY Threads, <1>1 DEF StartInv, Unsynced, Started, Actors
<1>7. a \notin Arrived /\ Arrived' = Arrived \cup {a}
  <2>1. \A b \in Actors : b # a => at'[b] = at[b]
    BY <1>1, <1>3, Threads
  <2> QED
    BY <1>2, <1>3, <2>1 DEF Arrived
<1>8. Cardinality(Arrived') = Cardinality(Arrived) + 1
  BY <1>1, <1>7, LastToArrive
<1>9. bar'.count = Cardinality(Arrived')
  BY <1>6, <1>8 DEF Gathering
<1>10. \A t \in Live : at'[t] \in {"none", "new", "waiting", "woken"}
  BY <1>1, <1>3, <1>6, Threads DEF Gathering
<1>11. at'[Main] \in {"create", "new", "waiting", "woken", "exit"}
  BY <1>1, <1>3, <1>6, Threads DEF Gathering
<1>12. \A b \in Arrived' : IF Ph.sync = "Wait" THEN bar'.gen[b] = bar'.generation
                                               ELSE at'[b] = "waiting"
  <2> SUFFICES ASSUME NEW b \in Arrived'
               PROVE  IF Ph.sync = "Wait" THEN bar'.gen[b] = bar'.generation
                                          ELSE at'[b] = "waiting"
    OBVIOUS
  <2>1. CASE b = a
    BY <1>3, <2>1
  <2>2. CASE b # a
    <3>1. b \in Arrived /\ b \in Everyone
      BY <1>1, <1>7, <2>2, Threads DEF Arrived
    <3> QED
      BY <1>3, <1>6, <2>2, <3>1 DEF Gathering
  <2> QED
    BY <2>1, <2>2
<1>13. Gathering'
  BY <1>2, <1>6, <1>9, <1>10, <1>11, <1>12 DEF Gathering
<1> QED
  BY <1>4, <1>5, <1>13 DEF StartInv

(* The last one is there.                                                  *)
LEMMA AllArrivedStart ==
  ASSUME StartInv, UNCHANGED <<cfg, phase, created>>, NEW a \in Actors, at[a] = "new",
         Ph.sync \in {"Wait", "cross"}, Arrived = Actors \ {a},
         at' = [WakeAll(at) EXCEPT ![a] = Through(a)],
         bar' \in [count : Int, generation : Int, gen : [Everyone -> Int]],
         bar'.count = 0,
         Ph.sync = "Wait" => bar'.generation = bar.generation + 1 /\ bar'.gen = bar.gen
  PROVE  StartInv'
<1>1. BenchType
  BY DEF StartInv
<1>2. Ph' = Ph /\ Live' = Live /\ Actors' = Actors
  BY SamePhase
<1>3. Gathering
  BY Threads, <1>1 DEF StartInv, Unsynced, Started, Actors
<1>4. /\ DOMAIN at' = Everyone /\ at'[a] = Through(a)
      /\ \A b \in Everyone : b # a => at'[b] = IF at[b] = "waiting" THEN "woken" ELSE at[b]
  BY <1>1, Threads DEF BenchType, WakeAll
<1>5. \A b \in Actors : b # a => at'[b] = "woken"
  <2> SUFFICES ASSUME NEW b \in Actors, b # a PROVE at'[b] = "woken"
    OBVIOUS
  <2>1. b \in Arrived /\ b \in Everyone
    BY <1>1, Threads
  <2> QED
    BY <1>4, <2>1 DEF Arrived
<1>6. \A t \in Live : at'[t] \in {"woken", "run", "done"}
  BY <1>1, <1>4, <1>5, Threads DEF Through, Actors
<1>7. at'[Main] \in {"woken", "join", "done"}
  BY <1>4, <1>5 DEF Through, Actors
<1>8. BenchType' /\ ToCreate'
  BY <1>1, <1>4, <1>7 DEF BenchType, ToCreate, Everyone
<1>9. \A b \in Arrived' : Ph.sync = "Wait" => bar'.gen[b] # bar'.generation
  <2> SUFFICES ASSUME NEW b \in Arrived', Ph.sync = "Wait" PROVE bar'.gen[b] # bar'.generation
    OBVIOUS
  <2>1. b # a /\ b \in Actors
    BY <1>2, <1>4 DEF Arrived, Through
  <2>2. bar.gen[b] = bar.generation
    BY <1>3, <2>1 DEF Gathering
  <2>3. bar.generation \in Int
    BY <1>1 DEF BenchType
  <2> QED
    BY <2>2, <2>3
<1>10. Started'
  BY <1>2, <1>6, <1>7, <1>9 DEF Started
<1> QED
  BY <1>8, <1>10 DEF StartInv

(* The one who arrives finds the count of the others.                      *)
LEMMA Newcomer ==
  ASSUME StartInv, NEW a \in Actors, at[a] = "new", at[Main] # "exit"
  PROVE  /\ BenchType /\ a \notin Arrived /\ bar.count \in Nat /\ cfg.n_threads \in Nat
         /\ bar.count <= cfg.n_threads
         /\ bar.count = cfg.n_threads => Arrived = Actors \ {a}
<1>1. BenchType
  BY DEF StartInv
<1>2. Gathering
  BY Threads, <1>1 DEF StartInv, Unsynced, Started, Actors
<1>3. a \notin Arrived
  BY DEF Arrived
<1> QED
  BY <1>1, <1>2, <1>3, LastToArrive, Threads DEF Gathering

\* A thread enters the barrier and waits, or is the last.
LEMMA WaitStart ==
  ASSUME StartInv, NEW a \in Actors, Wait(a), at[Main] # "exit",
         UNCHANGED <<cfg, phase, created>>
  PROVE  StartInv'
<1>1. at[a] = "new" /\ Ph.sync = "Wait"
  BY DEF Wait
<1>2. /\ BenchType /\ a \notin Arrived /\ bar.count \in Nat /\ cfg.n_threads \in Nat
      /\ bar.count = cfg.n_threads => Arrived = Actors \ {a}
  BY <1>1, Newcomer
<1>3. bar \in [count : Int, generation : Int, gen : [Everyone -> Int]] /\ a \in Everyone
  BY <1>2, Threads DEF BenchType
<1>4. CASE bar.count + 1 = cfg.n_threads + 1
  <2>1. Arrived = Actors \ {a}
    BY <1>2, <1>4
  <2>2. /\ bar' = [bar EXCEPT !.count = 0, !.generation = @ + 1]
        /\ at' = [WakeAll(at) EXCEPT ![a] = Through(a)]
    BY <1>4 DEF Wait
  <2>3. /\ bar' \in [count : Int, generation : Int, gen : [Everyone -> Int]]
        /\ bar'.count = 0 /\ bar'.generation = bar.generation + 1 /\ bar'.gen = bar.gen
    <3>1. bar.generation + 1 \in Int
      BY <1>3
    <3>2. bar' = [count |-> 0, generation |-> bar.generation + 1, gen |-> bar.gen]
      BY <1>3, <2>2
    <3> QED
      BY <1>3, <3>1, <3>2
  <2> QED
    BY <1>1, <2>1, <2>2, <2>3, AllArrivedStart
<1>5. CASE bar.count + 1 # cfg.n_threads + 1
  <2>1. /\ bar' = [bar EXCEPT !.count = @ + 1, !.gen[a] = bar.generation]
        /\ at' = [at EXCEPT ![a] = "waiting"]
    BY <1>5 DEF Wait
  <2>2. /\ bar' \in [count : Int, generation : Int, gen : [Everyone -> Int]]
        /\ bar'.count = bar.count + 1 /\ bar'.generation = bar.generation
        /\ bar'.gen[a] = bar.generation /\ \A b \in Everyone : b # a => bar'.gen[b] = bar.gen[b]
    <3> DEFINE g == [bar.gen EXCEPT ![a] = bar.generation]
    <3>1. bar.count + 1 \in Int /\ bar.generation \in Int /\ bar.gen \in [Everyone -> Int]
      BY <1>3
    <3>2. /\ g \in [Everyone -> Int] /\ g[a] = bar.generation
          /\ \A b \in Everyone : b # a => g[b] = bar.gen[b]
      BY <1>3, <3>1
    <3>3. bar' = [count |-> bar.count + 1, generation |-> bar.generation, gen |-> g]
      BY <1>3, <2>1
    <3> HIDE DEF g
    <3> QED
      BY <3>1, <3>2, <3>3
  <2> QED
    BY <1>1, <2>1, <2>2, ArriveStart
<1> QED
  BY <1>4, <1>5

\* The last to enter starts everyone.
LEMMA CrossStart ==
  ASSUME StartInv, NEW a \in Actors, barrier_cross(a), at[Main] # "exit",
         UNCHANGED <<cfg, phase, created>>
  PROVE  StartInv'
<1>1. at[a] = "new" /\ Ph.sync = "cross"
  BY DEF barrier_cross
<1>2. /\ BenchType /\ a \notin Arrived /\ bar.count \in Nat /\ cfg.n_threads \in Nat
      /\ bar.count <= cfg.n_threads
      /\ bar.count = cfg.n_threads => Arrived = Actors \ {a}
  BY <1>1, Newcomer
<1>3. bar \in [count : Int, generation : Int, gen : [Everyone -> Int]]
  BY <1>2 DEF BenchType
<1>4. CASE bar.count + 1 < cfg.n_threads + 1
  <2>1. bar' = [bar EXCEPT !.count = @ + 1] /\ at' = [at EXCEPT ![a] = "waiting"]
    BY <1>4 DEF barrier_cross
  <2>2. /\ bar' \in [count : Int, generation : Int, gen : [Everyone -> Int]]
        /\ bar'.count = bar.count + 1
    BY <1>3, <2>1
  <2> QED
    BY <1>1, <2>1, <2>2, ArriveStart
<1>5. CASE ~(bar.count + 1 < cfg.n_threads + 1)
  <2>1. Arrived = Actors \ {a}
    BY <1>2, <1>5
  <2>2. bar' = [bar EXCEPT !.count = 0] /\ at' = [WakeAll(at) EXCEPT ![a] = Through(a)]
    BY <1>5 DEF barrier_cross
  <2>3. /\ bar' \in [count : Int, generation : Int, gen : [Everyone -> Int]]
        /\ bar'.count = 0
    BY <1>3, <2>2
  <2> QED
    BY <1>1, <2>1, <2>2, <2>3, AllArrivedStart
<1> QED
  BY <1>4, <1>5

(* Steps of one actor that leave the barrier and main's bookkeeping alone. *)
LEMMA OneMoves ==
  ASSUME StartInv, UNCHANGED <<cfg, phase, created, bar>>, NEW a \in Actors, NEW s,
         at' = [at EXCEPT ![a] = s], at[a] # "none", s # "create"
  PROVE  /\ BenchType' /\ ToCreate'
         /\ Ph' = Ph /\ Live' = Live /\ Actors' = Actors
         /\ at'[a] = s /\ \A b \in Actors : b # a => at'[b] = at[b]
<1>1. BenchType
  BY DEF StartInv
<1>2. Ph' = Ph /\ Live' = Live /\ Actors' = Actors
  BY SamePhase
<1>3. /\ DOMAIN at' = Everyone /\ at'[a] = s
      /\ \A b \in Everyone : b # a => at'[b] = at[b]
  BY <1>1, Threads DEF BenchType
<1>4. \A b \in Actors : b # a => at'[b] = at[b]
  BY <1>1, <1>3, Threads
<1>5. BenchType'
  BY <1>1, <1>3 DEF BenchType, Everyone
<1>6. ToCreate'
  BY <1>1, <1>2, <1>3, <1>4, Threads DEF StartInv, ToCreate, Actors
<1> QED
  BY <1>2, <1>3, <1>4, <1>5, <1>6

(* After the barrier, or in a phase without one.                           *)
LEMMA AfterStart ==
  ASSUME StartInv, UNCHANGED <<cfg, phase, created, bar>>, NEW a \in Actors, NEW s,
         at' = [at EXCEPT ![a] = s], Unsynced \/ Started,
         at[a] \notin {"none", "create"},
         IF a = Main THEN s \in {"join", "done"} ELSE s \in {"run", "done"}
  PROVE  StartInv'
<1>1. /\ BenchType' /\ ToCreate' /\ Ph' = Ph /\ Live' = Live /\ Actors' = Actors
      /\ at'[a] = s /\ \A b \in Actors : b # a => at'[b] = at[b]
  BY OneMoves
<1>2. \A b \in Arrived' : b \in Arrived
  BY <1>1 DEF Arrived
<1>3. Main \notin Live
  BY Threads DEF StartInv
<1>4. CASE Unsynced
  <2>1. \A t \in Live : at'[t] \in {"none", "run", "done"}
    BY <1>1, <1>3, <1>4 DEF Unsynced, Actors
  <2>2. at'[Main] \in {"create", "join", "done"}
    BY <1>1, <1>4 DEF Unsynced, Actors
  <2> QED
    BY <1>1, <1>4, <2>1, <2>2 DEF Unsynced, StartInv
<1>5. CASE Started
  <2>1. \A t \in Live : at'[t] \in {"woken", "run", "done"}
    BY <1>1, <1>3, <1>5 DEF Started, Actors
  <2>2. at'[Main] \in {"woken", "join", "done"}
    BY <1>1, <1>5 DEF Started, Actors
  <2> QED
    BY <1>1, <1>2, <1>5, <2>1, <2>2 DEF Started, StartInv
<1> QED
  BY <1>4, <1>5

\* A waiting thread is woken.
LEMMA WakeStart ==
  ASSUME StartInv, NEW a \in Actors, WaitWake(a) \/ cross_wake(a), at[Main] # "exit",
         UNCHANGED <<cfg, phase, created>>
  PROVE  StartInv'
<1>1. at[a] = "woken" /\ bar' = bar /\ a \in Arrived
  BY DEF WaitWake, cross_wake, Arrived
<1>2. ~Unsynced
  BY <1>1 DEF Unsynced, Actors
<1>3. Through(a) \in {"run", "join"} /\ (a = Main <=> Through(a) = "join")
  BY DEF Through
<1>4. CASE Started
  <2>1. at' = [at EXCEPT ![a] = Through(a)]
    BY <1>1, <1>4 DEF Started, WaitWake, cross_wake
  <2>2. IF a = Main THEN Through(a) \in {"join", "done"} ELSE Through(a) \in {"run", "done"}
    BY DEF Through
  <2> HIDE DEF Through
  <2> QED
    BY <1>1, <1>4, <2>1, <2>2, AfterStart
<1>5. CASE Gathering
  <2>1. Ph.sync = "Wait" /\ bar.gen[a] = bar.generation
    BY <1>1, <1>5 DEF Gathering, WaitWake, cross_wake
  <2>2. at' = [at EXCEPT ![a] = "waiting"]
    BY <2>1 DEF WaitWake, cross_wake
  <2>3. /\ BenchType' /\ ToCreate' /\ Ph' = Ph /\ Live' = Live /\ Actors' = Actors
        /\ at'[a] = "waiting" /\ \A b \in Actors : b # a => at'[b] = at[b]
    BY <1>1, <2>2, OneMoves
  <2>4. Arrived' = Arrived
    BY <1>1, <2>3 DEF Arrived
  <2>5. Gathering'
    BY <1>1, <1>5, <2>1, <2>3, <2>4 DEF Gathering, Actors
  <2> QED
    BY <2>3, <2>5 DEF StartInv
<1> QED
  BY <1>2, <1>4, <1>5 DEF StartInv

\* A spurious wake-up can only happen to Barrier::Wait, which looks again.
LEMMA SpuriousStart ==
  ASSUME StartInv, CalledWaits, NEW a \in Actors, SpuriousWakeup(a)
  PROVE  StartInv'
<1>1. /\ cfg.spurious /\ at[a] = "waiting" /\ at' = [at EXCEPT ![a] = "woken"]
      /\ UNCHANGED <<cfg, phase, created, bar>>
  BY DEF SpuriousWakeup
<1>2. Gathering
  BY <1>1 DEF StartInv, Unsynced, Started, Actors
<1>3. Ph.sync = "Wait"
  BY <1>1, <1>2, CrossIsKeyed DEF StartInv, BenchType, CalledWaits, Gathering, Keyed
<1>4. /\ BenchType' /\ ToCreate' /\ Ph' = Ph /\ Live' = Live /\ Actors' = Actors
      /\ at'[a] = "woken" /\ \A b \in Actors : b # a => at'[b] = at[b]
  BY <1>1, OneMoves
<1>5. Arrived' = Arrived
  BY <1>1, <1>4 DEF Arrived
<1>6. Gathering'
  BY <1>1, <1>2, <1>3, <1>4, <1>5 DEF Gathering, Actors
<1> QED
  BY <1>4, <1>6 DEF StartInv

(* Whoever runs, or joins, does so after the start.                        *)
LEMMA RunsAfter ==
  ASSUME StartInv, (\E t \in Live : at[t] \in {"run", "done"}) \/ at[Main] \in {"join", "done"}
  PROVE  Unsynced \/ Started
BY DEF StartInv, Gathering

\* The measured part touches nothing the start depends on.
LEMMA BodyStart ==
  ASSUME StartInv, NEW t \in Live, FillOrPageout(t) \/ Access(t) \/ Finish(t)
  PROVE  StartInv'
<1>1. UNCHANGED <<cfg, phase, created, bar>> /\ at[t] = "run"
  BY DEF FillOrPageout, Access, Finish, Running
<1>2. Unsynced \/ Started
  BY <1>1, RunsAfter
<1>3. CASE at' = at
  BY <1>1, <1>3, SamePhase DEF StartInv, BenchType, ToCreate, Unsynced, Gathering, Started, Arrived
<1>4. CASE at' = [at EXCEPT ![t] = "done"]
  <2>1. t \in Actors /\ t # Main
    BY Threads DEF StartInv, Actors
  <2> QED
    BY <1>1, <1>2, <1>4, <2>1, AfterStart
<1> QED
  BY <1>3, <1>4 DEF FillOrPageout, Access, Finish

\* Nor do the main thread's other steps.
LEMMA MainStart ==
  ASSUME StartInv, Join \/ Report
  PROVE  StartInv'
<1>1. UNCHANGED <<cfg, phase, created, bar>> /\ at[Main] = "join"
  BY DEF Join, Report
<1>2. Unsynced \/ Started
  BY <1>1, RunsAfter
<1>3. CASE at' = at
  BY <1>1, <1>3, SamePhase DEF StartInv, BenchType, ToCreate, Unsynced, Gathering, Started, Arrived
<1>4. CASE at' = [at EXCEPT ![Main] = "done"]
  BY <1>1, <1>2, <1>4, AfterStart DEF Actors
<1> QED
  BY <1>3, <1>4 DEF Join, Report

\* Every step keeps the invariant.
LEMMA StartStep == CalledWaits /\ StartInv /\ [Next]_vars => StartInv'
<1> SUFFICES ASSUME CalledWaits, StartInv, [Next]_vars PROVE StartInv'
  OBVIOUS
<1>1. ASSUME NEW a \in Actors, Barrier(a) PROVE StartInv'
  BY <1>1, WaitStart, CrossStart, WakeStart DEF Barrier
<1>2. ASSUME UNCHANGED vars PROVE StartInv'
  <2>1. UNCHANGED <<cfg, phase, created, bar, at>>
    BY <1>2 DEF vars
  <2> QED
    BY <2>1, SamePhase DEF StartInv, BenchType, ToCreate, Unsynced, Gathering, Started, Arrived
<1> QED
  BY <1>1, <1>2, CreateStart, AllCreatedStart, FailStart, NextPhaseStart, SpuriousStart,
     BodyStart, MainStart DEF Next, Stop

\* The invariant implies that threads start together.
LEMMA StartInvTogether == StartInv => StartTogether
<1> SUFFICES ASSUME StartInv, Ph.sync # "none", \E t \in Live : at[t] \in {"run", "done"}
             PROVE  at[Main] \notin {"create", "new"} /\ \A u \in Live : at[u] \notin {"none", "new"}
  BY DEF StartTogether
<1>1. Started
  BY RunsAfter DEF Unsynced
<1> QED
  BY <1>1 DEF Started

(***************************************************************************)
(* Processors: the inductive invariant.                                    *)
(***************************************************************************)

(* The processors, and the number of each in the order getCPUid gives.     *)
Processors == NUM_SOCKET * NUM_PHYSICAL_CPU_PER_SOCKET * SMT_LEVEL

IsCpu(u) ==
  u \in [physical : 0 .. NUM_PHYSICAL_CPU_PER_SOCKET - 1, socket : 0 .. NUM_SOCKET - 1,
         smt : 0 .. SMT_LEVEL - 1]

Rank(u) == u.physical + NUM_PHYSICAL_CPU_PER_SOCKET * (u.socket + NUM_SOCKET * u.smt)

(* The phases whose threads take their processors from getCPUid.           *)
Numbered == Ph.pinned /\ ~Keyed

PinInv ==
  /\ DOMAIN pin = Tids
  /\ \A t \in Live : t >= created \/ ~Ph.pinned => pin[t] = None
  /\ IsCpu(cpu) /\ (~Numbered => cpu = CpuReset)
  /\ Ph.pinned => \A t \in Live : t < created =>
       pin[t] # None /\ (Keyed => pin[t].physical = t)
  /\ Numbered /\ cfg.n_threads <= Processors =>
       /\ \A t \in Live : t < created => Rank(pin[t]) = t
       /\ created < Processors => Rank(cpu) = created

\* Counting through nodes, cores and processors is injective.
LEMMA Distribute ==
  ASSUME NEW a \in Int, NEW b \in Int
  PROVE  a * (b + 1) = a * b + a
OBVIOUS

(* Until the last processor has been handed out, the next one is one that  *)
(* no thread has.                                                          *)
LEMMA NextCpu ==
  ASSUME NEW u, IsCpu(u)
  PROVE  /\ IsCpu(getCPUid(u)) /\ Rank(u) \in Int
         /\ Rank(u) + 1 < Processors => Rank(getCPUid(u)) = Rank(u) + 1
<1> DEFINE P == NUM_PHYSICAL_CPU_PER_SOCKET
           S == NUM_SOCKET
           M == SMT_LEVEL
           v == getCPUid(u)
           wrapP == u.physical + 1 = P
           wrapS == wrapP /\ u.socket + 1 = S
           x == u.socket + S * u.smt
           y == v.socket + S * v.smt
<1>1. P \in Nat \ {0} /\ S \in Nat \ {0} /\ M \in Nat \ {0}
  BY BenchAssumption
<1>2. u.physical \in 0 .. P - 1 /\ u.socket \in 0 .. S - 1 /\ u.smt \in 0 .. M - 1
  BY DEF IsCpu
<1>3. /\ v.physical = (IF wrapP THEN 0 ELSE u.physical + 1)
      /\ v.socket = (IF wrapS THEN 0 ELSE IF wrapP THEN u.socket + 1 ELSE u.socket)
      /\ v.smt = (IF wrapS THEN (u.smt + 1) % M ELSE u.smt)
      /\ v = [physical |-> v.physical, socket |-> v.socket, smt |-> v.smt]
  BY DEF getCPUid
<1>4. Rank(u) = u.physical + P * x /\ Rank(v) = v.physical + P * y /\ Processors = S * P * M
  BY DEF Rank, Processors
<1> HIDE DEF P, S, M, v
<1>5. (u.smt + 1) % M \in 0 .. M - 1 /\ (u.smt + 1 < M => (u.smt + 1) % M = u.smt + 1)
  BY <1>1, <1>2
<1>6. IsCpu(v)
  <2>1. v.physical \in 0 .. P - 1
    BY <1>1, <1>2, <1>3
  <2>2. v.socket \in 0 .. S - 1
    BY <1>1, <1>2, <1>3
  <2>3. v.smt \in 0 .. M - 1
    BY <1>2, <1>3, <1>5
  <2> QED
    BY <1>3, <2>1, <2>2, <2>3 DEF IsCpu, P, S, M
<1>7. x \in Int /\ S * u.smt \in Int /\ P * x \in Int
  BY <1>1, <1>2
<1>8. Rank(u) \in Int
  BY <1>2, <1>4, <1>7
<1>9. ASSUME Rank(u) + 1 < Processors
      PROVE  Rank(v) = Rank(u) + 1
  <2>1. CASE ~wrapP
    <3>1. v.physical = u.physical + 1 /\ y = x
      BY <1>3, <2>1
    <3> QED
      BY <1>2, <1>4, <1>7, <3>1
  <2>2. CASE wrapP /\ ~wrapS
    <3>1. v.physical = 0 /\ v.socket = u.socket + 1 /\ v.smt = u.smt
      BY <1>3, <2>2
    <3>2. y = x + 1
      BY <1>2, <1>7, <3>1
    <3>3. P * (x + 1) = P * x + P
      BY <1>1, <1>7, Distribute
    <3> QED
      BY <1>1, <1>2, <1>4, <1>7, <2>2, <3>1, <3>2, <3>3
  <2>3. CASE wrapS
    <3>1. u.physical = P - 1 /\ u.socket = S - 1
      BY <1>1, <1>2, <2>3
    <3>2. S * (u.smt + 1) = S * u.smt + S
      BY <1>1, <1>2, Distribute
    <3>3. x + 1 = S * (u.smt + 1)
      BY <1>1, <1>7, <3>1, <3>2
    <3>4. P * (x + 1) = P * x + P
      BY <1>1, <1>7, Distribute
    <3>5. Rank(u) + 1 = P * (x + 1)
      BY <1>1, <1>4, <1>7, <3>1, <3>4
    <3>6. u.smt + 1 < M
      <4> SUFFICES ASSUME u.smt + 1 = M PROVE FALSE
        BY <1>1, <1>2
      <4>1. Rank(u) + 1 = P * (S * M)
        BY <3>3, <3>5
      <4>2. P * (S * M) = S * P * M
        BY <1>1
      <4>3. S * P * M \in Int
        BY <1>1
      <4> QED
        BY <1>4, <1>9, <4>1, <4>2, <4>3
    <3>7. v.physical = 0 /\ v.socket = 0 /\ v.smt = u.smt + 1
      BY <1>3, <1>5, <2>3, <3>6
    <3>8. y = S * (u.smt + 1)
      BY <1>7, <3>2, <3>7, <1>1
    <3>9. P * y \in Int
      BY <1>1, <1>7, <3>3, <3>4, <3>8
    <3> QED
      BY <1>4, <3>3, <3>5, <3>7, <3>8, <3>9
  <2> QED
    BY <2>1, <2>2, <2>3
<1> QED
  BY <1>6, <1>8, <1>9 DEF v

PinBase == cfg \in Runs /\ phase \in 1 .. Len(Phases(cfg)) /\ created \in 0 .. cfg.n_threads

\* The part of the types the pinning needs.
LEMMA BenchTypePin == BenchType => PinBase
BY DEF BenchType, PinBase

\* The threads are numbered from 0.
LEMMA PinThreads ==
  ASSUME PinBase
  PROVE  cfg.n_threads \in Nat \ {0} /\ Live \subseteq Tids /\ created \in Nat
BY EnoughThreads DEF PinBase, Live

\* No thread is pinned at first.
LEMMA PinInit == Init => PinBase /\ PinInv
<1> SUFFICES ASSUME Init PROVE PinBase /\ PinInv
  OBVIOUS
<1>1. PinBase
  BY StartInit, BenchTypePin DEF StartInv
<1>2. DOMAIN pin = Tids /\ created = 0 /\ cpu = CpuReset
  BY DEF Init
<1>3. \A t \in Live : pin[t] = None /\ ~(t < created)
  BY <1>1, <1>2, PinThreads DEF Init, Live
<1>4. /\ NUM_SOCKET \in Nat \ {0} /\ NUM_PHYSICAL_CPU_PER_SOCKET \in Nat \ {0}
      /\ SMT_LEVEL \in Nat \ {0}
  BY BenchAssumption
<1>5. IsCpu(CpuReset)
  BY <1>4 DEF IsCpu, CpuReset
<1>6. Rank(CpuReset) = 0
  BY <1>4 DEF Rank, CpuReset
<1> QED
  BY <1>1, <1>2, <1>3, <1>5, <1>6 DEF PinInv

\* The next thread gets a processor nobody has.
LEMMA PinCreate ==
  ASSUME PinBase, PinInv, CreateThread
  PROVE  PinBase' /\ PinInv'
<1> DEFINE p == IF ~Ph.pinned THEN None
                ELSE IF Keyed THEN [CpuReset EXCEPT !.physical = created] ELSE cpu
<1>1. /\ created < cfg.n_threads /\ created' = created + 1
      /\ pin' = [pin EXCEPT ![created] = p]
      /\ cpu' = IF Ph.pinned /\ ~Keyed THEN getCPUid(cpu) ELSE cpu
      /\ UNCHANGED <<cfg, phase>>
  BY DEF CreateThread
<1>2. /\ cfg.n_threads \in Nat /\ created \in Nat /\ created \in Live /\ Live \subseteq Tids
      /\ \A t \in Live : t \in Nat
  BY <1>1, PinThreads DEF Live
<1>3. Ph' = Ph /\ Live' = Live /\ (Keyed' <=> Keyed)
  BY <1>1, SamePhase
<1>4. PinBase'
  BY <1>1, <1>2 DEF PinBase
<1>5. DOMAIN pin' = Tids /\ pin'[created] = p /\ \A t \in Live : t # created => pin'[t] = pin[t]
  BY <1>1, <1>2 DEF PinInv
<1>6. \A t \in Live : t >= created + 1 \/ ~Ph.pinned => pin'[t] = None
  <2> SUFFICES ASSUME NEW t \in Live, t >= created + 1 \/ ~Ph.pinned PROVE pin'[t] = None
    OBVIOUS
  <2>1. CASE t = created
    <3>1. ~Ph.pinned
      BY <1>2, <2>1
    <3> QED
      BY <1>5, <2>1, <3>1
  <2>2. CASE t # created
    <3>1. t >= created \/ ~Ph.pinned
      BY <1>2
    <3> QED
      BY <1>5, <2>2, <3>1 DEF PinInv
  <2> QED
    BY <2>1, <2>2
<1>7. IsCpu(cpu)' /\ (~Numbered' => cpu' = CpuReset)
  <2>1. Numbered' <=> Numbered
    BY <1>3 DEF Numbered
  <2>2. IsCpu(cpu')
    BY <1>1, NextCpu DEF PinInv
  <2>3. ~Numbered => cpu' = cpu
    BY <1>1 DEF Numbered
  <2>4. ~Numbered => cpu = CpuReset
    BY DEF PinInv
  <2> QED
    BY <2>1, <2>2, <2>3, <2>4 DEF IsCpu
<1>8. Ph.pinned => p # None /\ (Keyed => p.physical = created)
  <2>1. cpu # None
    BY DEF PinInv, IsCpu, None
  <2>2. CpuReset.physical = 0 /\ [CpuReset EXCEPT !.physical = created] # None
        /\ [CpuReset EXCEPT !.physical = created].physical = created
    BY DEF CpuReset, None
  <2> QED
    BY <2>1, <2>2
<1>9. ASSUME Ph.pinned, NEW t \in Live, t < created + 1
      PROVE  pin'[t] # None /\ (Keyed => pin'[t].physical = t)
  <2>1. CASE t = created
    BY <1>5, <1>8, <1>9, <2>1
  <2>2. CASE t # created
    <3>1. t < created /\ pin'[t] = pin[t]
      BY <1>2, <1>5, <1>9, <2>2
    <3> QED
      BY <1>9, <3>1 DEF PinInv
  <2> QED
    BY <2>1, <2>2
<1>10. ASSUME Numbered, cfg.n_threads <= Processors
       PROVE  /\ \A t \in Live : t < created + 1 => Rank(pin'[t]) = t
              /\ created + 1 < Processors => Rank(cpu') = created + 1
  <2>1. Processors \in Nat
    BY BenchAssumption DEF Processors
  <2>2. p = cpu /\ cpu' = getCPUid(cpu)
    BY <1>1, <1>10 DEF Numbered
  <2>3. Rank(cpu) = created
    BY <1>1, <1>2, <1>10, <2>1 DEF PinInv
  <2>4. ASSUME NEW t \in Live, t < created + 1 PROVE Rank(pin'[t]) = t
    <3>1. CASE t = created
      BY <1>5, <2>2, <2>3, <3>1
    <3>2. CASE t # created
      <4>1. t < created /\ pin'[t] = pin[t]
        BY <1>2, <1>5, <2>4, <3>2
      <4>2. Rank(pin[t]) = t
        BY <1>10, <4>1 DEF PinInv
      <4> QED
        BY <4>1, <4>2
    <3> QED
      BY <3>1, <3>2
  <2>5. created + 1 < Processors => Rank(cpu') = created + 1
    BY <2>2, <2>3, NextCpu DEF PinInv
  <2> QED
    BY <2>4, <2>5
<1>11. Numbered' <=> Numbered
  BY <1>3 DEF Numbered
<1>12. PinInv'
  <2>1. /\ \A t \in Live' : t >= created' \/ ~Ph'.pinned => pin'[t] = None
        /\ Ph'.pinned => \A t \in Live' : t < created' =>
             pin'[t] # None /\ (Keyed' => pin'[t].physical = t)
    BY <1>1, <1>3, <1>6, <1>9
  <2>2. Numbered' /\ cfg'.n_threads <= Processors =>
          /\ \A t \in Live' : t < created' => Rank(pin'[t]) = t
          /\ created' < Processors => Rank(cpu') = created'
    BY <1>1, <1>3, <1>10, <1>11
  <2> QED
    BY <1>5, <1>7, <2>1, <2>2 DEF PinInv, Rank, Processors
<1> QED
  BY <1>4, <1>12

\* A new phase counts from the start.
LEMMA PinNextPhase ==
  ASSUME PinBase, PinInv, NextPhase
  PROVE  PinBase' /\ PinInv'
<1>1. /\ ~Measured /\ phase' = phase + 1 /\ created' = 0
      /\ pin' = [t \in Tids |-> None]
      /\ cpu' = IF cfg.file = "mage" THEN CpuReset ELSE cpu
      /\ UNCHANGED cfg
  BY DEF NextPhase
<1>2. cfg.n_threads \in Nat /\ Live \subseteq Tids /\ Live' = Live /\ \A t \in Live : ~(t < 0)
  BY <1>1, PinThreads DEF Live
<1>3. phase + 1 \in 1 .. Len(Phases(cfg)) /\ (Ph.pinned => cfg.file \in {"mage", "test_thread"})
  BY <1>1, PhasesAre DEF PinBase, Measured, Ph
<1>4. PinBase'
  BY <1>1, <1>2, <1>3 DEF PinBase
<1>5. cpu' = CpuReset
  <2>1. cfg.file # "mage" => ~Numbered
    BY <1>3 DEF Numbered, Keyed
  <2> QED
    BY <1>1, <2>1 DEF PinInv
<1>6. /\ NUM_SOCKET \in Nat \ {0} /\ NUM_PHYSICAL_CPU_PER_SOCKET \in Nat \ {0}
      /\ SMT_LEVEL \in Nat \ {0}
  BY BenchAssumption
<1>7. IsCpu(CpuReset) /\ Rank(CpuReset) = 0
  <2>1. IsCpu(CpuReset)
    BY <1>6 DEF IsCpu, CpuReset
  <2>2. Rank(CpuReset) = 0
    BY <1>6 DEF Rank, CpuReset
  <2> QED
    BY <2>1, <2>2
<1>8. DOMAIN pin' = Tids /\ \A t \in Live : pin'[t] = None /\ ~(t < created')
  BY <1>1, <1>2
<1>9. IsCpu(cpu') /\ Rank(cpu') = created'
  BY <1>1, <1>5, <1>7
<1>10. PinInv'
  BY <1>2, <1>5, <1>8, <1>9 DEF PinInv, IsCpu, Rank, Processors
<1> QED
  BY <1>4, <1>10

\* Other steps leave the pinning alone.
LEMMA PinSame ==
  ASSUME PinBase, PinInv, UNCHANGED <<cfg, phase, created, cpu, pin>>
  PROVE  PinBase' /\ PinInv'
<1>1. Ph' = Ph /\ Live' = Live /\ (Keyed' <=> Keyed) /\ PinBase'
  BY SamePhase DEF PinBase
<1>2. Numbered' <=> Numbered
  BY <1>1 DEF Numbered
<1>3. PinInv'
  BY <1>1, <1>2 DEF PinInv, IsCpu, Rank, Processors
<1> QED
  BY <1>1, <1>3

\* Every step keeps the invariant.
LEMMA PinStep == PinBase /\ PinInv /\ [Next]_vars => PinBase' /\ PinInv'
<1> SUFFICES ASSUME PinBase, PinInv, [Next]_vars PROVE PinBase' /\ PinInv'
  OBVIOUS
<1>1. CASE AllCreated \/ WorkerFails \/ Join \/ Report
  BY <1>1, PinSame DEF AllCreated, WorkerFails, Join, Report
<1>2. CASE \E a \in Actors : Barrier(a) \/ SpuriousWakeup(a)
  BY <1>2, PinSame DEF Barrier, SpuriousWakeup
<1>3. CASE \E t \in Live : FillOrPageout(t) \/ Access(t) \/ Finish(t)
  BY <1>3, PinSame DEF FillOrPageout, Access, Finish
<1>4. CASE UNCHANGED vars
  BY <1>4, PinSame DEF vars
<1> QED
  BY <1>1, <1>2, <1>3, <1>4, PinCreate, PinNextPhase DEF Next, Stop

\* The invariant implies that no two threads share a processor.
LEMMA PinInvApart == PinBase /\ PinInv => PinnedApart
<1> SUFFICES ASSUME PinBase, PinInv, cfg.n_threads <= Processors, NEW t \in Live, NEW u \in Live,
                    t # u, pin[t] # None
             PROVE  pin[t] # pin[u]
  BY DEF PinnedApart, Processors
<1>1. \A x \in Live : x \in Nat
  BY PinThreads DEF Live
<1>2. created \in Nat
  BY PinThreads
<1>3. ~(t >= created) /\ Ph.pinned
  BY DEF PinInv
<1>4. t < created
  BY <1>1, <1>2, <1>3
<1>5. CASE pin[u] = None
  BY <1>5
<1>6. CASE pin[u] # None
  <2>1. ~(u >= created)
    BY <1>6 DEF PinInv
  <2>2. u < created
    BY <1>1, <1>2, <2>1
  <2>3. CASE Keyed
    BY <1>3, <1>4, <2>2, <2>3 DEF PinInv
  <2>4. CASE ~Keyed
    <3>1. Rank(pin[t]) = t /\ Rank(pin[u]) = u
      BY <1>3, <1>4, <2>2, <2>4 DEF PinInv, Numbered
    <3> QED
      BY <3>1
  <2> QED
    BY <2>3, <2>4
<1> QED
  BY <1>5, <1>6

(* Main never pins two threads of a phase to the same processor while      *)
(* there are processors enough, whatever the shape of the machine          *)
(* (getCPUid).                                                             *)
THEOREM ThreadsPinnedApart == Spec => []PinnedApart
<1>1. Init => PinBase /\ PinInv
  BY PinInit
<1>2. (PinBase /\ PinInv) /\ [Next]_vars => (PinBase /\ PinInv)'
  BY PinStep
<1>3. PinBase /\ PinInv => PinnedApart
  BY PinInvApart
<1> QED
  BY <1>1, <1>2, <1>3, PTL DEF Spec

(* The measured work of no thread begins before all threads of the phase   *)
(* and main have arrived at the barrier, for any number of threads, with   *)
(* wake-ups out of nowhere in the C++ programs and without them in         *)
(* test_thread.c.                                                          *)
THEOREM PhasesSetUp ==
  ASSUME CalledWaits
  PROVE  Spec => []PhaseSetUp
<1>1. Init => StartInv /\ PinBase /\ PinInv
  BY StartInit, PinInit
<1>2. (StartInv /\ PinBase /\ PinInv) /\ [Next]_vars => (StartInv /\ PinBase /\ PinInv)'
  BY StartStep, PinStep
<1>3. StartInv /\ PinBase /\ PinInv => PhaseSetUp
  BY StartInvTogether, PinInvApart DEF PhaseSetUp
<1> QED
  BY <1>1, <1>2, <1>3, PTL DEF Spec

=============================================================================
