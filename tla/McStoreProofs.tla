--------------------------- MODULE McStoreProofs ---------------------------
(***************************************************************************)
(* Theorems about the item store: as long as the hash table does not grow  *)
(* and nobody calls flush_all, every chunk is in one place, reference      *)
(* counts are right and held items stay as they are, for any number of     *)
(* threads, keys, pages and classes and every schedule, until a step of    *)
(* another overlaps the unlocked unlink of do_item_get; and where no page  *)
(* moves none ever does.                                                   *)
(***************************************************************************)
EXTENDS McStore, SequenceTheorems, FiniteSetTheorems, WellFoundedInduction, TLAPS

----------------------------------------------------------------------------
(* Lists.                                                                  *)

\* The elements of a sequence over S are in S.
LEMMA ElementsOf ==
  ASSUME NEW S, NEW s \in Seq(S)
  PROVE  Range(s) \subseteq S
<1>1. DOMAIN s = 1 .. Len(s) /\ \A j \in 1 .. Len(s) : s[j] \in S
  BY ElementOfSeq, LenProperties
<1> QED BY <1>1 DEF Range

\* Unlinking an element removes it and nothing else.
LEMMA WithoutList ==
  ASSUME NEW S, NEW s \in Seq(S), IsInjective(s), NEW c
  PROVE  /\ Without(s, c) \in Seq(S) /\ IsInjective(Without(s, c))
         /\ Range(Without(s, c)) = Range(s) \ {c}
<1>1. CASE c \notin Range(s)
  BY <1>1 DEF Without
<1>2. CASE c \in Range(s)
  <2> DEFINE i == CHOOSE j \in DOMAIN s : s[j] = c
             r == [j \in 1 .. Len(s) - 1 |-> IF j < i THEN s[j] ELSE s[j + 1]]
  <2>1. DOMAIN s = 1 .. Len(s) /\ Len(s) \in Nat /\ \A j \in 1 .. Len(s) : s[j] \in S
    BY ElementOfSeq, LenProperties
  <2>2. i \in 1 .. Len(s) /\ s[i] = c
    BY <1>2, <2>1 DEF Range
  <2>3. \A j \in 1 .. Len(s) : s[j] = c => j = i
    BY <2>1, <2>2 DEF IsInjective
  <2>4. Without(s, c) = r
    BY <1>2 DEF Without
  <2>5. Len(s) - 1 \in Nat
    BY <2>1, <2>2
  <2>6. r \in [1 .. Len(s) - 1 -> S]
    BY <2>1, <2>2
  <2>7. r \in Seq(S)
    BY <2>5, <2>6, SeqDef
  <2>8. IsInjective(r)
    BY <2>1, <2>2 DEF IsInjective
  <2>i. \A j \in 1 .. Len(s) - 1 : r[j] = IF j < i THEN s[j] ELSE s[j + 1]
    OBVIOUS
  <2> HIDE DEF i
  <2>9. ASSUME NEW x \in Range(r) PROVE x \in Range(s) \ {c}
    <3>1. PICK j \in 1 .. Len(s) - 1 : r[j] = x
      BY <2>5 DEF Range
    <3>2. CASE j < i
      <4>1. s[j] = x /\ j # i /\ j \in 1 .. Len(s)
        BY <2>1, <2>2, <2>i, <3>1, <3>2
      <4> QED BY <2>1, <2>3, <4>1 DEF Range
    <3>3. CASE ~(j < i)
      <4>1. j + 1 \in 1 .. Len(s) /\ s[j + 1] = x /\ j + 1 # i
        BY <2>1, <2>2, <2>i, <3>1, <3>3
      <4> QED BY <2>1, <2>3, <4>1 DEF Range
    <3> QED BY <3>2, <3>3
  <2>10. ASSUME NEW x \in Range(s) \ {c} PROVE x \in Range(r)
    <3>1. PICK j \in 1 .. Len(s) : s[j] = x
      BY <2>1 DEF Range
    <3>2. j # i
      BY <2>2, <3>1
    <3>3. CASE j < i
      <4>1. j \in 1 .. Len(s) - 1 /\ r[j] = x
        BY <2>1, <2>2, <3>1, <3>3
      <4> QED BY <4>1 DEF Range
    <3>4. CASE j > i
      <4>1. j - 1 \in 1 .. Len(s) - 1 /\ r[j - 1] = x
        BY <2>1, <2>2, <3>1, <3>4
      <4> QED BY <4>1 DEF Range
    <3> QED BY <2>1, <2>2, <3>2, <3>3, <3>4
  <2> QED BY <2>4, <2>7, <2>8, <2>9, <2>10
<1> QED BY <1>1, <1>2

\* Linking at the head adds an element.
LEMMA FrontList ==
  ASSUME NEW S, NEW s \in Seq(S), IsInjective(s), NEW c \in S
  PROVE  /\ <<c>> \o s \in Seq(S)
         /\ Range(<<c>> \o s) = Range(s) \cup {c}
         /\ c \notin Range(s) => IsInjective(<<c>> \o s)
<1> DEFINE r == <<c>> \o s
<1>1. DOMAIN s = 1 .. Len(s) /\ Len(s) \in Nat /\ \A j \in 1 .. Len(s) : s[j] \in S
  BY ElementOfSeq, LenProperties
<1>2. <<c>> \in Seq(S) /\ Len(<<c>>) = 1 /\ <<c>>[1] = c
  OBVIOUS
<1>3. r \in Seq(S) /\ Len(r) = Len(s) + 1
      /\ \A j \in 1 .. Len(s) + 1 : r[j] = IF j = 1 THEN c ELSE s[j - 1]
  BY <1>1, <1>2, ConcatProperties
<1>4. DOMAIN r = 1 .. Len(s) + 1
  BY <1>3, LenProperties
<1> HIDE DEF r
<1>5. Range(r) = Range(s) \cup {c}
  <2>1. ASSUME NEW x \in Range(r) PROVE x \in Range(s) \cup {c}
    BY <1>1, <1>3, <1>4 DEF Range
  <2>2. ASSUME NEW x \in Range(s) PROVE x \in Range(r)
    <3>1. PICK j \in 1 .. Len(s) : s[j] = x
      BY <1>1 DEF Range
    <3>2. j + 1 \in DOMAIN r /\ r[j + 1] = x
      BY <1>1, <1>3, <1>4, <3>1
    <3> QED BY <3>2 DEF Range
  <2>3. 1 \in DOMAIN r /\ r[1] = c
    BY <1>1, <1>3, <1>4
  <2>4. c \in Range(r)
    BY <2>3 DEF Range
  <2> QED BY <2>1, <2>2, <2>4
<1>6. c \notin Range(s) => IsInjective(r)
  <2> SUFFICES ASSUME c \notin Range(s), NEW a \in DOMAIN r, NEW b \in DOMAIN r, r[a] = r[b]
               PROVE  a = b
    BY DEF IsInjective
  <2>1. \A j \in 1 .. Len(s) : s[j] # c
    BY <1>1 DEF Range
  <2>2. \A j \in 1 .. Len(s) : \A k \in 1 .. Len(s) : s[j] = s[k] => j = k
    BY <1>1 DEF IsInjective
  <2>3. CASE a = 1
    BY <1>1, <1>3, <1>4, <2>1, <2>3
  <2>4. CASE b = 1
    BY <1>1, <1>3, <1>4, <2>1, <2>4
  <2>5. CASE a # 1 /\ b # 1
    BY <1>1, <1>3, <1>4, <2>2, <2>5
  <2> QED BY <2>3, <2>4, <2>5
<1> QED BY <1>3, <1>5, <1>6 DEF r

\* Linking at the tail adds an element.
LEMMA BackList ==
  ASSUME NEW S, NEW s \in Seq(S), IsInjective(s), NEW c \in S
  PROVE  /\ Append(s, c) \in Seq(S)
         /\ Range(Append(s, c)) = Range(s) \cup {c}
         /\ c \notin Range(s) => IsInjective(Append(s, c))
<1> DEFINE r == Append(s, c)
<1>1. DOMAIN s = 1 .. Len(s) /\ Len(s) \in Nat /\ \A j \in 1 .. Len(s) : s[j] \in S
  BY ElementOfSeq, LenProperties
<1>2. r \in Seq(S) /\ Len(r) = Len(s) + 1
      /\ \A j \in 1 .. Len(s) + 1 : r[j] = IF j = Len(s) + 1 THEN c ELSE s[j]
  BY <1>1
<1>3. DOMAIN r = 1 .. Len(s) + 1
  BY <1>2, LenProperties
<1> HIDE DEF r
<1>4. Range(r) = Range(s) \cup {c}
  <2>1. ASSUME NEW x \in Range(r) PROVE x \in Range(s) \cup {c}
    BY <1>1, <1>2, <1>3 DEF Range
  <2>2. ASSUME NEW x \in Range(s) PROVE x \in Range(r)
    <3>1. PICK j \in 1 .. Len(s) : s[j] = x
      BY <1>1 DEF Range
    <3>2. j \in DOMAIN r /\ r[j] = x
      BY <1>1, <1>2, <1>3, <3>1
    <3> QED BY <3>2 DEF Range
  <2>3. Len(s) + 1 \in DOMAIN r /\ r[Len(s) + 1] = c
    BY <1>1, <1>2, <1>3
  <2>4. c \in Range(r)
    BY <2>3 DEF Range
  <2> QED BY <2>1, <2>2, <2>4
<1>5. c \notin Range(s) => IsInjective(r)
  BY <1>1, <1>2, <1>3 DEF IsInjective, Range
<1> QED BY <1>2, <1>4, <1>5 DEF r

\* Taking the head of a free list.
LEMMA TailList ==
  ASSUME NEW S, NEW s \in Seq(S), IsInjective(s), s # <<>>
  PROVE  /\ Head(s) \in Range(s) /\ Head(s) \in S
         /\ Tail(s) \in Seq(S) /\ IsInjective(Tail(s))
         /\ Range(Tail(s)) = Range(s) \ {Head(s)}
<1> DEFINE r == Tail(s)
<1>1. DOMAIN s = 1 .. Len(s) /\ Len(s) \in Nat \ {0} /\ Head(s) = s[1]
  BY LenProperties, EmptySeq
<1>2. r \in Seq(S) /\ Len(r) = Len(s) - 1 /\ \A j \in 1 .. Len(s) - 1 : r[j] = s[j + 1]
  BY HeadTailProperties
<1>3. DOMAIN r = 1 .. Len(s) - 1
  BY <1>2, LenProperties
<1> HIDE DEF r
<1>4. Head(s) \in Range(s)
  BY <1>1 DEF Range
<1>5. IsInjective(r)
  BY <1>1, <1>2, <1>3, SMTT(30) DEF IsInjective
<1>6. ASSUME NEW x \in Range(r) PROVE x \in Range(s) \ {s[1]}
  BY <1>1, <1>2, <1>3 DEF Range, IsInjective
<1>7. ASSUME NEW x \in Range(s) \ {s[1]} PROVE x \in Range(r)
  <2>1. PICK j \in 1 .. Len(s) : s[j] = x
    BY <1>1 DEF Range
  <2>2. j # 1
    BY <2>1
  <2>3. j - 1 \in DOMAIN r /\ r[j - 1] = x
    BY <1>1, <1>2, <1>3, <2>1, <2>2
  <2> QED BY <2>3 DEF Range
<1> QED BY <1>1, <1>2, <1>4, <1>5, <1>6, <1>7, HeadTailProperties DEF r

----------------------------------------------------------------------------
(* The memory and its invariant.                                           *)

Flags == {"SLABBED", "LINKED", "FETCHED"}
Item == [key : Nat, val : Seq(Nat), cas : Nat, ref : Nat, fl : SUBSET Flags, cls : Nat,
         time : Int, exp : Nat]
Bucket == 0 .. 2^HashPower - 1

\* The store while its hash table does not grow.
Memory ==
  [heap : [Chunk -> Item], lru : [Class -> Seq(Int)], slots : [Class -> Seq(Chunk)],
   pages : [Class -> Seq(1 .. NPages)], malloced : 0 .. NPages, tab : [Bucket -> Seq(Chunk)],
   old : {<<>>}, power : {HashPower}, expanding : {FALSE}, bucket : {0}, items : Int,
   started : {FALSE}, casid : Nat]

IsLinked(m, c) == "LINKED" \in m.heap[c].fl
Linked(m) == {c \in Chunk : IsLinked(m, c)}
Home(m, id) == UNION {Used(p, id) : p \in Range(m.pages[id])}

\* R[c]: the references to c from elsewhere than the hash table.
Counted(m, R) == \A c \in Chunk : m.heap[c].ref = (IF IsLinked(m, c) THEN 1 ELSE 0) + R[c]

SlotsOK(m, x) ==
  \A id \in Class :
    /\ IsInjective(m.slots[id])
    /\ \A c \in Range(m.slots[id]) :
         c # x /\ m.heap[c].ref = 0 /\ m.heap[c].cls = 0 /\ "SLABBED" \in m.heap[c].fl
           /\ c \in Home(m, id)

LruOK(m) ==
  \A id \in Class :
    /\ IsInjective(m.lru[id]) /\ Range(m.lru[id]) \subseteq Chunk \cup {Crawler(id)}
    /\ \A c \in Chunk : c \in Range(m.lru[id]) <=> IsLinked(m, c) /\ m.heap[c].cls = id

TabOK(m) ==
  /\ \A b \in Bucket :
       /\ IsInjective(m.tab[b])
       /\ \A c \in Chunk : c \in Range(m.tab[b])
                             <=> IsLinked(m, c) /\ m.heap[c].key % 2^HashPower = b
  /\ \A c, d \in Chunk : IsLinked(m, c) /\ IsLinked(m, d) /\ m.heap[c].key = m.heap[d].key => c = d

\* A chunk in use belongs to the class it is in use for; the others do not
\* pretend to be in use.
HomeOK(m) ==
  \A c \in Chunk :
    /\ m.heap[c].ref > 0 => m.heap[c].cls \in Class /\ c \in Home(m, m.heap[c].cls)
    /\ m.heap[c].cls = 255 \/ "SLABBED" \in m.heap[c].fl => m.heap[c].ref = 0
    /\ m.heap[c].cls # 0 => \E id \in Class : c \in Home(m, id)

NoneLost(m, x) ==
  \A id \in Class : \A c \in Home(m, id) :
    m.heap[c].ref = 0 /\ c # x => c \in Range(m.slots[id]) \/ m.heap[c].cls = 255

PagesOK(m) ==
  /\ \A id \in Class : IsInjective(m.pages[id]) /\ Range(m.pages[id]) \subseteq 1 .. m.malloced
  /\ \A a, b \in Class : a # b => Range(m.pages[a]) \cap Range(m.pages[b]) = {}

ItemsOK(m) == m.items = Cardinality(Linked(m))

\* x: a chunk just taken out of its place, or NULL.
StoreOK(m, R, x) ==
  /\ m \in Memory /\ Counted(m, R) /\ SlotsOK(m, x) /\ LruOK(m) /\ TabOK(m)
  /\ HomeOK(m) /\ NoneLost(m, x) /\ PagesOK(m) /\ ItemsOK(m)

\* What a step leaves alone: the item in chunk d ...
Same(m, n, d) ==
  /\ n.heap[d].key = m.heap[d].key /\ n.heap[d].val = m.heap[d].val
  /\ IsLinked(n, d) <=> IsLinked(m, d)

\* ... and what the rebalancer and the crawler rely on.
Calm(m, n) ==
  /\ \A d \in Chunk : m.heap[d].cls = 255 => n.heap[d].cls = 255
  /\ \A id \in Class : Crawler(id) \in Range(n.lru[id]) <=> Crawler(id) \in Range(m.lru[id])
  /\ \A id \in Class : \A j \in DOMAIN m.pages[id] :
       j \in DOMAIN n.pages[id] /\ n.pages[id][j] = m.pages[id][j]

Refs == [Chunk -> Nat]
Plus(R, c) == [R EXCEPT ![c] = @ + 1]
Less(R, c) == [R EXCEPT ![c] = @ - 1]

\* Everything but the headers of chunks and the cas counter is the same.
Rest(m, n) ==
  /\ n.lru = m.lru /\ n.slots = m.slots /\ n.pages = m.pages /\ n.malloced = m.malloced
  /\ n.tab = m.tab /\ n.items = m.items

\* A new header that changes neither place nor key of the item.
SameRole(x, y) ==
  /\ y.key = x.key /\ y.cls = x.cls
  /\ \A f \in {"LINKED", "SLABBED"} : f \in y.fl <=> f \in x.fl
  /\ y.ref > 0 <=> x.ref > 0

----------------------------------------------------------------------------
(* Headers.                                                                *)

\* Chunks of a page, and of different pages.
LEMMA PageChunks ==
  ASSUME NEW p \in 1 .. NPages, NEW id \in Class
  PROVE  /\ Used(p, id) \subseteq Chunk
         /\ \A q \in 1 .. NPages, b \in Class : p # q => Used(p, id) \cap Used(q, b) = {}
<1>1. Perslab \in Seq(1 .. MaxPer) /\ NPages \in Nat
  BY StoreAssumption
<1>2. \A b \in Class : Perslab[b] \in 1 .. 2
  BY <1>1, ElementOfSeq DEF Class, MaxPer
<1>3. \A q \in 1 .. NPages, b \in Class : \A c \in Used(q, b) :
        \E j \in 1 .. 2 : c = (q - 1) * 2 + j
  <2> SUFFICES ASSUME NEW q \in 1 .. NPages, NEW b \in Class, NEW c \in Used(q, b)
               PROVE  \E j \in 1 .. 2 : c = (q - 1) * 2 + j
    OBVIOUS
  <2>1. PICK j \in 1 .. Perslab[b] : c = Page(q)[j]
    BY DEF Used
  <2>2. j \in 1 .. 2
    BY <1>2, <2>1
  <2>3. Page(q)[j] = (q - 1) * 2 + j
    BY <2>2 DEF Page, MaxPer
  <2> QED BY <2>1, <2>2, <2>3
<1>4. Used(p, id) \subseteq Chunk
  BY <1>1, <1>3 DEF Chunk, MaxPer
<1>5. ASSUME NEW q \in 1 .. NPages, NEW b \in Class, p # q, NEW c \in Used(p, id), c \in Used(q, b)
      PROVE  FALSE
  <2>1. PICK i \in 1 .. 2 : c = (p - 1) * 2 + i
    BY <1>3
  <2>2. PICK j \in 1 .. 2 : c = (q - 1) * 2 + j
    BY <1>3, <1>5
  <2> QED BY <1>1, <1>5, <2>1, <2>2
<1> QED BY <1>4, <1>5

\* A class's chunks belong to no other class.
LEMMA HomeChunks ==
  ASSUME NEW m \in Memory, NEW id \in Class
  PROVE  /\ Home(m, id) \subseteq Chunk
         /\ PagesOK(m) => \A b \in Class : b # id => Home(m, id) \cap Home(m, b) = {}
<1>1. \A b \in Class : Range(m.pages[b]) \subseteq 1 .. NPages
  <2>1. \A b \in Class : m.pages[b] \in Seq(1 .. NPages)
    BY DEF Memory
  <2> QED BY <2>1, ElementsOf
<1>2. Home(m, id) \subseteq Chunk
  BY <1>1, PageChunks DEF Home
<1>3. ASSUME PagesOK(m), NEW b \in Class, b # id, NEW c \in Home(m, id), c \in Home(m, b)
      PROVE  FALSE
  <2>1. PICK p \in Range(m.pages[id]) : c \in Used(p, id)
    BY DEF Home
  <2>2. PICK q \in Range(m.pages[b]) : c \in Used(q, b)
    BY <1>3 DEF Home
  <2>3. p # q
    BY <1>3 DEF PagesOK
  <2> QED BY <1>1, <2>1, <2>2, <2>3, PageChunks
<1> QED BY <1>2, <1>3

\* A change of headers alone that takes no chunk off its page is calm.
LEMMA CalmRest ==
  ASSUME NEW m \in Memory, NEW n \in Memory, Rest(m, n),
         \A d \in Chunk : m.heap[d].cls = 255 => n.heap[d].cls = 255
  PROVE  Calm(m, n)
BY DEF Calm, Rest

\* Nothing but a header changes, and not what the item is.
LEMMA HeaderStep ==
  ASSUME NEW m, NEW n \in Memory, NEW R \in Refs, NEW Q \in Refs, NEW x, NEW c \in Chunk,
         StoreOK(m, R, x), Rest(m, n), SameRole(m.heap[c], n.heap[c]),
         \A d \in Chunk : d # c => n.heap[d] = m.heap[d] /\ Q[d] = R[d],
         n.heap[c].ref = (IF IsLinked(m, c) THEN 1 ELSE 0) + Q[c]
  PROVE  /\ StoreOK(n, Q, x) /\ Calm(m, n)
         /\ \A d \in Chunk : d # c => Same(m, n, d)
<1>1. m \in Memory
  BY DEF StoreOK
<1>2. \A d \in Chunk : SameRole(m.heap[d], n.heap[d])
  BY DEF SameRole
<1>3. \A d \in Chunk : IsLinked(n, d) <=> IsLinked(m, d)
  BY <1>2 DEF SameRole, IsLinked
<1>4. \A d \in Chunk : m.heap[d].ref \in Nat /\ n.heap[d].ref \in Nat
  BY <1>1 DEF Memory, Item
<1>5. \A id \in Class : Home(n, id) = Home(m, id)
  BY DEF Rest, Home
<1>6. Counted(n, Q)
  BY <1>3 DEF StoreOK, Counted
<1>7. \A d \in Chunk : m.heap[d].ref = 0 <=> n.heap[d].ref = 0
  BY <1>2, <1>4 DEF SameRole
<1>8. \A id \in Class : Range(m.slots[id]) \subseteq Chunk
  BY <1>1 DEF Memory, Range
<1>9. SlotsOK(n, x)
  BY <1>2, <1>5, <1>7, <1>8 DEF StoreOK, SlotsOK, Rest, SameRole
<1>10. LruOK(n)
  BY <1>2, <1>3 DEF StoreOK, LruOK, Rest, SameRole
<1>11. TabOK(n)
  BY <1>2, <1>3 DEF StoreOK, TabOK, Rest, SameRole
<1>12. HomeOK(n)
  BY <1>2, <1>5, <1>7 DEF StoreOK, HomeOK, SameRole
<1>13. NoneLost(n, x)
  BY <1>1, <1>2, <1>5, <1>7, HomeChunks DEF StoreOK, NoneLost, Rest, SameRole
<1>14. PagesOK(n) /\ ItemsOK(n)
  BY <1>3 DEF StoreOK, PagesOK, ItemsOK, Linked, Rest
<1>15. Calm(m, n)
  BY <1>1, <1>2, CalmRest DEF SameRole
<1>16. \A d \in Chunk : d # c => Same(m, n, d)
  BY <1>3 DEF Same
<1> QED BY <1>6, <1>9, <1>10, <1>11, <1>12, <1>13, <1>14, <1>15, <1>16 DEF StoreOK

----------------------------------------------------------------------------
(* References.                                                             *)

\* The numbers the model fixes.
LEMMA Bounds == MaxRef = 65536 /\ NULL = 0 /\ NULL \notin Chunk /\ NPages \in Nat
BY StoreAssumption DEF MaxRef, NULL, Chunk, MaxPer

\* refcount_incr counts one more reference to an item in use.
LEMMA IncrStep ==
  ASSUME NEW m, NEW R \in Refs, NEW x, NEW c \in Chunk, StoreOK(m, R, x),
         m.heap[c].ref > 0, R[c] + 2 < MaxRef
  PROVE  LET n == refcount_incr(m, c)
         IN  /\ StoreOK(n, Plus(R, c), x) /\ Calm(m, n) /\ Rest(m, n) /\ n.casid = m.casid
             /\ n.heap[c] = [m.heap[c] EXCEPT !.ref = @ + 1]
             /\ \A d \in Chunk : d # c => n.heap[d] = m.heap[d]
             /\ \A d \in Chunk : Same(m, n, d)
<1> DEFINE n == refcount_incr(m, c)
<1>1. m \in Memory /\ R[c] \in Nat /\ m.heap[c] \in Item /\ m.heap[c].ref \in Nat
  BY DEF StoreOK, Memory, Refs, Item
<1>2. m.heap[c].ref = (IF IsLinked(m, c) THEN 1 ELSE 0) + R[c]
  BY DEF StoreOK, Counted
<1>3. (m.heap[c].ref + 1) % MaxRef = m.heap[c].ref + 1
  BY <1>1, <1>2, Bounds
<1> DEFINE v == (m.heap[c].ref + 1) % MaxRef
<1>v. v \in Nat
  BY <1>1, <1>3
<1>r. n = [m EXCEPT !.heap[c].ref = v]
  BY DEF refcount_incr
<1>4. n \in Memory /\ Rest(m, n) /\ n.casid = m.casid
  <2> HIDE DEF v, n
  <2> QED BY <1>1, <1>v, <1>r DEF Memory, Item, Rest
<1>5. n.heap[c] = [m.heap[c] EXCEPT !.ref = @ + 1]
  BY <1>1, <1>3 DEF refcount_incr, Memory
<1>6. \A d \in Chunk : d # c => n.heap[d] = m.heap[d]
  BY <1>1 DEF refcount_incr, Memory
<1> HIDE DEF n
<1>7. SameRole(m.heap[c], n.heap[c]) /\ n.heap[c].ref = m.heap[c].ref + 1
      /\ n.heap[c].val = m.heap[c].val
  BY <1>1, <1>5 DEF SameRole, Item
<1>8. Plus(R, c) \in Refs /\ Plus(R, c)[c] = R[c] + 1
      /\ \A d \in Chunk : d # c => Plus(R, c)[d] = R[d]
  BY <1>1 DEF Plus, Refs
<1>9. StoreOK(n, Plus(R, c), x) /\ Calm(m, n) /\ \A d \in Chunk : d # c => Same(m, n, d)
  BY <1>1, <1>2, <1>4, <1>6, <1>7, <1>8, HeaderStep
<1>10. Same(m, n, c)
  BY <1>7 DEF Same, SameRole, IsLinked
<1> QED BY <1>4, <1>5, <1>6, <1>9, <1>10 DEF n

\* refcount_decr counts one less when it is not the last one.
LEMMA DecrStep ==
  ASSUME NEW m, NEW R \in Refs, NEW x, NEW c \in Chunk, StoreOK(m, R, x),
         m.heap[c].ref > 1, R[c] > 0, R[c] + 1 < MaxRef
  PROVE  LET n == refcount_decr(m, c)
         IN  /\ StoreOK(n, Less(R, c), x) /\ Calm(m, n) /\ Rest(m, n) /\ n.casid = m.casid
             /\ n.heap[c] = [m.heap[c] EXCEPT !.ref = @ - 1]
             /\ \A d \in Chunk : d # c => n.heap[d] = m.heap[d]
             /\ \A d \in Chunk : Same(m, n, d)
<1> DEFINE n == refcount_decr(m, c)
<1>1. m \in Memory /\ R[c] \in Nat /\ m.heap[c] \in Item /\ m.heap[c].ref \in Nat
  BY DEF StoreOK, Memory, Refs, Item
<1>2. m.heap[c].ref = (IF IsLinked(m, c) THEN 1 ELSE 0) + R[c]
  BY DEF StoreOK, Counted
<1>3. (m.heap[c].ref + MaxRef - 1) % MaxRef = m.heap[c].ref - 1
  BY <1>1, <1>2, Bounds
<1> DEFINE v == (m.heap[c].ref + MaxRef - 1) % MaxRef
<1>v. v \in Nat
  BY <1>1, <1>3
<1>r. n = [m EXCEPT !.heap[c].ref = v]
  BY DEF refcount_decr
<1>4. n \in Memory /\ Rest(m, n) /\ n.casid = m.casid
  <2> HIDE DEF v, n
  <2> QED BY <1>1, <1>v, <1>r DEF Memory, Item, Rest
<1>5. n.heap[c] = [m.heap[c] EXCEPT !.ref = @ - 1]
  BY <1>1, <1>3 DEF refcount_decr, Memory
<1>6. \A d \in Chunk : d # c => n.heap[d] = m.heap[d]
  BY <1>1 DEF refcount_decr, Memory
<1> HIDE DEF n
<1>7. SameRole(m.heap[c], n.heap[c]) /\ n.heap[c].ref = m.heap[c].ref - 1
      /\ n.heap[c].val = m.heap[c].val
  BY <1>1, <1>5 DEF SameRole, Item
<1>8. Less(R, c) \in Refs /\ Less(R, c)[c] = R[c] - 1
      /\ \A d \in Chunk : d # c => Less(R, c)[d] = R[d]
  BY <1>1 DEF Less, Refs
<1>9. StoreOK(n, Less(R, c), x) /\ Calm(m, n) /\ \A d \in Chunk : d # c => Same(m, n, d)
  BY <1>1, <1>2, <1>4, <1>6, <1>7, <1>8, HeaderStep
<1>10. Same(m, n, c)
  BY <1>7 DEF Same, SameRole, IsLinked
<1> QED BY <1>4, <1>5, <1>6, <1>9, <1>10 DEF n

\* The last reference to an item that is not linked goes: the chunk is loose.
LEMMA LastDrop ==
  ASSUME NEW m, NEW n \in Memory, NEW R \in Refs, NEW c \in Chunk,
         StoreOK(m, R, NULL), R[c] = 1, ~IsLinked(m, c), Rest(m, n),
         \A d \in Chunk : d # c => n.heap[d] = m.heap[d],
         n.heap[c].ref = 0, n.heap[c].fl = m.heap[c].fl, n.heap[c].key = m.heap[c].key,
         n.heap[c].val = m.heap[c].val
  PROVE  /\ StoreOK(n, Less(R, c), c) /\ Calm(m, n)
         /\ m.heap[c].cls \in Class /\ c \in Home(n, m.heap[c].cls)
         /\ \A d \in Chunk : Same(m, n, d)
<1>1. m \in Memory
  BY DEF StoreOK
<1>2. m.heap[c].ref = 1
  BY DEF StoreOK, Counted
<1>3. \A id \in Class : Home(n, id) = Home(m, id)
  BY DEF Rest, Home
<1>4. \A d \in Chunk : IsLinked(n, d) <=> IsLinked(m, d)
  BY DEF IsLinked
<1>5. \A d \in Chunk : Same(m, n, d)
  BY <1>4 DEF Same
<1>6. Less(R, c) \in Refs /\ Less(R, c)[c] = 0
      /\ \A d \in Chunk : d # c => Less(R, c)[d] = R[d]
  BY DEF Less, Refs
<1>7. Counted(n, Less(R, c))
  BY <1>4, <1>6 DEF StoreOK, Counted
<1>8. m.heap[c].cls \in Class /\ c \in Home(n, m.heap[c].cls) /\ m.heap[c].cls # 255
      /\ "SLABBED" \notin m.heap[c].fl
  BY <1>2, <1>3 DEF StoreOK, HomeOK
<1>9. \A id \in Class : \A d \in Range(m.slots[id]) : d \in Chunk /\ d # c
  <2>1. \A id \in Class : m.slots[id] \in Seq(Chunk)
    BY <1>1 DEF Memory
  <2> QED BY <1>2, <2>1, ElementsOf DEF StoreOK, SlotsOK
<1>10. SlotsOK(n, c)
  BY <1>3, <1>9 DEF StoreOK, SlotsOK, Rest
<1>11. LruOK(n)
  BY <1>4 DEF StoreOK, LruOK, Rest
<1>12. TabOK(n)
  BY <1>4 DEF StoreOK, TabOK, Rest
<1>13. HomeOK(n)
  BY <1>3, <1>8 DEF StoreOK, HomeOK
<1>14. NoneLost(n, c)
  BY <1>1, <1>3, HomeChunks, Bounds DEF StoreOK, NoneLost, Rest
<1>15. PagesOK(n) /\ ItemsOK(n)
  BY <1>4 DEF StoreOK, PagesOK, ItemsOK, Linked, Rest
<1>16. Calm(m, n)
  BY <1>1, <1>8, CalmRest
<1> QED BY <1>5, <1>7, <1>8, <1>10, <1>11, <1>12, <1>13, <1>14, <1>15, <1>16 DEF StoreOK

\* do_slabs_free puts a loose chunk into its class's free list.
LEMMA FreeStep ==
  ASSUME NEW m, NEW R \in Refs, NEW c \in Chunk, NEW id \in Class, StoreOK(m, R, c),
         c \in Home(m, id), m.heap[c].ref = 0, m.heap[c].cls = 0
  PROVE  LET n == do_slabs_free(m, c, id)
         IN  /\ StoreOK(n, R, NULL) /\ Calm(m, n) /\ n.casid = m.casid
             /\ \A d \in Chunk : Same(m, n, d)
<1> DEFINE n == do_slabs_free(m, c, id)
<1>1. m \in Memory /\ m.heap[c] \in Item /\ m.slots[id] \in Seq(Chunk)
  BY DEF StoreOK, Memory
<1>2. <<c>> \o m.slots[id] \in Seq(Chunk) /\ IsInjective(<<c>> \o m.slots[id])
      /\ Range(<<c>> \o m.slots[id]) = Range(m.slots[id]) \cup {c}
  BY <1>1, FrontList DEF StoreOK, SlotsOK
<1>3. /\ n \in Memory /\ n.casid = m.casid /\ n.lru = m.lru /\ n.pages = m.pages
      /\ n.malloced = m.malloced /\ n.tab = m.tab /\ n.items = m.items
  BY <1>1, <1>2 DEF do_slabs_free, Memory, Item, Flags
<1>e. n.heap[c] = [m.heap[c] EXCEPT !.fl = @ \cup {"SLABBED"}]
  BY <1>1 DEF do_slabs_free, Memory
<1> DEFINE list == n.slots[id]
<1>4. /\ \A d \in Chunk : d # c => n.heap[d] = m.heap[d]
      /\ IsInjective(list) /\ Range(list) = Range(m.slots[id]) \cup {c}
      /\ \A b \in Class : b # id => n.slots[b] = m.slots[b]
  BY <1>1, <1>2 DEF do_slabs_free, Memory
<1> HIDE DEF n
<1>5. /\ "LINKED" \in n.heap[c].fl <=> "LINKED" \in m.heap[c].fl
      /\ "SLABBED" \in n.heap[c].fl /\ n.heap[c].ref = 0 /\ n.heap[c].cls = 0
      /\ n.heap[c].key = m.heap[c].key /\ n.heap[c].val = m.heap[c].val
  BY <1>1, <1>e DEF Item
<1>6. \A d \in Chunk : IsLinked(n, d) <=> IsLinked(m, d)
  BY <1>4, <1>5 DEF IsLinked
<1>7. \A d \in Chunk : Same(m, n, d)
  BY <1>4, <1>5, <1>6 DEF Same
<1>8. \A b \in Class : Home(n, b) = Home(m, b)
  BY <1>3 DEF Home
<1>9. Counted(n, R)
  BY <1>4, <1>5, <1>6 DEF StoreOK, Counted
<1>10. SlotsOK(n, NULL)
  <2>1. \A b \in Class : \A d \in Range(m.slots[b]) : d \in Chunk /\ d # c
    <3>1. \A b \in Class : m.slots[b] \in Seq(Chunk)
      BY <1>1 DEF Memory
    <3> QED BY <3>1, ElementsOf DEF StoreOK, SlotsOK
  <2> QED BY <1>4, <1>5, <1>8, <2>1, Bounds DEF StoreOK, SlotsOK
<1>11. LruOK(n)
  BY <1>3, <1>4, <1>5, <1>6 DEF StoreOK, LruOK
<1>12. TabOK(n)
  BY <1>3, <1>4, <1>5, <1>6 DEF StoreOK, TabOK
<1>13. HomeOK(n)
  BY <1>4, <1>5, <1>8 DEF StoreOK, HomeOK
<1>14. NoneLost(n, NULL)
  <2> SUFFICES ASSUME NEW b \in Class, NEW d \in Home(n, b), n.heap[d].ref = 0, d # NULL
               PROVE  d \in Range(n.slots[b]) \/ n.heap[d].cls = 255
    BY DEF NoneLost
  <2>1. d \in Chunk /\ d \in Home(m, b)
    BY <1>1, <1>8, HomeChunks
  <2>2. CASE d = c
    <3>1. b = id
      BY <1>1, <2>1, <2>2, HomeChunks DEF StoreOK
    <3> QED BY <1>4, <2>2, <3>1
  <2>3. CASE d # c
    BY <1>4, <2>1, <2>3 DEF StoreOK, NoneLost
  <2> QED BY <2>2, <2>3
<1>15. PagesOK(n) /\ ItemsOK(n)
  BY <1>3, <1>6 DEF StoreOK, PagesOK, ItemsOK, Linked
<1>16. Calm(m, n)
  BY <1>1, <1>3, <1>4, <1>5 DEF Calm
<1> QED BY <1>3, <1>7, <1>9, <1>10, <1>11, <1>12, <1>13, <1>14, <1>15, <1>16 DEF StoreOK, n

\* do_item_remove gives one reference back; the last one frees the chunk.
LEMMA RemoveStep ==
  ASSUME NEW m, NEW R \in Refs, NEW c \in Chunk, StoreOK(m, R, NULL), R[c] > 0, R[c] + 1 < MaxRef
  PROVE  LET n == do_item_remove(m, c)
         IN  /\ StoreOK(n, Less(R, c), NULL) /\ Calm(m, n) /\ n.casid = m.casid
             /\ \A d \in Chunk : Same(m, n, d)
<1> DEFINE n == refcount_decr(m, c)
           r == do_item_remove(m, c)
<1>1. m \in Memory /\ R[c] \in Nat /\ m.heap[c] \in Item /\ m.heap[c].ref \in Nat
  BY DEF StoreOK, Memory, Refs, Item
<1>2. m.heap[c].ref = (IF IsLinked(m, c) THEN 1 ELSE 0) + R[c]
  BY DEF StoreOK, Counted
<1>3. CASE m.heap[c].ref > 1
  <2>d. /\ StoreOK(n, Less(R, c), NULL) /\ Calm(m, n) /\ n.casid = m.casid
        /\ n.heap[c] = [m.heap[c] EXCEPT !.ref = @ - 1]
        /\ \A d \in Chunk : Same(m, n, d)
    BY <1>3, DecrStep
  <2>r. r = IF n.heap[c].ref = 0 THEN item_free(n, c) ELSE n
    BY DEF do_item_remove
  <2> HIDE DEF n, r
  <2>1. n.heap[c].ref = m.heap[c].ref - 1
    BY <1>1, <2>d DEF Item
  <2>2. r = n
    BY <1>1, <1>3, <2>1, <2>r
  <2> QED BY <2>2, <2>d DEF r
<1>4. CASE ~(m.heap[c].ref > 1)
  <2>1. R[c] = 1 /\ ~IsLinked(m, c) /\ m.heap[c].ref = 1
    BY <1>1, <1>2, <1>4
  <2>2. (m.heap[c].ref + MaxRef - 1) % MaxRef = 0
    BY <2>1, Bounds
  <2>3. n = [m EXCEPT !.heap[c].ref = 0]
    BY <2>2 DEF refcount_decr
  <2> DEFINE id == m.heap[c].cls
             k == [n EXCEPT !.heap[c].cls = 0]
  <2> HIDE DEF n
  <2>4. n.heap[c].ref = 0 /\ n.heap[c].cls = id
    BY <1>1, <2>3 DEF Memory, Item
  <2>5. r = do_slabs_free(k, c, id)
    BY <2>4 DEF do_item_remove, item_free, n
  <2>6. k \in Memory /\ Rest(m, k) /\ k.casid = m.casid
    BY <1>1, <2>3 DEF Memory, Item, Rest
  <2>7. /\ \A d \in Chunk : d # c => k.heap[d] = m.heap[d]
        /\ k.heap[c] = [m.heap[c] EXCEPT !.ref = 0, !.cls = 0]
    BY <1>1, <2>3 DEF Memory, Item
  <2> HIDE DEF k
  <2>8. k.heap[c].ref = 0 /\ k.heap[c].cls = 0 /\ k.heap[c].fl = m.heap[c].fl
        /\ k.heap[c].key = m.heap[c].key /\ k.heap[c].val = m.heap[c].val
    BY <1>1, <2>7 DEF Item
  <2>9. /\ StoreOK(k, Less(R, c), c) /\ Calm(m, k)
        /\ id \in Class /\ c \in Home(k, id)
        /\ \A d \in Chunk : Same(m, k, d)
    BY <2>1, <2>6, <2>7, <2>8, LastDrop
  <2>10. Less(R, c) \in Refs
    BY <2>1 DEF Less, Refs
  <2>11. /\ StoreOK(r, Less(R, c), NULL) /\ Calm(k, r) /\ r.casid = k.casid
         /\ \A d \in Chunk : Same(k, r, d)
    BY <2>5, <2>8, <2>9, <2>10, FreeStep, SMTT(30)
  <2>12. Calm(m, r)
    BY <2>9, <2>11 DEF Calm
  <2>13. \A d \in Chunk : Same(m, r, d)
    BY <2>9, <2>11 DEF Same
  <2> QED BY <2>6, <2>11, <2>12, <2>13
<1> QED BY <1>3, <1>4

----------------------------------------------------------------------------
(* The hash table.                                                         *)

\* What assoc_find returns is the linked item with the key, if there is one.
LEMMA Finds ==
  ASSUME NEW m, NEW R, NEW x, StoreOK(m, R, x), NEW k \in Nat
  PROVE  /\ assoc_find(m, k) = NULL <=> \A c \in Chunk : ~(IsLinked(m, c) /\ m.heap[c].key = k)
         /\ assoc_find(m, k) # NULL =>
              /\ assoc_find(m, k) \in Chunk /\ IsLinked(m, assoc_find(m, k))
              /\ m.heap[assoc_find(m, k)].key = k
         /\ \A c \in Chunk : IsLinked(m, c) /\ m.heap[c].key = k => assoc_find(m, k) = c
<1> DEFINE b == k % 2^HashPower
           s == Chain(m, k)
           hits == {i \in DOMAIN s : m.heap[s[i]].key = k}
<1>1. m \in Memory /\ ~m.expanding /\ m.power = HashPower
  BY DEF StoreOK, Memory
<1>2. b \in Bucket
  BY StoreAssumption DEF Bucket
<1>3. s = m.tab[b] /\ s \in Seq(Chunk)
  BY <1>1, <1>2 DEF Chain, InOld, Memory
<1> HIDE DEF s
<1>4. \A i \in DOMAIN s : s[i] \in Chunk
  BY <1>3, ElementOfSeq, LenProperties
<1>5. \A c \in Chunk : c \in Range(s) <=> IsLinked(m, c) /\ m.heap[c].key % 2^HashPower = b
  BY <1>2, <1>3 DEF StoreOK, TabOK
<1>6. \A c \in Chunk : IsLinked(m, c) /\ m.heap[c].key = k => \E i \in hits : s[i] = c
  BY <1>5 DEF Range
<1>7. \A i \in hits : s[i] \in Chunk /\ IsLinked(m, s[i]) /\ m.heap[s[i]].key = k
  BY <1>4, <1>5 DEF Range
<1>8. \A i, j \in hits : i = j
  <2>1. \A i, j \in hits : s[i] = s[j]
    BY <1>7 DEF StoreOK, TabOK
  <2>2. IsInjective(s)
    BY <1>2, <1>3 DEF StoreOK, TabOK
  <2> QED BY <2>1, <2>2 DEF IsInjective
<1>9. assoc_find(m, k) = IF hits = {} THEN NULL ELSE s[CHOOSE i \in hits : \A j \in hits : i <= j]
  BY DEF assoc_find, s
<1>10. DOMAIN s \subseteq Nat
  BY <1>3, LenProperties
<1> HIDE DEF hits
<1>11. CASE hits = {}
  BY <1>6, <1>9, <1>11, Bounds
<1>12. CASE hits # {}
  <2> DEFINE h == CHOOSE i \in hits : \A j \in hits : i <= j
  <2>1. hits \subseteq Nat
    BY <1>10 DEF hits
  <2>2. \E i \in hits : \A j \in hits : i <= j
    <3>1. PICK i \in hits : TRUE
      BY <1>12
    <3>2. i \in Nat /\ \A j \in hits : j = i
      BY <1>8, <2>1
    <3> QED BY <3>1, <3>2
  <2>3. h \in hits
    BY <2>2
  <2> HIDE DEF h
  <2>4. assoc_find(m, k) = s[h]
    BY <1>9, <1>12 DEF h
  <2>5. s[h] \in Chunk /\ IsLinked(m, s[h]) /\ m.heap[s[h]].key = k
    BY <1>7, <2>3
  <2>6. \A c \in Chunk : IsLinked(m, c) /\ m.heap[c].key = k => c = s[h]
    BY <1>6, <1>8, <2>3
  <2> QED BY <2>4, <2>5, <2>6, Bounds
<1> QED BY <1>11, <1>12

\* assoc_find reads only the bucket chains and the keys.
LEMMA FindSame ==
  ASSUME NEW m \in Memory, NEW n \in Memory, n.tab = m.tab, NEW k \in Nat,
         \A d \in Chunk : n.heap[d].key = m.heap[d].key
  PROVE  assoc_find(n, k) = assoc_find(m, k) /\ Chain(n, k) = m.tab[k % 2^HashPower]
<1>1. k % 2^HashPower \in Bucket
  BY StoreAssumption DEF Bucket
<1>2. Chain(n, k) = m.tab[k % 2^HashPower] /\ Chain(m, k) = m.tab[k % 2^HashPower]
  BY <1>1 DEF Chain, InOld, Memory
<1>3. m.tab[k % 2^HashPower] \in Seq(Chunk)
  BY <1>1 DEF Memory
<1>4. \A i \in DOMAIN m.tab[k % 2^HashPower] : m.tab[k % 2^HashPower][i] \in Chunk
  BY <1>3, ElementOfSeq, LenProperties
<1>5. {i \in DOMAIN Chain(n, k) : n.heap[Chain(n, k)[i]].key = k}
        = {i \in DOMAIN Chain(m, k) : m.heap[Chain(m, k)[i]].key = k}
  BY <1>2, <1>4
<1>6. \A o : assoc_find(o, k) =
              LET s == Chain(o, k)
                  hits == {i \in DOMAIN s : o.heap[s[i]].key = k}
              IN  IF hits = {} THEN NULL ELSE s[CHOOSE i \in hits : \A j \in hits : i <= j]
  BY DEF assoc_find
<1>7. Chain(n, k) = Chain(m, k)
  BY <1>2
<1> QED BY <1>2, <1>5, <1>6, <1>7

\* The linked items are finitely many, and hash_items can count them.
LEMMA LinkedFinite ==
  ASSUME NEW m
  PROVE  /\ IsFiniteSet(Linked(m)) /\ Cardinality(Linked(m)) \in Nat
         /\ \A c : Cardinality(Linked(m) \cup {c}) =
                     IF c \in Linked(m) THEN Cardinality(Linked(m)) ELSE Cardinality(Linked(m)) + 1
         /\ \A c : Cardinality(Linked(m) \ {c}) =
                     IF c \in Linked(m) THEN Cardinality(Linked(m)) - 1 ELSE Cardinality(Linked(m))
<1>1. 1 \in Int /\ NPages * MaxPer \in Int
  BY Bounds DEF MaxPer
<1>2. IsFiniteSet(Chunk)
  BY <1>1, FS_Interval DEF Chunk
<1>3. IsFiniteSet(Linked(m))
  BY <1>2, FS_Subset DEF Linked
<1> QED BY <1>3, FS_CardinalityType, FS_AddElement, FS_RemoveElement

\* The header of c is kept but for flags, time and cas; the rest of the memory
\* but for the hash table and the LRU lists.
KeepsRole(m, u, c) ==
  /\ \A d \in Chunk : d # c => u.heap[d] = m.heap[d]
  /\ u.heap[c].key = m.heap[c].key /\ u.heap[c].val = m.heap[c].val
  /\ u.heap[c].cls = m.heap[c].cls /\ u.heap[c].ref = m.heap[c].ref
  /\ "SLABBED" \in u.heap[c].fl <=> "SLABBED" \in m.heap[c].fl
  /\ u.slots = m.slots /\ u.pages = m.pages /\ u.malloced = m.malloced

\* The list r is s, with c in it or not.
Relisted(r, s, c, in) ==
  IsInjective(r) /\ Range(r) = IF in THEN Range(s) \cup {c} ELSE Range(s) \ {c}

\* c is in its lists as its flag says.
ListsFollow(m, u, c) ==
  LET id == m.heap[c].cls
      b == m.heap[c].key % 2^HashPower
  IN  /\ Relisted(u.lru[id], m.lru[id], c, IsLinked(u, c))
      /\ Relisted(u.tab[b], m.tab[b], c, IsLinked(u, c))
      /\ \A a \in Class : a # id => u.lru[a] = m.lru[a]
      /\ \A a \in Bucket : a # b => u.tab[a] = m.tab[a]
      /\ u.items = m.items + (IF IsLinked(u, c) THEN 1 ELSE 0) - (IF IsLinked(m, c) THEN 1 ELSE 0)

KeyFree(m, k, c) == \A d \in Chunk : IsLinked(m, d) /\ m.heap[d].key = k => d = c

\* An item enters or leaves the hash table and its LRU list, or moves in them.
LEMMA Relink ==
  ASSUME NEW m, NEW u \in Memory, NEW R \in Refs, NEW Q \in Refs, NEW c \in Chunk,
         StoreOK(m, R, NULL), m.heap[c].ref > 0, KeepsRole(m, u, c), ListsFollow(m, u, c),
         \A d \in Chunk : d # c => Q[d] = R[d],
         u.heap[c].ref = (IF IsLinked(u, c) THEN 1 ELSE 0) + Q[c],
         IsLinked(u, c) => KeyFree(m, m.heap[c].key, c)
  PROVE  /\ StoreOK(u, Q, NULL) /\ Calm(m, u)
         /\ \A d \in Chunk : d # c => Same(m, u, d)
<1> DEFINE id == m.heap[c].cls
           b == m.heap[c].key % 2^HashPower
<1>1. m \in Memory /\ id \in Class /\ b \in Bucket /\ c \in Chunk
  <2>1. m \in Memory
    BY DEF StoreOK
  <2>2. m.heap[c].key \in Nat
    BY <2>1 DEF Memory, Item
  <2> QED BY <2>1, <2>2, StoreAssumption DEF StoreOK, HomeOK, Bucket
<1>2. \A d \in Chunk : d # c => (IsLinked(u, d) <=> IsLinked(m, d))
  BY DEF IsLinked, KeepsRole
<1>3. \A d \in Chunk : d # c => Same(m, u, d)
  BY <1>2 DEF Same, KeepsRole
<1>4. \A d \in Chunk : u.heap[d].key = m.heap[d].key /\ u.heap[d].cls = m.heap[d].cls
                       /\ u.heap[d].ref = m.heap[d].ref
                       /\ ("SLABBED" \in u.heap[d].fl <=> "SLABBED" \in m.heap[d].fl)
  BY DEF KeepsRole
<1>5. \A a \in Class : Home(u, a) = Home(m, a)
  BY DEF Home, KeepsRole
<1>6. Counted(u, Q)
  BY <1>2, <1>4 DEF StoreOK, Counted
<1>7. \A a \in Class : \A d \in Range(m.slots[a]) : d \in Chunk
  <2>1. \A a \in Class : m.slots[a] \in Seq(Chunk)
    BY <1>1 DEF Memory
  <2> QED BY <2>1, ElementsOf
<1>8. SlotsOK(u, NULL)
  BY <1>4, <1>5, <1>7 DEF StoreOK, SlotsOK, KeepsRole
<1>9. LruOK(u)
  <2> SUFFICES ASSUME NEW a \in Class
               PROVE  /\ IsInjective(u.lru[a]) /\ Range(u.lru[a]) \subseteq Chunk \cup {Crawler(a)}
                      /\ \A d \in Chunk : d \in Range(u.lru[a]) <=> IsLinked(u, d) /\ u.heap[d].cls = a
    BY DEF LruOK
  <2>1. /\ IsInjective(m.lru[a]) /\ Range(m.lru[a]) \subseteq Chunk \cup {Crawler(a)}
        /\ \A d \in Chunk : d \in Range(m.lru[a]) <=> IsLinked(m, d) /\ m.heap[d].cls = a
    BY DEF StoreOK, LruOK
  <2>2. CASE a = id
    <3>1. Relisted(u.lru[a], m.lru[a], c, IsLinked(u, c))
      BY <2>2 DEF ListsFollow
    <3>2. IsInjective(u.lru[a]) /\ Range(u.lru[a]) \subseteq Chunk \cup {Crawler(a)}
      BY <1>1, <2>1, <3>1 DEF Relisted
    <3>3. \A d \in Chunk : d # c => (d \in Range(u.lru[a]) <=> d \in Range(m.lru[a]))
      BY <3>1 DEF Relisted
    <3>4. c \in Range(u.lru[a]) <=> IsLinked(u, c)
      BY <3>1 DEF Relisted
    <3>5. u.heap[c].cls = a
      BY <1>1, <1>4, <2>2
    <3>6. \A d \in Chunk : d \in Range(u.lru[a]) <=> IsLinked(u, d) /\ u.heap[d].cls = a
      <4> TAKE d \in Chunk
      <4>1. CASE d = c
        BY <3>4, <3>5, <4>1
      <4>2. CASE d # c
        BY <1>2, <1>4, <2>1, <3>3, <4>2
      <4> QED BY <4>1, <4>2
    <3> QED BY <3>2, <3>6, SMTT(30)
  <2>3. CASE a # id
    <3>1. u.lru[a] = m.lru[a]
      BY <2>3 DEF ListsFollow
    <3>2. \A d \in Chunk : d \in Range(u.lru[a]) <=> IsLinked(u, d) /\ u.heap[d].cls = a
      BY <1>2, <1>4, <2>1, <2>3, <3>1
    <3> QED BY <2>1, <3>1, <3>2, SMTT(30)
  <2> QED BY <2>2, <2>3
<1>10. TabOK(u)
  <2>1. ASSUME NEW a \in Bucket
        PROVE  /\ IsInjective(u.tab[a])
               /\ \A d \in Chunk : d \in Range(u.tab[a])
                                     <=> IsLinked(u, d) /\ u.heap[d].key % 2^HashPower = a
    <3>1. /\ IsInjective(m.tab[a])
          /\ \A d \in Chunk : d \in Range(m.tab[a])
                                <=> IsLinked(m, d) /\ m.heap[d].key % 2^HashPower = a
      BY DEF StoreOK, TabOK
    <3>2. CASE a = b
      <4>1. Relisted(u.tab[a], m.tab[a], c, IsLinked(u, c))
        BY <3>2 DEF ListsFollow
      <4>2. \A d \in Chunk : d # c => (d \in Range(u.tab[a]) <=> d \in Range(m.tab[a]))
        BY <4>1 DEF Relisted
      <4>3. IsInjective(u.tab[a]) /\ (c \in Range(u.tab[a]) <=> IsLinked(u, c))
        BY <4>1 DEF Relisted
      <4>4. u.heap[c].key % 2^HashPower = a
        BY <1>1, <1>4, <3>2
      <4>5. \A d \in Chunk : d \in Range(u.tab[a]) <=> IsLinked(u, d) /\ u.heap[d].key % 2^HashPower = a
        <5> TAKE d \in Chunk
        <5>1. CASE d = c
          BY <4>3, <4>4, <5>1
        <5>2. CASE d # c
          BY <1>2, <1>4, <3>1, <4>2, <5>2
        <5> QED BY <5>1, <5>2
      <4> QED BY <4>3, <4>5, SMTT(30)
    <3>3. CASE a # b
      <4>1. u.tab[a] = m.tab[a]
        BY <3>3 DEF ListsFollow
      <4>2. \A d \in Chunk : d \in Range(u.tab[a]) <=> IsLinked(u, d) /\ u.heap[d].key % 2^HashPower = a
        BY <1>2, <1>4, <3>1, <3>3, <4>1
      <4> QED BY <3>1, <4>1, <4>2, SMTT(30)
    <3> QED BY <3>2, <3>3
  <2>2. ASSUME NEW d \in Chunk, NEW e \in Chunk, IsLinked(u, d), IsLinked(u, e),
               u.heap[d].key = u.heap[e].key
        PROVE  d = e
    <3>1. CASE d # c /\ e # c
      BY <1>2, <1>4, <2>2, <3>1 DEF StoreOK, TabOK
    <3>2. CASE d = c \/ e = c
      BY <1>2, <1>4, <2>2, <3>2 DEF KeyFree
    <3> QED BY <3>1, <3>2
  <2> QED BY <2>1, <2>2 DEF TabOK
<1>11. HomeOK(u)
  <2>1. HomeOK(m)
    BY DEF StoreOK
  <2> QED BY <1>4, <1>5, <2>1 DEF HomeOK
<1>12. NoneLost(u, NULL)
  <2>1. NoneLost(m, NULL) /\ u.slots = m.slots
    BY DEF StoreOK, KeepsRole
  <2>2. \A a \in Class : Home(m, a) \subseteq Chunk
    BY <1>1, HomeChunks
  <2> QED BY <1>4, <1>5, <2>1, <2>2 DEF NoneLost
<1>13. PagesOK(u)
  BY DEF StoreOK, PagesOK, KeepsRole
<1>14. ItemsOK(u)
  <2>1. Linked(u) = IF IsLinked(u, c) THEN Linked(m) \cup {c} ELSE Linked(m) \ {c}
    BY <1>1, <1>2 DEF Linked
  <2>2. c \in Linked(m) <=> IsLinked(m, c)
    BY <1>1 DEF Linked
  <2>3. m.items = Cardinality(Linked(m)) /\ Cardinality(Linked(m)) \in Nat
    BY LinkedFinite, SMTT(30) DEF StoreOK, ItemsOK
  <2>4. u.items = m.items + (IF IsLinked(u, c) THEN 1 ELSE 0) - (IF IsLinked(m, c) THEN 1 ELSE 0)
    BY DEF ListsFollow
  <2>5. CASE IsLinked(u, c)
    <3>1. Cardinality(Linked(u)) = IF IsLinked(m, c) THEN m.items ELSE m.items + 1
      BY <2>1, <2>2, <2>3, <2>5, LinkedFinite
    <3> QED BY <2>3, <2>4, <2>5, <3>1 DEF ItemsOK
  <2>6. CASE ~IsLinked(u, c)
    <3>1. Cardinality(Linked(u)) = IF IsLinked(m, c) THEN m.items - 1 ELSE m.items
      BY <2>1, <2>2, <2>3, <2>6, LinkedFinite
    <3> QED BY <2>3, <2>4, <2>6, <3>1 DEF ItemsOK
  <2> QED BY <2>5, <2>6
<1>15. Calm(m, u)
  <2>1. \A a \in Class : Crawler(a) \in Range(u.lru[a]) <=> Crawler(a) \in Range(m.lru[a])
    <3> TAKE a \in Class
    <3>1. Crawler(a) # c
      <4>1. a \in Int /\ a >= 1 /\ c \in Int /\ c >= 1
        BY StoreAssumption, Bounds, <1>1, LenProperties, SMTT(30) DEF Class, Chunk, MaxPer
      <4> QED BY <4>1 DEF Crawler
    <3>2. CASE a = id
      BY <3>1, <3>2, ZenonT(30) DEF ListsFollow, Relisted
    <3>3. CASE a # id
      BY <3>3 DEF ListsFollow
    <3> QED BY <3>2, <3>3
  <2> QED BY <1>4, <2>1 DEF Calm, KeepsRole
<1> QED BY <1>3, <1>6, <1>8, <1>9, <1>10, <1>11, <1>12, <1>13, <1>14, <1>15 DEF StoreOK

\* A removal and an insertion at the head, as Relink wants them.
LEMMA Relists ==
  ASSUME NEW S, NEW s \in Seq(S), IsInjective(s), NEW c \in S
  PROVE  /\ Without(s, c) \in Seq(S) /\ Relisted(Without(s, c), s, c, FALSE)
         /\ c \notin Range(s) => <<c>> \o s \in Seq(S) /\ Relisted(<<c>> \o s, s, c, TRUE)
         /\ c \in Range(s) => /\ <<c>> \o Without(s, c) \in Seq(S)
                              /\ Relisted(<<c>> \o Without(s, c), s, c, TRUE)
                              /\ Relisted(s, s, c, TRUE)
<1> DEFINE r == Without(s, c)
<1>1. r \in Seq(S) /\ IsInjective(r) /\ Range(r) = Range(s) \ {c}
  BY WithoutList
<1> HIDE DEF r
<1>2. <<c>> \o s \in Seq(S) /\ Range(<<c>> \o s) = Range(s) \cup {c}
      /\ (c \notin Range(s) => IsInjective(<<c>> \o s))
  BY FrontList
<1>3. <<c>> \o r \in Seq(S) /\ Range(<<c>> \o r) = Range(r) \cup {c} /\ IsInjective(<<c>> \o r)
  BY <1>1, FrontList
<1>4. r \in Seq(S) /\ Relisted(r, s, c, FALSE)
  BY <1>1 DEF Relisted
<1>5. c \notin Range(s) => <<c>> \o s \in Seq(S) /\ Relisted(<<c>> \o s, s, c, TRUE)
  BY <1>2 DEF Relisted
<1>6. c \in Range(s) => /\ <<c>> \o r \in Seq(S) /\ Relisted(<<c>> \o r, s, c, TRUE)
                        /\ Relisted(s, s, c, TRUE)
  BY <1>1, <1>3, SMTT(30) DEF Relisted
<1> QED BY <1>4, <1>5, <1>6 DEF r

\* Where an item in use is, or would be, listed.
LEMMA Places ==
  ASSUME NEW m, NEW R \in Refs, NEW x, StoreOK(m, R, x), NEW c \in Chunk, m.heap[c].ref > 0
  PROVE  LET id == m.heap[c].cls
             b == m.heap[c].key % 2^HashPower
         IN  /\ m \in Memory /\ id \in Class /\ b \in Bucket /\ m.heap[c].key \in Nat
             /\ m.lru[id] \in Seq(Int) /\ IsInjective(m.lru[id])
             /\ m.tab[b] \in Seq(Chunk) /\ IsInjective(m.tab[b])
             /\ c \in Range(m.lru[id]) <=> IsLinked(m, c)
             /\ c \in Range(m.tab[b]) <=> IsLinked(m, c)
             /\ c \in Int
<1> DEFINE id == m.heap[c].cls
           b == m.heap[c].key % 2^HashPower
<1>1. m \in Memory
  BY DEF StoreOK
<1>2. id \in Class
  BY DEF StoreOK, HomeOK
<1>3. m.heap[c].key \in Nat /\ b \in Bucket
  <2>1. m.heap[c].key \in Nat
    BY <1>1 DEF Memory, Item
  <2> QED BY <2>1, StoreAssumption DEF Bucket
<1>4. m.lru[id] \in Seq(Int) /\ m.tab[b] \in Seq(Chunk)
  BY <1>1, <1>2, <1>3 DEF Memory
<1>5. IsInjective(m.lru[id]) /\ (c \in Range(m.lru[id]) <=> IsLinked(m, c))
  BY <1>2 DEF StoreOK, LruOK
<1>6. IsInjective(m.tab[b]) /\ (c \in Range(m.tab[b]) <=> IsLinked(m, c))
  BY <1>3 DEF StoreOK, TabOK
<1>7. c \in Int
  BY Bounds DEF Chunk, MaxPer
<1> QED BY <1>1, <1>2, <1>3, <1>4, <1>5, <1>6, <1>7

\* One reference more, one less.
LEMMA PlusLess ==
  ASSUME NEW R \in Refs, NEW c \in Chunk
  PROVE  /\ Plus(R, c) \in Refs /\ Plus(R, c)[c] = R[c] + 1 /\ Less(Plus(R, c), c) = R
         /\ \A d \in Chunk : d # c => Plus(R, c)[d] = R[d]
         /\ R[c] > 0 => /\ Less(R, c) \in Refs /\ Less(R, c)[c] = R[c] - 1
                        /\ Plus(Less(R, c), c) = R
                        /\ \A d \in Chunk : d # c => Less(R, c)[d] = R[d]
<1>1. R \in [Chunk -> Nat] /\ R[c] \in Nat
  BY DEF Refs
<1>2. /\ Plus(R, c) \in Refs /\ Plus(R, c)[c] = R[c] + 1
      /\ \A d \in Chunk : d # c => Plus(R, c)[d] = R[d]
  BY <1>1 DEF Plus, Refs
<1>3. Less(Plus(R, c), c) = R
  <2> DEFINE P == Plus(R, c)
             L == Less(P, c)
  <2>1. P \in [Chunk -> Nat] /\ P[c] = R[c] + 1 /\ \A d \in Chunk : d # c => P[d] = R[d]
    BY <1>2 DEF Refs
  <2> HIDE DEF P
  <2>2. L = [d \in Chunk |-> IF d = c THEN P[c] - 1 ELSE P[d]]
    BY <2>1 DEF Less
  <2> HIDE DEF L
  <2>3. R = [d \in Chunk |-> R[d]]
    BY <1>1
  <2>4. \A d \in Chunk : R[d] = IF d = c THEN P[c] - 1 ELSE P[d]
    BY <1>1, <2>1
  <2>5. L = R
    BY <2>2, <2>3, <2>4
  <2> QED BY <2>5 DEF L, P
<1>4. ASSUME R[c] > 0
      PROVE  /\ Less(R, c) \in Refs /\ Less(R, c)[c] = R[c] - 1
             /\ Plus(Less(R, c), c) = R
             /\ \A d \in Chunk : d # c => Less(R, c)[d] = R[d]
  <2> DEFINE P == Less(R, c)
             L == Plus(P, c)
  <2>1. P \in [Chunk -> Nat] /\ P[c] = R[c] - 1 /\ \A d \in Chunk : d # c => P[d] = R[d]
    BY <1>1, <1>4 DEF Less
  <2> HIDE DEF P
  <2>2. L = [d \in Chunk |-> IF d = c THEN P[c] + 1 ELSE P[d]]
    BY <2>1 DEF Plus
  <2> HIDE DEF L
  <2>3. R = [d \in Chunk |-> R[d]]
    BY <1>1
  <2>4. \A d \in Chunk : R[d] = IF d = c THEN P[c] + 1 ELSE P[d]
    BY <1>1, <2>1
  <2>5. L = R
    BY <2>2, <2>3, <2>4
  <2> QED BY <2>1, <2>5 DEF L, P, Refs
<1> QED BY <1>2, <1>3, <1>4

\* do_item_unlink takes an item out of the hash table and its LRU list.  The
\* caller holds a reference, so the chunk is not freed.
LEMMA UnlinkStep ==
  ASSUME NEW m, NEW R \in Refs, NEW c \in Chunk, StoreOK(m, R, NULL), R[c] > 0, R[c] + 2 < MaxRef
  PROVE  LET n == do_item_unlink(m, c)
         IN  /\ StoreOK(n, R, NULL) /\ Calm(m, n) /\ n.casid = m.casid
             /\ \A d \in Chunk : d # c => Same(m, n, d)
             /\ ~IsLinked(n, c) /\ n.heap[c].key = m.heap[c].key /\ n.heap[c].val = m.heap[c].val
<1> DEFINE id == m.heap[c].cls
           k == m.heap[c].key
           b == k % 2^HashPower
           m1 == [m EXCEPT !.heap[c].fl = @ \ {"LINKED"}]
           m2 == assoc_delete(m1, k)
           u == item_unlink_q(m2, c)
           n == do_item_unlink(m, c)
<1>1. m.heap[c].ref > 0 /\ R[c] \in Nat /\ m \in Memory /\ m.heap[c] \in Item
  <2>1. m \in Memory /\ m.heap[c] \in Item /\ R[c] \in Nat /\ m.heap[c].ref \in Nat
    BY DEF StoreOK, Refs, Memory, Item
  <2>2. m.heap[c].ref = (IF IsLinked(m, c) THEN 1 ELSE 0) + R[c]
    BY DEF StoreOK, Counted
  <2> QED BY <2>1, <2>2
<1>2. /\ id \in Class /\ b \in Bucket /\ k \in Nat /\ c \in Int
      /\ m.lru[id] \in Seq(Int) /\ IsInjective(m.lru[id])
      /\ m.tab[b] \in Seq(Chunk) /\ IsInjective(m.tab[b])
  BY <1>1, Places
<1>3. CASE ~IsLinked(m, c)
  <2>1. n = m
    BY <1>3 DEF do_item_unlink, IsLinked
  <2>2. Calm(m, m) /\ \A d \in Chunk : Same(m, m, d)
    BY DEF Calm, Same
  <2> QED BY <1>3, <2>1, <2>2
<1>4. CASE IsLinked(m, c)
  <2>1. n = do_item_remove(u, c)
    BY <1>4 DEF do_item_unlink, IsLinked
  <2>2. /\ m1 \in Memory /\ Rest(m, m1) /\ m1.casid = m.casid
        /\ \A d \in Chunk : d # c => m1.heap[d] = m.heap[d]
        /\ m1.heap[c] = [m.heap[c] EXCEPT !.fl = @ \ {"LINKED"}]
    BY <1>1 DEF Memory, Item, Flags, Rest
  <2> HIDE DEF m1
  <2>3. /\ m1.heap[c].key = k /\ m1.heap[c].val = m.heap[c].val /\ m1.heap[c].cls = id
        /\ m1.heap[c].ref = m.heap[c].ref /\ "LINKED" \notin m1.heap[c].fl
        /\ "SLABBED" \in m1.heap[c].fl <=> "SLABBED" \in m.heap[c].fl
    BY <1>1, <2>2 DEF Item
  <2>4. \A d \in Chunk : m1.heap[d].key = m.heap[d].key
    BY <2>2, <2>3
  <2>5. assoc_find(m1, k) = c /\ Chain(m1, k) = m.tab[b]
    <3>1. m1.tab = m.tab
      BY <2>2, SMTT(30) DEF Rest
    <3>2. assoc_find(m1, k) = assoc_find(m, k) /\ Chain(m1, k) = m.tab[b]
      BY <1>1, <1>2, <2>2, <2>4, <3>1, FindSame
    <3>3. assoc_find(m, k) = c
      BY <1>2, <1>4, Finds, SMTT(30)
    <3> QED BY <3>2, <3>3
  <2> DEFINE t == Without(m.tab[b], c)
             l == Without(m.lru[id], c)
  <2>6. t \in Seq(Chunk) /\ Relisted(t, m.tab[b], c, FALSE)
    BY <1>2, Relists
  <2>7. l \in Seq(Int) /\ Relisted(l, m.lru[id], c, FALSE)
    BY <1>2, Relists
  <2>8. m2 = [[m1 EXCEPT !.tab[b] = t] EXCEPT !.items = @ - 1]
    <3>1. ~InOld(m1, k) /\ m1.power = HashPower
      BY <2>2 DEF Memory, InOld
    <3>2. SetChain(m1, k, t) = [m1 EXCEPT !.tab[b] = t]
      BY <3>1 DEF SetChain
    <3> QED BY <2>5, <3>2, Bounds DEF assoc_delete
  <2> HIDE DEF t, m2
  <2>9. /\ m2 \in Memory /\ m2.casid = m.casid /\ m2.heap = m1.heap /\ m2.lru = m.lru
        /\ m2.slots = m.slots /\ m2.pages = m.pages /\ m2.malloced = m.malloced
        /\ m2.tab[b] = t /\ (\A a \in Bucket : a # b => m2.tab[a] = m.tab[a])
        /\ m2.items = m.items - 1
    <3>1. /\ m1.tab \in [Bucket -> Seq(Chunk)] /\ m1.items \in Int /\ m1 \in Memory
          /\ m1.tab = m.tab /\ m1.items = m.items /\ m1.lru = m.lru /\ m1.slots = m.slots
          /\ m1.pages = m.pages /\ m1.malloced = m.malloced
      BY <2>2 DEF Memory, Rest
    <3> DEFINE o == [m1 EXCEPT !.tab[b] = t]
    <3>2. /\ o \in Memory /\ o.casid = m1.casid /\ o.heap = m1.heap /\ o.lru = m1.lru
          /\ o.slots = m1.slots /\ o.pages = m1.pages /\ o.malloced = m1.malloced
          /\ o.items = m1.items
      BY <1>2, <2>6, <3>1, ZenonT(30) DEF Memory
    <3>3. o.tab[b] = t /\ \A a \in Bucket : a # b => o.tab[a] = m.tab[a]
      BY <1>2, <3>1 DEF Memory
    <3> HIDE DEF o
    <3>4. m2 = [o EXCEPT !.items = @ - 1]
      BY <2>8 DEF o
    <3>5. /\ m2 \in Memory /\ m2.casid = o.casid /\ m2.heap = o.heap /\ m2.lru = o.lru
          /\ m2.slots = o.slots /\ m2.pages = o.pages /\ m2.malloced = o.malloced
          /\ m2.tab = o.tab /\ m2.items = o.items - 1
      <4> DEFINE v == o.items - 1
      <4>1. v \in Int
        BY <3>1, <3>2
      <4>2. m2 = [o EXCEPT !.items = v]
        BY <3>4
      <4> HIDE DEF v
      <4>3. /\ m2 \in Memory /\ m2.casid = o.casid /\ m2.heap = o.heap /\ m2.lru = o.lru
            /\ m2.slots = o.slots /\ m2.pages = o.pages /\ m2.malloced = o.malloced
            /\ m2.tab = o.tab /\ m2.items = v
        BY <3>2, <4>1, <4>2 DEF Memory
      <4> QED BY <4>3 DEF v
    <3> QED BY <2>2, <3>1, <3>2, <3>3, <3>5
  <2>10. u = [m2 EXCEPT !.lru[id] = l]
    BY <2>3, <2>9, Zenon DEF item_unlink_q, Memory
  <2> HIDE DEF l, u
  <2>11. /\ u \in Memory /\ u.casid = m.casid /\ u.heap = m1.heap /\ u.tab = m2.tab
         /\ u.slots = m.slots /\ u.pages = m.pages /\ u.malloced = m.malloced
         /\ u.lru[id] = l /\ (\A a \in Class : a # id => u.lru[a] = m.lru[a])
         /\ u.items = m.items - 1
    BY <1>2, <2>7, <2>9, <2>10, Zenon DEF Memory
  <2>12. ~IsLinked(u, c)
    BY <2>3, <2>11 DEF IsLinked
  <2>13. KeepsRole(m, u, c)
    BY <2>2, <2>3, <2>11, Zenon DEF KeepsRole
  <2>14. ListsFollow(m, u, c)
    <3>1. m.items \in Int
      BY <1>1 DEF Memory
    <3>2. Relisted(u.lru[id], m.lru[id], c, FALSE) /\ Relisted(u.tab[b], m.tab[b], c, FALSE)
      BY <2>6, <2>7, <2>9, <2>11
    <3>3. IsLinked(u, c) = FALSE /\ IsLinked(m, c) = TRUE
      BY <1>4, <2>12 DEF IsLinked
    <3>4. u.items = m.items + (IF IsLinked(u, c) THEN 1 ELSE 0) - (IF IsLinked(m, c) THEN 1 ELSE 0)
      BY <2>11, <3>1, <3>3
    <3>5. \A a \in Bucket : a # b => u.tab[a] = m.tab[a]
      BY <2>9, <2>11
    <3> QED BY <2>11, <3>2, <3>3, <3>4, <3>5 DEF ListsFollow
  <2>15. Plus(R, c) \in Refs /\ Plus(R, c)[c] = R[c] + 1 /\ Less(Plus(R, c), c) = R
         /\ \A d \in Chunk : d # c => Plus(R, c)[d] = R[d]
    BY PlusLess
  <2>16. u.heap[c].ref = (IF IsLinked(u, c) THEN 1 ELSE 0) + Plus(R, c)[c]
    <3>1. m.heap[c].ref = 1 + R[c]
      BY <1>4 DEF StoreOK, Counted
    <3> QED BY <1>1, <2>3, <2>11, <2>12, <2>15, <3>1
  <2>17. StoreOK(u, Plus(R, c), NULL) /\ Calm(m, u) /\ \A d \in Chunk : d # c => Same(m, u, d)
    BY <1>1, <2>11, <2>12, <2>13, <2>14, <2>15, <2>16, Relink
  <2>18. /\ StoreOK(n, R, NULL) /\ Calm(u, n) /\ n.casid = u.casid
         /\ \A d \in Chunk : Same(u, n, d)
    BY <1>1, <2>1, <2>15, <2>17, RemoveStep, Bounds
  <2>19. Calm(m, n) /\ (\A d \in Chunk : d # c => Same(m, n, d)) /\ n.casid = m.casid
    BY <2>11, <2>17, <2>18 DEF Calm, Same
  <2>20. ~IsLinked(n, c) /\ n.heap[c].key = k /\ n.heap[c].val = m.heap[c].val
    BY <2>3, <2>11, <2>12, <2>18 DEF Same
  <2> QED BY <2>18, <2>19, <2>20
<1> QED BY <1>3, <1>4

----------------------------------------------------------------------------
(* Single fields of the memory.                                            *)

\* Replacing one bucket chain leaves the rest of the memory alone.
LEMMA SetTab ==
  ASSUME NEW m \in Memory, NEW b \in Bucket, NEW t \in Seq(Chunk)
  PROVE  LET o == [m EXCEPT !.tab[b] = t]
         IN  /\ o \in Memory /\ o.casid = m.casid /\ o.heap = m.heap /\ o.lru = m.lru
             /\ o.slots = m.slots /\ o.pages = m.pages /\ o.malloced = m.malloced
             /\ o.items = m.items /\ o.tab[b] = t
             /\ \A a \in Bucket : a # b => o.tab[a] = m.tab[a]
BY DEF Memory

\* So does replacing one LRU list,
LEMMA SetLru ==
  ASSUME NEW m \in Memory, NEW id \in Class, NEW l \in Seq(Int)
  PROVE  LET o == [m EXCEPT !.lru[id] = l]
         IN  /\ o \in Memory /\ o.casid = m.casid /\ o.heap = m.heap /\ o.tab = m.tab
             /\ o.slots = m.slots /\ o.pages = m.pages /\ o.malloced = m.malloced
             /\ o.items = m.items /\ o.lru[id] = l
             /\ \A a \in Class : a # id => o.lru[a] = m.lru[a]
BY DEF Memory

\* The same, of an operator of this name.
Relru(m, id, l) == [m EXCEPT !.lru[id] = l]

\* replacing it in a memory with other headers,
LEMMA SetRelru ==
  ASSUME NEW m \in Memory, NEW id \in Class, NEW l \in Seq(Int)
  PROVE  LET o == Relru(m, id, l)
         IN  /\ o \in Memory /\ o.casid = m.casid /\ o.heap = m.heap /\ o.tab = m.tab
             /\ o.slots = m.slots /\ o.pages = m.pages /\ o.malloced = m.malloced
             /\ o.items = m.items /\ o.lru[id] = l
             /\ \A a \in Class : a # id => o.lru[a] = m.lru[a]
BY SetLru DEF Relru

\* and counting hash_items.
LEMMA SetItems ==
  ASSUME NEW m \in Memory, NEW i \in Int
  PROVE  LET o == [m EXCEPT !.items = i]
         IN  /\ o \in Memory /\ o.casid = m.casid /\ Rest(m, [o EXCEPT !.items = m.items])
             /\ o.heap = m.heap /\ o.lru = m.lru /\ o.slots = m.slots /\ o.pages = m.pages
             /\ o.malloced = m.malloced /\ o.tab = m.tab /\ o.items = i
BY DEF Memory, Rest

\* do_item_link puts an item with a new version number into the hash table and
\* its LRU list.
LEMMA LinkStep ==
  ASSUME NEW m, NEW R \in Refs, NEW c \in Chunk, StoreOK(m, R, NULL), R[c] > 0, R[c] + 2 < MaxRef,
         ~IsLinked(m, c), KeyFree(m, m.heap[c].key, c), ~conf.expand, now \in Nat
  PROVE  LET n == do_item_link(m, c)
         IN  /\ StoreOK(n, R, NULL) /\ Calm(m, n) /\ n.casid = m.casid + 1
             /\ \A d \in Chunk : d # c => Same(m, n, d)
             /\ IsLinked(n, c) /\ n.heap[c].key = m.heap[c].key /\ n.heap[c].val = m.heap[c].val
<1> DEFINE id == m.heap[c].cls
           k == m.heap[c].key
           b == k % 2^HashPower
           m1 == [m EXCEPT !.heap[c].fl = @ \cup {"LINKED"}, !.heap[c].time = now,
                           !.heap[c].cas = m.casid + 1, !.casid = @ + 1]
           t == <<c>> \o m.tab[b]
           l == <<c>> \o m.lru[id]
           a1 == [m1 EXCEPT !.tab[b] = t]
           a2 == [a1 EXCEPT !.items = @ + 1]
           u == [a2 EXCEPT !.lru[id] = l]
           n == do_item_link(m, c)
<1>1. m.heap[c].ref = R[c] /\ R[c] \in Nat /\ m \in Memory /\ m.heap[c] \in Item /\ m.heap[c].ref > 0
  <2>1. m \in Memory /\ m.heap[c] \in Item /\ R[c] \in Nat
    BY DEF StoreOK, Refs, Memory
  <2>2. m.heap[c].ref = (IF IsLinked(m, c) THEN 1 ELSE 0) + R[c]
    BY DEF StoreOK, Counted
  <2> QED BY <2>1, <2>2
<1>2. /\ id \in Class /\ b \in Bucket /\ k \in Nat /\ c \in Int
      /\ m.lru[id] \in Seq(Int) /\ IsInjective(m.lru[id]) /\ c \notin Range(m.lru[id])
      /\ m.tab[b] \in Seq(Chunk) /\ IsInjective(m.tab[b]) /\ c \notin Range(m.tab[b])
  BY <1>1, Places
<1>3. t \in Seq(Chunk) /\ Relisted(t, m.tab[b], c, TRUE)
  BY <1>2, Relists
<1>4. l \in Seq(Int) /\ Relisted(l, m.lru[id], c, TRUE)
  BY <1>2, Relists
<1>5. m.casid \in Nat /\ m.items \in Int
  BY <1>1 DEF Memory
<1>6. /\ m1 \in Memory /\ Rest(m, m1) /\ m1.casid = m.casid + 1
      /\ \A d \in Chunk : d # c => m1.heap[d] = m.heap[d]
      /\ m1.heap[c] = [m.heap[c] EXCEPT !.fl = @ \cup {"LINKED"}, !.time = now, !.cas = m.casid + 1]
  <2> DEFINE v == m.casid + 1
             f == m.heap[c].fl \cup {"LINKED"}
             y == [m.heap[c] EXCEPT !.fl = f, !.time = now, !.cas = v]
  <2>1. v \in Nat /\ f \in SUBSET Flags /\ now \in Int
    BY <1>1, <1>5, SMTT(30) DEF Item, Flags
  <2>2. m1 = [m EXCEPT !.heap[c] = y, !.casid = v]
    BY <1>1, ZenonT(60) DEF Memory, Item
  <2>3. y \in Item
    <3>1. \A x \in Item, g \in SUBSET Flags, i \in Int, a \in Nat :
            [x EXCEPT !.fl = g, !.time = i, !.cas = a] \in Item
      <4>1. \A x \in Item, g \in SUBSET Flags : [x EXCEPT !.fl = g] \in Item
        BY DEF Item
      <4>2. \A x \in Item, i \in Int, a \in Nat : [x EXCEPT !.time = i, !.cas = a] \in Item
        BY DEF Item
      <4>3. \A x \in Item, g \in SUBSET Flags, i \in Int, a \in Nat :
              [x EXCEPT !.fl = g, !.time = i, !.cas = a]
                = [[x EXCEPT !.fl = g] EXCEPT !.time = i, !.cas = a]
        BY DEF Item
      <4> QED BY <4>1, <4>2, <4>3, Zenon
    <3>2. m.heap[c] \in Item
      BY <1>1 DEF Memory
    <3> HIDE DEF v, f
    <3>3. [m.heap[c] EXCEPT !.fl = f, !.time = now, !.cas = v] \in Item
      BY <2>1, <3>1, <3>2, Zenon
    <3> QED BY <3>3
  <2> HIDE DEF v, f, y, m1
  <2>4. /\ m1 \in Memory /\ Rest(m, m1) /\ m1.casid = v /\ m1.heap[c] = y
        /\ \A d \in Chunk : d # c => m1.heap[d] = m.heap[d]
    BY <1>1, <2>1, <2>2, <2>3 DEF Memory, Rest
  <2> QED BY <2>4 DEF v, f, y
<1> HIDE DEF m1, t, l
<1>7. /\ m1.heap[c].key = k /\ m1.heap[c].val = m.heap[c].val /\ m1.heap[c].cls = id
      /\ m1.heap[c].ref = m.heap[c].ref /\ "LINKED" \in m1.heap[c].fl
      /\ "SLABBED" \in m1.heap[c].fl <=> "SLABBED" \in m.heap[c].fl
  BY <1>1, <1>6 DEF Item
<1>8. /\ a1 \in Memory /\ a1.casid = m1.casid /\ a1.heap = m1.heap /\ a1.lru = m.lru
      /\ a1.slots = m.slots /\ a1.pages = m.pages /\ a1.malloced = m.malloced
      /\ a1.items = m.items /\ a1.tab[b] = t
      /\ \A a \in Bucket : a # b => a1.tab[a] = m.tab[a]
  <2>1. /\ m1.lru = m.lru /\ m1.slots = m.slots /\ m1.pages = m.pages /\ m1.malloced = m.malloced
        /\ m1.tab = m.tab /\ m1.items = m.items
    BY <1>6 DEF Rest
  <2> HIDE DEF id, k, b
  <2>2. /\ a1 \in Memory /\ a1.casid = m1.casid /\ a1.heap = m1.heap /\ a1.lru = m1.lru
        /\ a1.slots = m1.slots /\ a1.pages = m1.pages /\ a1.malloced = m1.malloced
        /\ a1.items = m1.items /\ a1.tab[b] = t
        /\ \A a \in Bucket : a # b => a1.tab[a] = m1.tab[a]
    <3>1. m1 \in Memory /\ b \in Bucket /\ t \in Seq(Chunk)
      BY <1>2, <1>3, <1>6
    <3> QED BY ONLY <3>1, SetTab
  <2> HIDE DEF a1
  <2> QED BY <2>1, <2>2
<1>9. /\ a2 \in Memory /\ a2.casid = m1.casid /\ a2.heap = m1.heap /\ a2.lru = m.lru
      /\ a2.slots = m.slots /\ a2.pages = m.pages /\ a2.malloced = m.malloced
      /\ a2.tab = a1.tab /\ a2.items = m.items + 1
  <2> HIDE DEF a1
  <2>1. a1.items + 1 \in Int
    BY <1>5, <1>8
  <2> QED BY <1>8, <2>1, SetItems, ZenonT(30)
<1>10. /\ u \in Memory /\ u.casid = m1.casid /\ u.heap = m1.heap /\ u.tab = a1.tab
       /\ u.slots = m.slots /\ u.pages = m.pages /\ u.malloced = m.malloced
       /\ u.items = m.items + 1 /\ u.lru[id] = l
       /\ \A a \in Class : a # id => u.lru[a] = m.lru[a]
  <2> HIDE DEF a1, a2
  <2> HIDE DEF id, k, b
  <2>1. /\ u \in Memory /\ u.casid = a2.casid /\ u.heap = a2.heap /\ u.tab = a2.tab
        /\ u.slots = a2.slots /\ u.pages = a2.pages /\ u.malloced = a2.malloced
        /\ u.items = a2.items /\ u.lru[id] = l
        /\ \A a \in Class : a # id => u.lru[a] = a2.lru[a]
    <3>1. a2 \in Memory /\ id \in Class /\ l \in Seq(Int)
      BY <1>2, <1>4, <1>9
    <3> HIDE DEF a2
    <3> QED BY ONLY <3>1, SetLru
  <2> HIDE DEF u
  <2> QED BY <1>9, <2>1
<1>11. n = refcount_incr(u, c)
  <2>1. Chain(m1, k) = m.tab[b]
    <3>1. m1.tab = m.tab
      BY <1>6 DEF Rest
    <3>2. \A d \in Chunk : m1.heap[d].key = m.heap[d].key
      BY <1>6, <1>7
    <3> HIDE DEF b, k
    <3>3. Chain(m1, k) = m.tab[k % 2^HashPower]
      BY <1>1, <1>2, <1>6, <3>1, <3>2, FindSame
    <3> QED BY <3>3 DEF b
  <2>2. ~InOld(m1, k) /\ m1.power = HashPower
    BY <1>6 DEF Memory, InOld
  <2>3. SetChain(m1, k, t) = a1
    BY <2>2 DEF SetChain
  <2>4. assoc_insert(m1, c, k) = a2
    <3>1. [SetChain(m1, k, <<c>> \o Chain(m1, k)) EXCEPT !.items = @ + 1] = a2
      BY <2>1, <2>3, Zenon DEF t
    <3>2. assoc_start_expand(a2) = a2
      BY DEF assoc_start_expand
    <3> QED BY <3>1, <3>2 DEF assoc_insert
  <2>5. item_link_q(a2, c) = u
    <3>1. a2.heap[c].cls = id /\ a2.lru[id] = m.lru[id]
      BY <1>7, <1>9
    <3> HIDE DEF a2
    <3>2. [a2 EXCEPT !.lru[id] = <<c>> \o @] = [a2 EXCEPT !.lru[id] = l]
      BY <3>1 DEF l
    <3> QED BY <3>1, <3>2 DEF item_link_q, a2
  <2>6. n = refcount_incr(item_link_q(assoc_insert(m1, c, m1.heap[c].key), c), c)
    BY DEF do_item_link, m1
  <2> QED BY <1>7, <2>4, <2>5, <2>6
<1> HIDE DEF a1, a2, u, n
<1>12. IsLinked(u, c)
  BY <1>7, <1>10 DEF IsLinked
<1>13. KeepsRole(m, u, c)
  BY <1>6, <1>7, <1>10 DEF KeepsRole
<1>14. ListsFollow(m, u, c)
  <2>1. Relisted(u.lru[id], m.lru[id], c, TRUE) /\ Relisted(u.tab[b], m.tab[b], c, TRUE)
    BY <1>3, <1>4, <1>8, <1>10
  <2>2. IsLinked(u, c) = TRUE /\ IsLinked(m, c) = FALSE
    BY <1>12 DEF IsLinked
  <2>3. u.items = m.items + (IF IsLinked(u, c) THEN 1 ELSE 0) - (IF IsLinked(m, c) THEN 1 ELSE 0)
    BY <1>5, <1>10, <2>2
  <2>4. \A a \in Bucket : a # b => u.tab[a] = m.tab[a]
    BY <1>8, <1>10
  <2> QED BY <1>10, <2>1, <2>2, <2>3, <2>4, Zenon DEF ListsFollow
<1>15. /\ Less(R, c) \in Refs /\ Less(R, c)[c] = R[c] - 1 /\ Plus(Less(R, c), c) = R
       /\ \A d \in Chunk : d # c => Less(R, c)[d] = R[d]
  BY PlusLess
<1>16. u.heap[c].ref = (IF IsLinked(u, c) THEN 1 ELSE 0) + Less(R, c)[c]
  BY <1>1, <1>7, <1>10, <1>12, <1>15
<1>17. StoreOK(u, Less(R, c), NULL) /\ Calm(m, u) /\ \A d \in Chunk : d # c => Same(m, u, d)
  BY <1>1, <1>10, <1>13, <1>14, <1>15, <1>16, Relink
<1>18. /\ StoreOK(n, R, NULL) /\ Calm(u, n) /\ n.casid = u.casid
       /\ \A d \in Chunk : Same(u, n, d)
  <2>1. u.heap[c].ref > 0 /\ Less(R, c)[c] + 2 < MaxRef
    BY <1>1, <1>7, <1>10, <1>15, Bounds
  <2>2. StoreOK(u, Less(R, c), NULL) /\ Less(R, c) \in Refs /\ Plus(Less(R, c), c) = R
    BY <1>15, <1>17
  <2>3. LET o == refcount_incr(u, c)
        IN  /\ StoreOK(o, Plus(Less(R, c), c), NULL) /\ Calm(u, o) /\ o.casid = u.casid
            /\ \A d \in Chunk : Same(u, o, d)
    <3> DEFINE Q == Less(R, c)
    <3>1. u.heap[c].ref > 0 /\ Q[c] + 2 < MaxRef /\ StoreOK(u, Q, NULL) /\ Q \in Refs /\ c \in Chunk
      BY <2>1, <2>2
    <3> HIDE DEF Q
    <3>2. StoreOK(refcount_incr(u, c), Plus(Q, c), NULL)
       BY <3>1, IncrStep
    <3>3. Calm(u, refcount_incr(u, c)) /\ \A d \in Chunk : Same(u, refcount_incr(u, c), d)
       BY <3>1, IncrStep
    <3>4. refcount_incr(u, c).casid = u.casid
       BY ONLY <1>10 DEF refcount_incr, Memory
    <3> QED BY <3>2, <3>3, <3>4 DEF Q
  <2> QED BY <1>11, <2>2, <2>3
<1>19. Calm(m, n) /\ (\A d \in Chunk : d # c => Same(m, n, d)) /\ n.casid = m.casid + 1
  BY <1>6, <1>10, <1>17, <1>18 DEF Calm, Same
<1>20. IsLinked(n, c) /\ n.heap[c].key = k /\ n.heap[c].val = m.heap[c].val
  BY <1>7, <1>10, <1>12, <1>18 DEF Same
<1> QED BY <1>18, <1>19, <1>20 DEF n


\* Writing one header leaves everything but that header alone.
LEMMA SetHeader ==
  ASSUME NEW m \in Memory, NEW c \in Chunk, NEW y \in Item
  PROVE  LET o == [m EXCEPT !.heap[c] = y]
         IN  /\ o \in Memory /\ o.casid = m.casid /\ o.heap[c] = y /\ Rest(m, o)
             /\ \A d \in Chunk : d # c => o.heap[d] = m.heap[d]
BY DEF Memory, Rest

\* do_item_update moves an item to the head of its LRU list, or does nothing.
LEMMA UpdateStep ==
  ASSUME NEW m, NEW R \in Refs, NEW c \in Chunk, StoreOK(m, R, NULL), m.heap[c].ref > 0, now \in Nat
  PROVE  LET n == do_item_update(m, c)
         IN  /\ StoreOK(n, R, NULL) /\ Calm(m, n) /\ n.casid = m.casid
             /\ \A d \in Chunk : /\ Same(m, n, d) /\ n.heap[d].ref = m.heap[d].ref
                                 /\ n.heap[d].cls = m.heap[d].cls
<1> DEFINE id == m.heap[c].cls
           b == m.heap[c].key % 2^HashPower
           w == Without(m.lru[id], c)
           l == <<c>> \o w
           y == [m.heap[c] EXCEPT !.time = now]
           u1 == [m EXCEPT !.lru[id] = w]
           u2 == [u1 EXCEPT !.heap[c] = y]
           u3 == [u2 EXCEPT !.lru[id] = l]
           n == do_item_update(m, c)
<1>1. CASE ~(m.heap[c].time < now - UpdateInterval /\ "LINKED" \in m.heap[c].fl)
  <2>1. n = m
    BY <1>1 DEF do_item_update
  <2> QED BY <2>1 DEF Calm, Same
<1>2. CASE m.heap[c].time < now - UpdateInterval /\ "LINKED" \in m.heap[c].fl
  <2>1. /\ m \in Memory /\ id \in Class /\ b \in Bucket /\ c \in Int
        /\ m.lru[id] \in Seq(Int) /\ IsInjective(m.lru[id]) /\ c \in Range(m.lru[id])
        /\ m.tab[b] \in Seq(Chunk) /\ IsInjective(m.tab[b]) /\ c \in Range(m.tab[b])
    BY <1>2, Places, SMTT(30) DEF IsLinked
  <2>2. w \in Seq(Int) /\ l \in Seq(Int) /\ Relisted(l, m.lru[id], c, TRUE)
    BY <2>1, Relists
  <2>3. Relisted(m.tab[b], m.tab[b], c, TRUE)
    BY <2>1, Relists
  <2>4. m.heap[c] \in Item /\ y \in Item /\ now \in Int
    <3>1. m.heap[c] \in Item
      BY <2>1 DEF Memory
    <3>2. now \in Int /\ \A x \in Item, i \in Int : [x EXCEPT !.time = i] \in Item
      BY SMTT(30) DEF Item
    <3> QED BY ONLY <3>1, <3>2
  <2> HIDE DEF w, l, id, b
  <2>5. /\ u1 \in Memory /\ u1.casid = m.casid /\ u1.heap = m.heap /\ u1.tab = m.tab
        /\ u1.slots = m.slots /\ u1.pages = m.pages /\ u1.malloced = m.malloced
        /\ u1.items = m.items /\ u1.lru[id] = w
        /\ \A a \in Class : a # id => u1.lru[a] = m.lru[a]
    <3>1. u1 = Relru(m, id, w)
      BY DEF Relru
    <3>2. m \in Memory /\ id \in Class /\ w \in Seq(Int)
      BY <2>1, <2>2
    <3> HIDE DEF u1
    <3> QED BY ONLY <3>1, <3>2, SetRelru
  <2>6. item_unlink_q(m, c) = u1
    BY DEF item_unlink_q, w, id
  <2>7. [u1 EXCEPT !.heap[c].time = now] = u2
    <3> HIDE DEF u1
    <3> QED BY <2>4, <2>5 DEF Memory, Item
  <2> HIDE DEF u1
  <2>8. /\ u2 \in Memory /\ u2.casid = u1.casid /\ u2.heap[c] = y /\ Rest(u1, u2)
        /\ \A d \in Chunk : d # c => u2.heap[d] = u1.heap[d]
    <3> HIDE DEF y
    <3> QED BY ONLY <2>4, <2>5, c \in Chunk, SetHeader, ZenonT(30)
  <2> HIDE DEF u2
  <2>9. /\ u3 \in Memory /\ u3.casid = u2.casid /\ u3.heap = u2.heap /\ u3.tab = u2.tab
        /\ u3.slots = u2.slots /\ u3.pages = u2.pages /\ u3.malloced = u2.malloced
        /\ u3.items = u2.items /\ u3.lru[id] = l
        /\ \A a \in Class : a # id => u3.lru[a] = u2.lru[a]
    <3>1. u2 \in Memory /\ id \in Class /\ l \in Seq(Int)
      BY <2>1, <2>2, <2>8
    <3> QED BY ONLY <3>1, SetLru
  <2>10. n = u3
    <3>1. u2.heap[c].cls = id /\ u2.lru[id] = w
      BY <2>1, <2>4, <2>5, <2>8 DEF Item, Rest, id
    <3>2. [u2 EXCEPT !.lru[id] = <<c>> \o @] = [u2 EXCEPT !.lru[id] = l]
      BY <3>1 DEF l
    <3>3. item_link_q(u2, c) = u3
      BY <3>1, <3>2 DEF item_link_q
    <3>4. n = item_link_q([item_unlink_q(m, c) EXCEPT !.heap[c].time = now], c)
      BY <1>2 DEF do_item_update
    <3> QED BY <2>6, <2>7, <3>3, <3>4
  <2> HIDE DEF u3, n
  <2>11. /\ u3.heap[c] = y /\ \A d \in Chunk : d # c => u3.heap[d] = m.heap[d]
    BY <2>5, <2>8, <2>9
  <2>12. /\ y.key = m.heap[c].key /\ y.val = m.heap[c].val /\ y.cls = m.heap[c].cls
         /\ y.ref = m.heap[c].ref /\ y.fl = m.heap[c].fl
    BY <2>4 DEF Item
  <2> HIDE DEF y
  <2>13. KeepsRole(m, u3, c)
    BY <2>5, <2>8, <2>9, <2>11, <2>12 DEF KeepsRole, Rest
  <2>14. IsLinked(u3, c) /\ IsLinked(m, c)
    BY <1>2, <2>11, <2>12 DEF IsLinked
  <2>15. ListsFollow(m, u3, c)
    <3>1. u3.lru[id] = l /\ u3.tab = m.tab /\ u3.items = m.items
      BY <2>5, <2>8, <2>9 DEF Rest
    <3>2. Relisted(u3.lru[id], m.lru[id], c, IsLinked(u3, c))
          /\ Relisted(u3.tab[b], m.tab[b], c, IsLinked(u3, c))
      <4>1. IsLinked(u3, c) = TRUE
        BY <2>14 DEF IsLinked
      <4> QED BY <2>2, <2>3, <3>1, <4>1
    <3>3. \A a \in Class : a # id => u3.lru[a] = m.lru[a]
      BY <2>5, <2>8, <2>9 DEF Rest
    <3>4. u3.items = m.items + (IF IsLinked(u3, c) THEN 1 ELSE 0) - (IF IsLinked(m, c) THEN 1 ELSE 0)
      <4>1. m.items \in Int
        BY <2>1 DEF Memory
      <4> QED BY <2>14, <3>1, <4>1
    <3> QED BY <3>1, <3>2, <3>3, <3>4 DEF ListsFollow, id, b
  <2>16. u3.heap[c].ref = (IF IsLinked(u3, c) THEN 1 ELSE 0) + R[c]
    <3>1. m.heap[c].ref = (IF IsLinked(m, c) THEN 1 ELSE 0) + R[c]
      BY DEF StoreOK, Counted
    <3> QED BY <2>11, <2>12, <2>14, <3>1
  <2>17. KeyFree(m, m.heap[c].key, c)
    BY <2>14 DEF KeyFree, StoreOK, TabOK
  <2>18. StoreOK(u3, R, NULL) /\ Calm(m, u3) /\ \A d \in Chunk : d # c => Same(m, u3, d)
    BY <2>9, <2>13, <2>15, <2>16, <2>17, Relink
  <2>19. Same(m, u3, c)
    BY <2>11, <2>12, <2>14 DEF Same
  <2>20. \A d \in Chunk : u3.heap[d].ref = m.heap[d].ref /\ u3.heap[d].cls = m.heap[d].cls
    BY <2>11, <2>12
  <2>21. u3.casid = m.casid
    BY <2>5, <2>8, <2>9
  <2> QED BY <2>10, <2>18, <2>19, <2>20, <2>21 DEF n
<1> QED BY <1>1, <1>2


----------------------------------------------------------------------------
(* Pages and free lists.                                                   *)

\* Two lists one after the other.
LEMMA JoinLists ==
  ASSUME NEW S, NEW r \in Seq(S), NEW s \in Seq(S), IsInjective(r), IsInjective(s),
         Range(r) \cap Range(s) = {}
  PROVE  /\ r \o s \in Seq(S) /\ IsInjective(r \o s) /\ Range(r \o s) = Range(r) \cup Range(s)
<1> DEFINE t == r \o s
<1>1. /\ DOMAIN r = 1 .. Len(r) /\ Len(r) \in Nat /\ DOMAIN s = 1 .. Len(s) /\ Len(s) \in Nat
  BY LenProperties
<1>2. /\ t \in Seq(S) /\ Len(t) = Len(r) + Len(s)
      /\ \A j \in 1 .. Len(r) + Len(s) : t[j] = IF j <= Len(r) THEN r[j] ELSE s[j - Len(r)]
  BY ConcatProperties
<1>3. DOMAIN t = 1 .. Len(r) + Len(s)
  BY <1>2, LenProperties
<1> HIDE DEF t
<1>4. \A i \in 1 .. Len(r), j \in 1 .. Len(s) : r[i] # s[j]
  BY <1>1 DEF Range
<1>5. ASSUME NEW x \in Range(t) PROVE x \in Range(r) \cup Range(s)
  <2>1. PICK j \in 1 .. Len(r) + Len(s) : t[j] = x
    BY <1>3 DEF Range
  <2>2. CASE j <= Len(r)
    BY <1>1, <1>2, <2>1, <2>2, SMTT(30) DEF Range
  <2>3. CASE j > Len(r)
    <3>1. j - Len(r) \in DOMAIN s /\ s[j - Len(r)] = x
      BY <1>1, <1>2, <2>1, <2>3
    <3> QED BY <3>1 DEF Range
  <2> QED BY <1>1, <2>2, <2>3
<1>6. ASSUME NEW x \in Range(r) \cup Range(s) PROVE x \in Range(t)
  <2>1. CASE x \in Range(r)
    <3>1. PICK j \in 1 .. Len(r) : r[j] = x
      BY <1>1, <2>1 DEF Range
    <3>2. j \in DOMAIN t /\ t[j] = x
      BY <1>1, <1>2, <1>3, <3>1
    <3> QED BY <3>2 DEF Range
  <2>2. CASE x \in Range(s)
    <3>1. PICK j \in 1 .. Len(s) : s[j] = x
      BY <1>1, <2>2 DEF Range
    <3>2. Len(r) + j \in DOMAIN t /\ t[Len(r) + j] = x
      BY <1>1, <1>2, <1>3, <3>1
    <3> QED BY <3>2 DEF Range
  <2> QED BY <2>1, <2>2
<1>7. IsInjective(t)
  <2> SUFFICES ASSUME NEW i \in DOMAIN t, NEW j \in DOMAIN t, t[i] = t[j] PROVE i = j
    BY DEF IsInjective
  <2>1. \A a \in 1 .. Len(r), d \in 1 .. Len(r) : r[a] = r[d] => a = d
    BY <1>1 DEF IsInjective
  <2>2. \A a \in 1 .. Len(s), d \in 1 .. Len(s) : s[a] = s[d] => a = d
    BY <1>1 DEF IsInjective
  <2>3. CASE i <= Len(r) /\ j <= Len(r)
    BY <1>1, <1>2, <1>3, <2>1, <2>3
  <2>4. CASE i > Len(r) /\ j > Len(r)
    <3>1. i - Len(r) \in 1 .. Len(s) /\ j - Len(r) \in 1 .. Len(s)
          /\ s[i - Len(r)] = s[j - Len(r)]
      <4>1. i \in 1 .. Len(r) + Len(s) /\ j \in 1 .. Len(r) + Len(s)
        BY <1>3
      <4>2. t[i] = s[i - Len(r)] /\ t[j] = s[j - Len(r)]
        BY <1>1, <1>2, <2>4, <4>1
      <4>3. i - Len(r) \in 1 .. Len(s) /\ j - Len(r) \in 1 .. Len(s)
        BY <1>1, <2>4, <4>1
      <4>4. s[i - Len(r)] = s[j - Len(r)]
        BY <4>2
      <4> QED BY <4>3, <4>4
    <3>2. i - Len(r) = j - Len(r)
      BY <2>2, <3>1
    <3> QED BY <1>1, <1>3, <3>2
  <2>5. CASE i <= Len(r) /\ j > Len(r)
    <3>1. r[i] = s[j - Len(r)] /\ i \in 1 .. Len(r) /\ j - Len(r) \in 1 .. Len(s)
      BY <1>1, <1>2, <1>3, <2>5
    <3> QED BY <1>4, <3>1
  <2>6. CASE i > Len(r) /\ j <= Len(r)
    <3>1. r[j] = s[i - Len(r)] /\ j \in 1 .. Len(r) /\ i - Len(r) \in 1 .. Len(s)
      BY <1>1, <1>2, <1>3, <2>6
    <3> QED BY <1>4, <3>1
  <2> QED BY <1>1, <1>3, <2>3, <2>4, <2>5, <2>6
<1> QED BY <1>2, <1>5, <1>6, <1>7 DEF t

\* The chunks of a page, in the order they get into the free list.
LEMMA PageList ==
  ASSUME NEW p \in 1 .. NPages, NEW id \in Class
  PROVE  LET n == Perslab[id]
             r == [j \in 1 .. n |-> Page(p)[n + 1 - j]]
         IN  /\ n \in 1 .. 2 /\ r \in Seq(Chunk) /\ IsInjective(r) /\ Range(r) = Used(p, id)
             /\ Used(p, id) \subseteq Range(Page(p)) /\ Range(Page(p)) \subseteq Chunk
             /\ \A q \in 1 .. NPages : p # q => Range(Page(p)) \cap Range(Page(q)) = {}
<1> DEFINE n == Perslab[id]
           r == [j \in 1 .. n |-> Page(p)[n + 1 - j]]
<1>1. Perslab \in Seq(1 .. MaxPer) /\ NPages \in Nat
  BY StoreAssumption
<1>2. n \in 1 .. 2
  BY <1>1, ElementOfSeq DEF Class, MaxPer
<1>3. \A q \in 1 .. NPages : DOMAIN Page(q) = 1 .. 2 /\ \A j \in 1 .. 2 : Page(q)[j] = (q - 1) * 2 + j
  BY DEF Page, MaxPer
<1>4. \A q \in 1 .. NPages : Range(Page(q)) = {(q - 1) * 2 + 1, (q - 1) * 2 + 2}
  <2> TAKE q \in 1 .. NPages
  <2>1. Range(Page(q)) = {Page(q)[1], Page(q)[2]}
    BY <1>3 DEF Range
  <2> QED BY <1>3, <2>1
<1>5. DOMAIN r = 1 .. n /\ \A j \in 1 .. n : r[j] = (p - 1) * 2 + n + 1 - j
  BY <1>2, <1>3
<1>6. \A j \in 1 .. n : r[j] \in Chunk
  <2>1. \A j \in 1 .. n : (p - 1) * 2 + n + 1 - j \in 1 .. NPages * 2
    BY <1>1, <1>2
  <2> QED BY <1>5, <2>1 DEF Chunk, MaxPer
<1>7. r \in Seq(Chunk)
  <2>1. r \in [1 .. n -> Chunk]
    BY <1>6
  <2>2. n \in Nat
    BY <1>2
  <2> HIDE DEF r, n
  <2> QED BY <2>1, <2>2, SeqDef
<1> HIDE DEF r
<1>8. IsInjective(r)
  BY <1>2, <1>5 DEF IsInjective
<1>9. Range(r) = Used(p, id)
  <2>1. ASSUME NEW c \in Range(r) PROVE c \in Used(p, id)
    <3>1. PICK j \in 1 .. n : r[j] = c
      BY <1>5 DEF Range
    <3>2. n + 1 - j \in 1 .. n /\ Page(p)[n + 1 - j] = c
      BY <1>2, <3>1 DEF r
    <3> QED BY <3>2 DEF Used
  <2>2. ASSUME NEW c \in Used(p, id) PROVE c \in Range(r)
    <3>1. PICK j \in 1 .. n : Page(p)[j] = c
      BY DEF Used
    <3>2. n + 1 - j \in DOMAIN r /\ r[n + 1 - j] = c
      BY <1>2, <1>3, <1>5, <3>1
    <3> QED BY <3>2 DEF Range
  <2> QED BY <2>1, <2>2
<1>10. Used(p, id) \subseteq Range(Page(p))
  BY <1>2, <1>3 DEF Used, Range
<1>11. Range(Page(p)) \subseteq Chunk
  BY <1>1, <1>4 DEF Chunk, MaxPer
<1>12. \A q \in 1 .. NPages : p # q => Range(Page(p)) \cap Range(Page(q)) = {}
  BY <1>1, <1>4
<1> QED BY <1>2, <1>7, <1>8, <1>9, <1>10, <1>11, <1>12 DEF r


\* From m to n, page p becomes free chunks of class g; no chunk of it is in use.
PageGiven(m, n, g, p) ==
  /\ p \notin Range(m.pages[g]) /\ IsInjective(n.pages[g])
  /\ Range(n.pages[g]) = Range(m.pages[g]) \cup {p}
  /\ \A id \in Class : id # g => /\ IsInjective(n.pages[id]) /\ n.slots[id] = m.slots[id]
                                 /\ Range(n.pages[id]) = Range(m.pages[id]) \ {p}
  /\ m.malloced <= n.malloced /\ p <= n.malloced
  /\ \A c \in Range(Page(p)) :
       /\ m.heap[c].ref = 0 /\ \A id \in Class : c \notin Range(m.slots[id])
       /\ n.heap[c].ref = 0 /\ n.heap[c].cls = 0 /\ ~IsLinked(n, c)
  /\ \A c \in Used(p, g) : "SLABBED" \in n.heap[c].fl
  /\ \A c \in Chunk : c \notin Range(Page(p)) => n.heap[c] = m.heap[c]
  /\ n.slots[g] = [j \in 1 .. Perslab[g] |-> Page(p)[Perslab[g] + 1 - j]] \o m.slots[g]
  /\ n.lru = m.lru /\ n.tab = m.tab /\ n.items = m.items

\* A fresh page (do_slabs_newslab) or a moved one (slab_rebalance_finish): when
\* nothing on it is in use, its chunks join the free list of the class that gets it.
LEMMA GivePage ==
  ASSUME NEW m, NEW n \in Memory, NEW R \in Refs, NEW g \in Class, NEW p \in 1 .. NPages,
         StoreOK(m, R, NULL), PageGiven(m, n, g, p)
  PROVE  StoreOK(n, R, NULL)
<1> DEFINE P == Range(Page(p))
           U == Used(p, g)
<1>1. m \in Memory /\ R \in Refs /\ \A c \in Chunk : m.heap[c] \in Item /\ R[c] \in Nat
  BY DEF StoreOK, Refs, Memory
<1>2. U \subseteq P /\ P \subseteq Chunk
  BY PageList
<1>3. \A c \in Chunk : IsLinked(n, c) <=> IsLinked(m, c)
  <2> SUFFICES ASSUME NEW c \in Chunk PROVE IsLinked(n, c) <=> IsLinked(m, c)
    OBVIOUS
  <2>1. CASE c \in P
    <3>1. m.heap[c].ref = 0 /\ ~IsLinked(n, c)
      BY <2>1 DEF PageGiven
    <3>2. m.heap[c].ref = (IF IsLinked(m, c) THEN 1 ELSE 0) + R[c]
      BY DEF StoreOK, Counted
    <3> QED BY <1>1, <3>1, <3>2
  <2>2. CASE c \notin P
    BY <2>2 DEF PageGiven, IsLinked
  <2> QED BY <2>1, <2>2
<1>4. \A id \in Class : Range(m.pages[id]) \subseteq 1 .. NPages /\ Range(n.pages[id]) \subseteq 1 .. NPages
  <2>1. \A id \in Class : m.pages[id] \in Seq(1 .. NPages) /\ n.pages[id] \in Seq(1 .. NPages)
    BY <1>1 DEF Memory
  <2> QED BY <2>1, ElementsOf
<1>5. \A id \in Class, q \in 1 .. NPages : q # p => Used(q, id) \cap P = {}
  BY PageList
<1>6. ASSUME NEW id \in Class, NEW c \in Chunk, c \notin P
      PROVE  c \in Home(n, id) <=> c \in Home(m, id)
  <2>1. Range(n.pages[id]) \ {p} = Range(m.pages[id]) \ {p}
    BY DEF PageGiven
  <2>2. \A q \in {p} : c \notin Used(q, id)
    BY <1>6, PageList
  <2> QED BY <2>1, <2>2 DEF Home
<1>7. ASSUME NEW id \in Class, NEW c \in P, c \in Home(n, id)
      PROVE  id = g /\ c \in U
  <2>1. PICK q \in Range(n.pages[id]) : c \in Used(q, id)
    BY <1>7 DEF Home
  <2>2. q = p
    BY <1>4, <1>5, <1>7, <2>1
  <2>3. id # g => p \notin Range(n.pages[id])
    BY DEF PageGiven
  <2> QED BY <2>1, <2>2, <2>3
<1>8. \A c \in U : c \in Home(n, g)
  BY DEF PageGiven, Home
<1>9. /\ n.slots[g] \in Seq(Chunk) /\ IsInjective(n.slots[g])
      /\ Range(n.slots[g]) = U \cup Range(m.slots[g])
  <2> DEFINE r == [j \in 1 .. Perslab[g] |-> Page(p)[Perslab[g] + 1 - j]]
  <2>1. r \in Seq(Chunk) /\ IsInjective(r) /\ Range(r) = U
    BY PageList
  <2>2. m.slots[g] \in Seq(Chunk) /\ IsInjective(m.slots[g])
    BY <1>1 DEF Memory, StoreOK, SlotsOK
  <2>3. U \cap Range(m.slots[g]) = {}
    BY <1>2 DEF PageGiven
  <2>4. n.slots[g] = r \o m.slots[g]
    BY DEF PageGiven
  <2> HIDE DEF r, U
  <2> QED BY <2>1, <2>2, <2>3, <2>4, JoinLists
<1>10. Counted(n, R)
  <2> SUFFICES ASSUME NEW c \in Chunk
               PROVE  n.heap[c].ref = (IF IsLinked(n, c) THEN 1 ELSE 0) + R[c]
    BY DEF Counted
  <2>1. m.heap[c].ref = (IF IsLinked(m, c) THEN 1 ELSE 0) + R[c]
    BY DEF StoreOK, Counted
  <2>2. n.heap[c].ref = m.heap[c].ref
    BY DEF PageGiven
  <2> QED BY <1>3, <2>1, <2>2
<1>11. SlotsOK(n, NULL)
  <2> SUFFICES ASSUME NEW id \in Class
               PROVE  /\ IsInjective(n.slots[id])
                      /\ \A c \in Range(n.slots[id]) :
                           /\ c # NULL /\ n.heap[c].ref = 0 /\ n.heap[c].cls = 0
                           /\ "SLABBED" \in n.heap[c].fl /\ c \in Home(n, id)
    BY DEF SlotsOK
  <2>1. SlotsOK(m, NULL)
    BY DEF StoreOK
  <2>2. Range(m.slots[id]) \subseteq Chunk
    <3>1. m.slots[id] \in Seq(Chunk)
      BY <1>1 DEF Memory
    <3> QED BY <3>1, ElementsOf
  <2>3. ASSUME NEW c \in Range(m.slots[id])
        PROVE  /\ c # NULL /\ n.heap[c].ref = 0 /\ n.heap[c].cls = 0
               /\ "SLABBED" \in n.heap[c].fl /\ c \in Home(n, id)
    <3>1. c \notin P /\ c \in Chunk
      BY <2>2 DEF PageGiven
    <3>2. n.heap[c] = m.heap[c]
      BY <3>1 DEF PageGiven
    <3> QED BY <1>6, <2>1, <3>1, <3>2 DEF SlotsOK
  <2>4. CASE id = g
    <3>1. ASSUME NEW c \in U
          PROVE  /\ c # NULL /\ n.heap[c].ref = 0 /\ n.heap[c].cls = 0
                 /\ "SLABBED" \in n.heap[c].fl /\ c \in Home(n, id)
      <4>1. c # NULL
        BY <1>2, Bounds
      <4> QED BY <1>2, <1>8, <2>4, <4>1 DEF PageGiven
    <3> QED BY <1>9, <2>3, <2>4, <3>1
  <2>5. CASE id # g
    <3>1. n.slots[id] = m.slots[id]
      BY <2>5 DEF PageGiven
    <3> QED BY <2>1, <2>3, <3>1 DEF SlotsOK
  <2> QED BY <2>4, <2>5
<1>12. \A c \in Chunk : IsLinked(m, c) => n.heap[c] = m.heap[c]
  <2>1. \A c \in P : ~IsLinked(m, c)
    BY <1>2, <1>3 DEF PageGiven
  <2> QED BY <2>1 DEF PageGiven
<1>13. LruOK(n)
  <2>1. n.lru = m.lru /\ LruOK(m)
    BY DEF PageGiven, StoreOK
  <2>2. \A c \in Chunk, id \in Class :
          IsLinked(n, c) /\ n.heap[c].cls = id <=> IsLinked(m, c) /\ m.heap[c].cls = id
    BY <1>3, <1>12
  <2> QED BY <2>1, <2>2 DEF LruOK
<1>14. TabOK(n)
  <2>1. n.tab = m.tab /\ TabOK(m)
    BY DEF PageGiven, StoreOK
  <2>2. \A c \in Chunk : IsLinked(m, c) => n.heap[c].key = m.heap[c].key
    BY <1>12
  <2> QED BY <1>3, <2>1, <2>2 DEF TabOK
<1>15. HomeOK(n)
  <2> SUFFICES ASSUME NEW c \in Chunk
               PROVE  /\ n.heap[c].ref > 0 => n.heap[c].cls \in Class /\ c \in Home(n, n.heap[c].cls)
                      /\ n.heap[c].cls = 255 \/ "SLABBED" \in n.heap[c].fl => n.heap[c].ref = 0
                      /\ n.heap[c].cls # 0 => \E id \in Class : c \in Home(n, id)
    BY DEF HomeOK
  <2>1. HomeOK(m)
    BY DEF StoreOK
  <2>2. CASE c \in P
    BY <2>2 DEF PageGiven
  <2>3. CASE c \notin P
    <3>1. n.heap[c] = m.heap[c]
      BY <2>3 DEF PageGiven
    <3> QED BY <1>6, <2>1, <2>3, <3>1 DEF HomeOK
  <2> QED BY <2>2, <2>3
<1>16. NoneLost(n, NULL)
  <2> SUFFICES ASSUME NEW id \in Class, NEW c \in Home(n, id), n.heap[c].ref = 0
               PROVE  c \in Range(n.slots[id]) \/ n.heap[c].cls = 255
    BY DEF NoneLost
  <2>1. c \in Chunk
    BY HomeChunks
  <2>2. CASE c \in P
    BY <1>7, <1>9, <2>2
  <2>3. CASE c \notin P
    <3>1. n.heap[c] = m.heap[c] /\ c \in Home(m, id) /\ c # NULL
      BY <1>6, <2>1, <2>3, Bounds DEF PageGiven
    <3>2. c \in Range(m.slots[id]) \/ m.heap[c].cls = 255
      BY <3>1 DEF StoreOK, NoneLost
    <3>3. Range(m.slots[id]) \subseteq Range(n.slots[id])
      BY <1>9 DEF PageGiven
    <3> QED BY <3>1, <3>2, <3>3
  <2> QED BY <2>2, <2>3
<1>17. PagesOK(n)
  <2>1. PagesOK(m) /\ m.malloced \in Nat /\ n.malloced \in Nat
    BY <1>1, Bounds DEF StoreOK, Memory
  <2>2. \A id \in Class : IsInjective(n.pages[id])
    BY DEF PageGiven
  <2>3. \A id \in Class : Range(n.pages[id]) \subseteq Range(m.pages[id]) \cup {p}
                          /\ (id # g => p \notin Range(n.pages[id]))
    BY DEF PageGiven
  <2>4. \A id \in Class : Range(n.pages[id]) \subseteq 1 .. n.malloced
    <3> SUFFICES ASSUME NEW id \in Class, NEW q \in Range(n.pages[id]) PROVE q \in 1 .. n.malloced
      OBVIOUS
    <3>1. CASE q = p
      BY <2>1, <3>1 DEF PageGiven
    <3>2. CASE q # p
      <4>1. q \in 1 .. m.malloced
        BY <2>1, <2>3, <3>2 DEF PagesOK
      <4> QED BY <2>1, <4>1 DEF PageGiven
    <3> QED BY <3>1, <3>2
  <2>5. \A a, b \in Class : a # b => Range(n.pages[a]) \cap Range(n.pages[b]) = {}
    <3> SUFFICES ASSUME NEW a \in Class, NEW b \in Class, a # b, NEW q,
                        q \in Range(n.pages[a]), q \in Range(n.pages[b])
                 PROVE  FALSE
      OBVIOUS
    <3>1. q # p
      BY <2>3
    <3>2. q \in Range(m.pages[a]) /\ q \in Range(m.pages[b])
      BY <2>3, <3>1
    <3> QED BY <2>1, <3>2 DEF PagesOK
  <2> QED BY <2>2, <2>4, <2>5 DEF PagesOK
<1>18. ItemsOK(n)
  <2>1. Linked(n) = Linked(m)
    BY <1>3 DEF Linked
  <2> QED BY <2>1 DEF ItemsOK, StoreOK, PageGiven
<1> QED BY <1>10, <1>11, <1>13, <1>14, <1>15, <1>16, <1>17, <1>18 DEF StoreOK


\* Headers stay but for the mark of a free chunk.
Marked(m, n) ==
  \A d \in Chunk : /\ Same(m, n, d) /\ n.heap[d].ref = m.heap[d].ref
                   /\ n.heap[d].cls = m.heap[d].cls

\* do_slabs_newslab: a fresh page for the class, or nothing.
LEMMA NewslabStep ==
  ASSUME NEW m, NEW R \in Refs, NEW id \in Class, StoreOK(m, R, NULL)
  PROVE  LET n == do_slabs_newslab(m, id)
         IN  StoreOK(n, R, NULL) /\ Calm(m, n) /\ n.casid = m.casid /\ Marked(m, n)
<1> DEFINE n == do_slabs_newslab(m, id)
           p == m.malloced + 1
           q == Append(m.pages[id], p)
           m2 == [m EXCEPT !.malloced = p, !.pages[id] = q]
           h == [c \in Chunk |-> IF c \in Used(p, id)
                   THEN [m.heap[c] EXCEPT !.fl = @ \cup {"SLABBED"}] ELSE m.heap[c]]
           r == [j \in 1 .. Perslab[id] |-> Page(p)[Perslab[id] + 1 - j]]
           s == r \o m.slots[id]
           u == [m2 EXCEPT !.heap = h, !.slots[id] = s]
<1>1. CASE (m.malloced >= conf.limit /\ Len(m.pages[id]) > 0) \/ m.malloced >= NPages
  <2>1. n = m
    BY <1>1 DEF do_slabs_newslab
  <2> QED BY <2>1 DEF Calm, Same, Marked
<1>2. CASE ~((m.malloced >= conf.limit /\ Len(m.pages[id]) > 0) \/ m.malloced >= NPages)
  <2>1. m \in Memory /\ m.malloced \in Nat /\ p \in 1 .. NPages /\ m.pages[id] \in Seq(1 .. NPages)
        /\ m.slots[id] \in Seq(Chunk) /\ \A c \in Chunk : m.heap[c] \in Item
    <3>1. m \in Memory
      BY DEF StoreOK
    <3>2. m.malloced \in 0 .. NPages /\ NPages \in Nat
      BY <3>1, Bounds DEF Memory
    <3>3. p \in 1 .. NPages /\ m.malloced \in Nat
      BY <1>2, <3>2
    <3>4. m.pages[id] \in Seq(1 .. NPages) /\ m.slots[id] \in Seq(Chunk)
          /\ \A c \in Chunk : m.heap[c] \in Item
      BY <3>1 DEF Memory
    <3> QED BY <3>1, <3>3, <3>4
  <2>2. Range(m.pages[id]) \subseteq 1 .. m.malloced /\ IsInjective(m.pages[id])
    BY DEF StoreOK, PagesOK
  <2>3. \A a \in Class : p \notin Range(m.pages[a])
    BY <2>1 DEF StoreOK, PagesOK
  <2>4. /\ q \in Seq(1 .. NPages) /\ Range(q) = Range(m.pages[id]) \cup {p} /\ IsInjective(q)
        /\ \A j \in DOMAIN m.pages[id] : j \in DOMAIN q /\ q[j] = m.pages[id][j]
    <3>1. p \notin Range(m.pages[id])
      BY <2>3
    <3>2. \A j \in DOMAIN m.pages[id] : j \in DOMAIN q /\ q[j] = m.pages[id][j]
      <4>1. DOMAIN m.pages[id] = 1 .. Len(m.pages[id]) /\ Len(m.pages[id]) \in Nat
        BY <2>1, LenProperties
      <4>2. q \in Seq(1 .. NPages) /\ Len(q) = Len(m.pages[id]) + 1
        BY <2>1
      <4>3. DOMAIN q = 1 .. Len(m.pages[id]) + 1
        BY <4>2, LenProperties
      <4> QED BY <2>1, <4>1, <4>3
    <3> HIDE DEF p
    <3>3. p \in 1 .. NPages /\ m.pages[id] \in Seq(1 .. NPages) /\ IsInjective(m.pages[id])
      BY <2>1, <2>2
    <3>4. q \in Seq(1 .. NPages) /\ Range(q) = Range(m.pages[id]) \cup {p} /\ IsInjective(q)
      <4> DEFINE w == m.pages[id]
                 A == 1 .. NPages
      <4>1. p \notin Range(w) /\ p \in A /\ w \in Seq(A) /\ IsInjective(w)
        BY <3>1, <3>3
      <4> HIDE DEF w, A
      <4>2. /\ Append(w, p) \in Seq(A) /\ Range(Append(w, p)) = Range(w) \cup {p}
            /\ IsInjective(Append(w, p))
        BY ONLY <4>1, BackList
      <4> QED BY <4>2 DEF w, A
    <3> QED BY <3>2, <3>4
  <2> HIDE DEF p
  <2>5. r \in Seq(Chunk) /\ Used(p, id) \subseteq Range(Page(p)) /\ Range(Page(p)) \subseteq Chunk
        /\ \A a \in 1 .. NPages : a # p => Range(Page(p)) \cap Range(Page(a)) = {}
    BY <2>1, PageList
  <2>6. s \in Seq(Chunk)
    <3> HIDE DEF r
    <3> QED BY <2>1, <2>5, ConcatProperties
  <2>7. h \in [Chunk -> Item] /\ \A c \in Chunk :
          /\ h[c] \in Item /\ h[c].key = m.heap[c].key /\ h[c].val = m.heap[c].val
          /\ h[c].cls = m.heap[c].cls /\ h[c].ref = m.heap[c].ref
          /\ "LINKED" \in h[c].fl <=> "LINKED" \in m.heap[c].fl
          /\ c \in Used(p, id) => "SLABBED" \in h[c].fl
          /\ c \notin Used(p, id) => h[c] = m.heap[c]
    <3>1. \A x \in Item : LET y == [x EXCEPT !.fl = @ \cup {"SLABBED"}]
            IN  /\ y \in Item /\ y.key = x.key /\ y.val = x.val /\ y.cls = x.cls /\ y.ref = x.ref
                /\ "LINKED" \in y.fl <=> "LINKED" \in x.fl
                /\ "SLABBED" \in y.fl
      BY DEF Item, Flags
    <3>2. ASSUME NEW c \in Chunk
          PROVE  /\ h[c] \in Item /\ h[c].key = m.heap[c].key /\ h[c].val = m.heap[c].val
                 /\ h[c].cls = m.heap[c].cls /\ h[c].ref = m.heap[c].ref
                 /\ "LINKED" \in h[c].fl <=> "LINKED" \in m.heap[c].fl
                 /\ c \in Used(p, id) => "SLABBED" \in h[c].fl
                 /\ c \notin Used(p, id) => h[c] = m.heap[c]
      BY <2>1, <3>1
    <3> QED BY <3>2
  <2> HIDE DEF h, r, s, q
  <2>8. /\ m2 \in Memory /\ m2.pages[id] = q /\ m2.malloced = p /\ m2.heap = m.heap
        /\ m2.slots = m.slots /\ m2.lru = m.lru /\ m2.tab = m.tab /\ m2.items = m.items
        /\ m2.casid = m.casid
        /\ \A a \in Class : a # id => m2.pages[a] = m.pages[a]
    <3>1. p \in 0 .. NPages
      BY <2>1, Bounds
    <3> QED BY <2>1, <2>4, <3>1 DEF Memory
  <2> HIDE DEF m2
  <2>9. /\ u \in Memory /\ u.pages = m2.pages /\ u.malloced = p /\ u.heap = h
        /\ u.lru = m.lru /\ u.tab = m.tab /\ u.items = m.items
        /\ u.casid = m.casid /\ u.slots[id] = s
        /\ \A a \in Class : a # id => u.slots[a] = m.slots[a]
    BY <2>6, <2>7, <2>8 DEF Memory
  <2>10. n = u
    <3>1. n = split_slab_page_into_freelist(m2, p, id)
      BY <1>2 DEF do_slabs_newslab, m2, q, p
    <3>2. u = [m2 EXCEPT !.heap = h, !.slots[id] = r \o @]
      BY <2>8 DEF s
    <3> QED BY <2>8, <3>1, <3>2 DEF split_slab_page_into_freelist, h, r
  <2> HIDE DEF u, n
  <2>11. \A a \in Class : \A c \in Range(Page(p)) : c \notin Home(m, a)
    <3> SUFFICES ASSUME NEW a \in Class, NEW c \in Range(Page(p)), c \in Home(m, a) PROVE FALSE
      OBVIOUS
    <3>1. PICK b \in Range(m.pages[a]) : c \in Used(b, a)
      BY DEF Home
    <3>2. b \in 1 .. NPages /\ b # p
      <4>1. m.pages[a] \in Seq(1 .. NPages)
        BY <2>1 DEF Memory
      <4> QED BY <2>3, <4>1, ElementsOf
    <3>3. c \in Range(Page(b))
      BY <3>1, <3>2, PageList
    <3> QED BY <2>5, <3>2, <3>3
  <2>12. \A c \in Range(Page(p)) : /\ m.heap[c].ref = 0 /\ m.heap[c].cls = 0 /\ ~IsLinked(m, c)
                                   /\ \A a \in Class : c \notin Range(m.slots[a])
    <3> SUFFICES ASSUME NEW c \in Range(Page(p))
                 PROVE  /\ m.heap[c].ref = 0 /\ m.heap[c].cls = 0 /\ ~IsLinked(m, c)
                        /\ \A a \in Class : c \notin Range(m.slots[a])
      OBVIOUS
    <3>1. c \in Chunk /\ m.heap[c].ref \in Nat /\ R[c] \in Nat
      BY <2>1, <2>5 DEF Item, Refs
    <3>2. m.heap[c].ref = 0 /\ m.heap[c].cls = 0
      BY <2>11, <3>1 DEF StoreOK, HomeOK
    <3>3. m.heap[c].ref = (IF IsLinked(m, c) THEN 1 ELSE 0) + R[c]
      BY <3>1 DEF StoreOK, Counted
    <3>4. \A a \in Class : c \notin Range(m.slots[a])
      BY <2>11 DEF StoreOK, SlotsOK
    <3> QED BY <3>1, <3>2, <3>3, <3>4
  <2>13. PageGiven(m, u, id, p)
    <3>1. /\ p \notin Range(m.pages[id]) /\ IsInjective(u.pages[id])
          /\ Range(u.pages[id]) = Range(m.pages[id]) \cup {p}
      BY <2>3, <2>4, <2>8, <2>9
    <3>2. \A a \in Class : a # id => /\ IsInjective(u.pages[a]) /\ u.slots[a] = m.slots[a]
                                     /\ Range(u.pages[a]) = Range(m.pages[a]) \ {p}
      BY <2>3, <2>8, <2>9 DEF StoreOK, PagesOK
    <3>3. m.malloced <= u.malloced /\ p <= u.malloced
      BY <2>1, <2>9 DEF p
    <3>4. \A c \in Range(Page(p)) :
            /\ m.heap[c].ref = 0 /\ \A a \in Class : c \notin Range(m.slots[a])
            /\ u.heap[c].ref = 0 /\ u.heap[c].cls = 0 /\ ~IsLinked(u, c)
      BY <2>5, <2>7, <2>9, <2>12 DEF IsLinked
    <3>5. \A c \in Used(p, id) : "SLABBED" \in u.heap[c].fl
      BY <2>5, <2>7, <2>9
    <3>6. \A c \in Chunk : c \notin Range(Page(p)) => u.heap[c] = m.heap[c]
      BY <2>5, <2>7, <2>9
    <3>7. u.slots[id] = [j \in 1 .. Perslab[id] |-> Page(p)[Perslab[id] + 1 - j]] \o m.slots[id]
      BY <2>9 DEF s, r
    <3>8. u.lru = m.lru /\ u.tab = m.tab /\ u.items = m.items
      BY <2>9
    <3> QED BY <3>1, <3>2, <3>3, <3>4, <3>5, <3>6, <3>7, <3>8 DEF PageGiven
  <2>14. StoreOK(u, R, NULL)
    BY <2>1, <2>9, <2>13, GivePage
  <2>15. Calm(m, u)
    BY <2>4, <2>7, <2>8, <2>9 DEF Calm
  <2>16. Marked(m, u)
    BY <2>7, <2>9 DEF Marked, Same, IsLinked
  <2> QED BY <2>9, <2>10, <2>14, <2>15, <2>16 DEF n
<1> QED BY <1>1, <1>2

\* do_slabs_alloc: a loose chunk of the class, or NULL.
LEMMA SlabsAllocStep ==
  ASSUME NEW m, NEW R \in Refs, NEW id \in Class, StoreOK(m, R, NULL)
  PROVE  LET s == do_slabs_alloc(m, id)
         IN  /\ StoreOK(s.m, R, s.it) /\ Calm(m, s.m) /\ s.m.casid = m.casid /\ Marked(m, s.m)
             /\ s.it # NULL => /\ s.it \in Chunk /\ s.it \in Home(s.m, id) /\ R[s.it] = 0
                               /\ s.m.heap[s.it].ref = 0 /\ s.m.heap[s.it].cls = 0
                               /\ ~IsLinked(m, s.it)
<1> DEFINE n == IF m.slots[id] = <<>> THEN do_slabs_newslab(m, id) ELSE m
           s == do_slabs_alloc(m, id)
<1>1. StoreOK(n, R, NULL) /\ Calm(m, n) /\ n.casid = m.casid /\ Marked(m, n)
  <2>1. CASE m.slots[id] = <<>>
    BY <2>1, NewslabStep
  <2>2. CASE m.slots[id] # <<>>
    BY <2>2 DEF Calm, Marked, Same
  <2> QED BY <2>1, <2>2
<1>2. s = IF n.slots[id] = <<>> THEN [m |-> n, it |-> NULL]
          ELSE [m |-> [n EXCEPT !.slots[id] = Tail(@)], it |-> Head(n.slots[id])]
  BY DEF do_slabs_alloc
<1> HIDE DEF n, s
<1>3. CASE n.slots[id] = <<>>
  <2>1. s.m = n /\ s.it = NULL
    BY <1>2, <1>3
  <2> QED BY <1>1, <2>1 DEF s
<1>4. CASE n.slots[id] # <<>>
  <2> DEFINE c == Head(n.slots[id])
             t == Tail(n.slots[id])
             u == [n EXCEPT !.slots[id] = t]
  <2>1. n \in Memory /\ n.slots[id] \in Seq(Chunk) /\ IsInjective(n.slots[id])
    BY <1>1 DEF StoreOK, Memory, SlotsOK
  <2>2. /\ c \in Range(n.slots[id]) /\ c \in Chunk /\ t \in Seq(Chunk) /\ IsInjective(t)
        /\ Range(t) = Range(n.slots[id]) \ {c}
    BY <1>4, <2>1, TailList
  <2>3. s.m = u /\ s.it = c
    BY <1>2, <1>4
  <2> HIDE DEF c, t
  <2>4. /\ u \in Memory /\ u.heap = n.heap /\ u.lru = n.lru /\ u.pages = n.pages /\ u.tab = n.tab
        /\ u.malloced = n.malloced /\ u.items = n.items /\ u.casid = n.casid /\ u.slots[id] = t
        /\ \A a \in Class : a # id => u.slots[a] = n.slots[a]
    BY <2>1, <2>2 DEF Memory
  <2> HIDE DEF u
  <2>5. \A a \in Class : Home(u, a) = Home(n, a)
    BY <2>4 DEF Home
  <2>6. n.heap[c].ref = 0 /\ n.heap[c].cls = 0 /\ c \in Home(n, id)
    BY <1>1, <2>2 DEF StoreOK, SlotsOK
  <2>7. R[c] = 0 /\ ~IsLinked(m, c)
    <3>1. n.heap[c].ref = (IF IsLinked(n, c) THEN 1 ELSE 0) + R[c] /\ R[c] \in Nat
      BY <1>1, <2>2 DEF StoreOK, Counted, Refs
    <3>2. R[c] = 0 /\ ~IsLinked(n, c)
      BY <2>6, <3>1
    <3> QED BY <1>1, <2>2, <3>2 DEF Marked, Same
  <2>8. \A a \in Class : a # id => c \notin Range(n.slots[a])
    BY <1>1, <2>1, <2>6, HomeChunks DEF StoreOK, SlotsOK
  <2>9. StoreOK(u, R, c)
    <3>1. Counted(u, R)
      BY <1>1, <2>4 DEF StoreOK, Counted, IsLinked
    <3>2. SlotsOK(u, c)
      <4> SUFFICES ASSUME NEW a \in Class
                   PROVE  /\ IsInjective(u.slots[a])
                          /\ \A d \in Range(u.slots[a]) :
                               /\ d # c /\ u.heap[d].ref = 0 /\ u.heap[d].cls = 0
                               /\ "SLABBED" \in u.heap[d].fl /\ d \in Home(u, a)
        BY DEF SlotsOK
      <4>1. IsInjective(u.slots[a]) /\ Range(u.slots[a]) = Range(n.slots[a]) \ {c}
        BY <1>1, <2>2, <2>4, <2>8 DEF StoreOK, SlotsOK
      <4> QED BY <1>1, <2>4, <2>5, <4>1 DEF StoreOK, SlotsOK
    <3>3. LruOK(u) /\ TabOK(u)
      BY <1>1, <2>4 DEF StoreOK, LruOK, TabOK, IsLinked
    <3>4. HomeOK(u)
      BY <1>1, <2>4, <2>5 DEF StoreOK, HomeOK
    <3>5. NoneLost(u, c)
      <4> SUFFICES ASSUME NEW a \in Class, NEW d \in Home(u, a), u.heap[d].ref = 0, d # c
                   PROVE  d \in Range(u.slots[a]) \/ u.heap[d].cls = 255
        BY DEF NoneLost
      <4>1. d # NULL /\ d \in Home(n, a) /\ n.heap[d].ref = 0
        <5>1. d \in Chunk
          BY <2>4, HomeChunks
        <5> QED BY <2>4, <2>5, <5>1, Bounds
      <4>2. d \in Range(n.slots[a]) \/ n.heap[d].cls = 255
        BY <1>1, <4>1 DEF StoreOK, NoneLost
      <4> QED BY <2>2, <2>4, <4>2
    <3>6. PagesOK(u) /\ ItemsOK(u)
      BY <1>1, <2>4 DEF StoreOK, PagesOK, ItemsOK, Linked, IsLinked
    <3> QED BY <2>4, <3>1, <3>2, <3>3, <3>4, <3>5, <3>6 DEF StoreOK
  <2>10. Calm(m, u) /\ u.casid = m.casid /\ Marked(m, u)
    BY <1>1, <2>4 DEF Calm, Marked, Same, IsLinked
  <2>11. c \in Home(u, id) /\ u.heap[c].ref = 0 /\ u.heap[c].cls = 0
    BY <2>4, <2>5, <2>6
  <2> QED BY <2>2, <2>3, <2>7, <2>9, <2>10, <2>11 DEF s
<1> QED BY <1>3, <1>4 DEF s


----------------------------------------------------------------------------
(* do_item_alloc.                                                          *)

\* A set of numbers has a least one.
LEMMA LeastOne ==
  ASSUME NEW T, T \subseteq Nat, T # {}
  PROVE  \E x \in T : \A y \in T : x <= y
<1> DEFINE less == OpToRel(<, Nat)
<1>1. IsWellFoundedOn(less, Nat)
  BY NatLessThanWellFounded, Zenon
<1>2. \A x, y \in Nat : y < x => <<y, x>> \in less
  BY DEF OpToRel
<1> HIDE DEF less
<1>3. PICK x \in T : \A y \in T : <<y, x>> \notin less
  BY <1>1, WFMin
<1>4. ASSUME NEW y \in T, ~(x <= y) PROVE FALSE
  <2>1. x \in Nat /\ y \in Nat /\ y < x
    BY <1>4
  <2> QED BY <1>2, <1>3, <2>1
<1> QED BY <1>4

\* f shows the search through the tail of q, look after look.
Search(f, k, q, m, cur_hv) ==
  f = [j \in 0 .. k |-> IF j = 0 THEN [m |-> m, found |-> NULL, tries |-> Tries]
                        ELSE TailLook(f[j - 1], q[Len(q) + 1 - j], cur_hv)]

\* The loop of do_item_alloc over the tail of the LRU list has a result for every
\* number of items left to look at,
LEMMA SearchExists ==
  ASSUME NEW q, NEW m, NEW cur_hv, NEW n \in Nat
  PROVE  \E f : Search(f, n, q, m, cur_hv)
<1> DEFINE T == {k \in Nat : ~\E f : Search(f, k, q, m, cur_hv)}
<1> SUFFICES ASSUME T # {} PROVE FALSE
  OBVIOUS
<1>1. T \subseteq Nat
  OBVIOUS
<1> HIDE DEF T
<1>2. PICK k \in T : \A y \in T : k <= y
  BY <1>1, LeastOne
<1>3. k \in Nat /\ ~\E f : Search(f, k, q, m, cur_hv)
  BY <1>2 DEF T
<1> DEFINE first == [m |-> m, found |-> NULL, tries |-> Tries]
<1>4. k # 0
  <2> SUFFICES ASSUME k = 0 PROVE FALSE
    OBVIOUS
  <2> DEFINE g == [j \in 0 .. 0 |-> first]
  <2>1. Search(g, 0, q, m, cur_hv)
    <3>1. \A j \in 0 .. 0 : j = 0
      OBVIOUS
    <3> QED BY <3>1 DEF Search
  <2> QED BY <1>3, <2>1
<1>5. k - 1 \in Nat /\ k - 1 \notin T
  BY <1>1, <1>2, <1>3, <1>4
<1>6. PICK f : Search(f, k - 1, q, m, cur_hv)
  BY <1>5 DEF T
<1> DEFINE g == [j \in 0 .. k |-> IF j < k THEN f[j]
                                  ELSE TailLook(f[k - 1], q[Len(q) + 1 - k], cur_hv)]
<1>7. \A j \in 0 .. k - 1 : f[j] = IF j = 0 THEN first
                                   ELSE TailLook(f[j - 1], q[Len(q) + 1 - j], cur_hv)
  BY <1>6 DEF Search
<1>8. \A j \in 0 .. k : g[j] = IF j = 0 THEN first
                               ELSE TailLook(g[j - 1], q[Len(q) + 1 - j], cur_hv)
  <2> SUFFICES ASSUME NEW j \in 0 .. k
               PROVE  g[j] = IF j = 0 THEN first
                             ELSE TailLook(g[j - 1], q[Len(q) + 1 - j], cur_hv)
    OBVIOUS
  <2> HIDE DEF first
  <2>1. CASE j = k
    <3>1. g[k] = TailLook(f[k - 1], q[Len(q) + 1 - k], cur_hv) /\ g[k - 1] = f[k - 1]
      BY <1>3, <1>4
    <3> QED BY <1>4, <2>1, <3>1
  <2>2. CASE j # k
    <3>1. j \in 0 .. k - 1 /\ g[j] = f[j] /\ (j # 0 => g[j - 1] = f[j - 1])
      BY <1>3, <2>2
    <3> QED BY <1>7, <3>1
  <2> QED BY <2>1, <2>2
<1>9. Search(g, k, q, m, cur_hv)
  <2>1. g = [j \in 0 .. k |-> g[j]]
    OBVIOUS
  <2> HIDE DEF g
  <2>2. [j \in 0 .. k |-> g[j]] = [j \in 0 .. k |-> IF j = 0 THEN first
                                     ELSE TailLook(g[j - 1], q[Len(q) + 1 - j], cur_hv)]
    BY <1>8
  <2> QED BY <2>1, <2>2 DEF Search
<1> QED BY <1>3, <1>9

\* and TailSearch is that result.
LEMMA TailSearchValue ==
  ASSUME NEW m, NEW id, NEW cur_hv, m.lru[id] \in Seq(Int)
  PROVE  \E f : /\ Search(f, Len(m.lru[id]), m.lru[id], m, cur_hv)
                /\ TailSearch(m, id, cur_hv) = f[Len(m.lru[id])]
<1> DEFINE q == m.lru[id]
           f == CHOOSE g : Search(g, Len(q), q, m, cur_hv)
<1>1. Len(q) \in Nat
  BY LenProperties
<1>2. Search(f, Len(q), q, m, cur_hv)
  BY <1>1, SearchExists
<1>3. TailSearch(m, id, cur_hv) = f[Len(q)]
  BY DEF TailSearch, Search
<1> QED BY <1>2, <1>3


\* What do_item_alloc does to the slabs composes.
LEMMA CalmMarked ==
  ASSUME NEW m, NEW n, NEW o
  PROVE  /\ Calm(m, m) /\ Marked(m, m)
         /\ Calm(m, n) /\ Calm(n, o) => Calm(m, o)
         /\ Marked(m, n) /\ Marked(n, o) => Marked(m, o)
<1>1. Calm(m, m) /\ Marked(m, m)
  BY DEF Calm, Marked, Same
<1>2. ASSUME Calm(m, n), Calm(n, o) PROVE Calm(m, o)
  BY <1>2 DEF Calm
<1>3. ASSUME Marked(m, n), Marked(n, o) PROVE Marked(m, o)
  BY <1>3 DEF Marked, Same
<1> QED BY <1>1, <1>2, <1>3

\* An item that only the hash table refers to, and nobody is working on.
Candidate(m, c, id, cur_hv) ==
  /\ c \in Chunk /\ IsLinked(m, c) /\ m.heap[c].ref = 1 /\ m.heap[c].cls = id
  /\ item_trylock(m.heap[c].key) /\ m.heap[c].key # cur_hv

Looked(a, m, R, id, cur_hv) ==
  /\ StoreOK(a.m, R, NULL) /\ Calm(m, a.m) /\ a.m.casid = m.casid /\ Marked(m, a.m)
  /\ a = [m |-> a.m, found |-> a.found, tries |-> a.tries]
  /\ a.found # NULL => Candidate(m, a.found, id, cur_hv)

\* Looking at one more item.
LEMMA LookStep ==
  ASSUME NEW m, NEW R \in Refs, NEW id \in Class, NEW cur_hv, StoreOK(m, R, NULL), now \in Nat,
         NEW a, Looked(a, m, R, id, cur_hv), NEW c \in Range(m.lru[id])
  PROVE  Looked(TailLook(a, c, cur_hv), m, R, id, cur_hv)
<1> DEFINE b == TailLook(a, c, cur_hv)
<1>1. CASE a.found # NULL \/ a.tries = 0 \/ c < 0
  <2>1. b = a
    BY <1>1 DEF TailLook
  <2> QED BY <2>1
<1>2. CASE ~(a.found # NULL \/ a.tries = 0 \/ c < 0)
  <2>1. c \in Chunk /\ IsLinked(m, c) /\ m.heap[c].cls = id
    <3>1. c \in Chunk \cup {Crawler(id)}
      BY DEF StoreOK, LruOK
    <3>2. Crawler(id) < 0
      BY DEF Crawler, Class
    <3>3. c \in Chunk
      BY <1>2, <3>1, <3>2
    <3> QED BY <3>3 DEF StoreOK, LruOK
  <2>2. a.m.heap[c].key = m.heap[c].key /\ a.m.heap[c].ref = m.heap[c].ref
        /\ a.m.heap[c].ref > 0
    <3>1. m.heap[c].ref = (IF IsLinked(m, c) THEN 1 ELSE 0) + R[c] /\ R[c] \in Nat
      BY <2>1 DEF StoreOK, Counted, Refs
    <3> QED BY <2>1, <3>1 DEF Looked, Marked, Same
  <2>3. CASE a.m.heap[c].key = cur_hv \/ ~item_trylock(a.m.heap[c].key)
    <3>1. b = [a EXCEPT !.tries = @ - 1]
      BY <1>2, <2>3 DEF TailLook
    <3>2. /\ b = [m |-> a.m, found |-> a.found, tries |-> a.tries - 1]
          /\ b.m = a.m /\ b.found = a.found /\ b.tries = a.tries - 1
      BY <3>1 DEF Looked
    <3> QED BY <3>2 DEF Looked
  <2>4. CASE ~(a.m.heap[c].key = cur_hv \/ ~item_trylock(a.m.heap[c].key)) /\ a.m.heap[c].ref # 1
    <3> DEFINE n == do_item_update(a.m, c)
    <3>1. b = [a EXCEPT !.m = n]
      BY <1>2, <2>4 DEF TailLook
    <3>2. StoreOK(a.m, R, NULL)
      BY DEF Looked
    <3>3. StoreOK(n, R, NULL) /\ Calm(a.m, n) /\ n.casid = a.m.casid /\ Marked(a.m, n)
      BY <2>1, <2>2, <3>2, UpdateStep DEF Marked
    <3> HIDE DEF n
    <3>4. b = [m |-> n, found |-> a.found, tries |-> a.tries] /\ b.m = n /\ b.found = a.found
          /\ b.tries = a.tries
      BY <3>1 DEF Looked
    <3>5. Calm(m, n) /\ Marked(m, n) /\ n.casid = m.casid
      BY <3>3, CalmMarked DEF Looked
    <3>6. a.found # NULL => Candidate(m, a.found, id, cur_hv)
      BY DEF Looked
    <3> QED BY <3>3, <3>4, <3>5, <3>6 DEF Looked
  <2>5. CASE ~(a.m.heap[c].key = cur_hv \/ ~item_trylock(a.m.heap[c].key)) /\ a.m.heap[c].ref = 1
    <3>1. b = [a EXCEPT !.found = c]
      BY <1>2, <2>5 DEF TailLook
    <3>2. b = [m |-> a.m, found |-> c, tries |-> a.tries] /\ b.m = a.m /\ b.found = c
          /\ b.tries = a.tries
      BY <3>1 DEF Looked
    <3>3. Candidate(m, c, id, cur_hv)
      BY <2>1, <2>2, <2>5 DEF Candidate
    <3> QED BY <3>2, <3>3 DEF Looked
  <2> QED BY <2>3, <2>4, <2>5
<1> QED BY <1>1, <1>2

\* The search leaves the items where they are, but for their order.
LEMMA TailSearchStep ==
  ASSUME NEW m, NEW R \in Refs, NEW id \in Class, NEW cur_hv, StoreOK(m, R, NULL), now \in Nat
  PROVE  Looked(TailSearch(m, id, cur_hv), m, R, id, cur_hv)
<1> DEFINE q == m.lru[id]
<1>1. q \in Seq(Int)
  BY DEF StoreOK, Memory
<1>2. PICK f : Search(f, Len(q), q, m, cur_hv) /\ TailSearch(m, id, cur_hv) = f[Len(q)]
  BY <1>1, TailSearchValue
<1>3. Len(q) \in Nat /\ DOMAIN q = 1 .. Len(q)
  BY <1>1, LenProperties
<1> HIDE DEF q
<1>4. \A j \in 0 .. Len(q) : f[j] = IF j = 0 THEN [m |-> m, found |-> NULL, tries |-> Tries]
                                    ELSE TailLook(f[j - 1], q[Len(q) + 1 - j], cur_hv)
  BY <1>2 DEF Search
<1> DEFINE T == {k \in 0 .. Len(q) : ~Looked(f[k], m, R, id, cur_hv)}
<1> SUFFICES ASSUME T # {} PROVE FALSE
  BY <1>2, <1>3
<1>5. T \subseteq Nat
  BY <1>3
<1> HIDE DEF T
<1>6. PICK k \in T : \A y \in T : k <= y
  BY <1>5, LeastOne
<1>7. k \in 0 .. Len(q) /\ ~Looked(f[k], m, R, id, cur_hv)
  BY <1>6 DEF T
<1>8. CASE k = 0
  <2>1. f[0] = [m |-> m, found |-> NULL, tries |-> Tries]
    BY <1>3, <1>4
  <2>2. f[0].m = m /\ f[0].found = NULL /\ f[0].tries = Tries
    BY <2>1
  <2>3. Looked(f[0], m, R, id, cur_hv)
    BY <2>1, <2>2, CalmMarked DEF Looked
  <2> QED BY <1>7, <1>8, <2>3
<1>9. CASE k # 0
  <2> DEFINE c == q[Len(q) + 1 - k]
  <2>1. k - 1 \in 0 .. Len(q) /\ k - 1 \notin T /\ Len(q) + 1 - k \in 1 .. Len(q)
    BY <1>3, <1>5, <1>6, <1>7, <1>9
  <2>2. Looked(f[k - 1], m, R, id, cur_hv)
    BY <2>1 DEF T
  <2>3. c \in Range(m.lru[id])
    BY <1>3, <2>1 DEF Range, q
  <2>4. f[k] = TailLook(f[k - 1], c, cur_hv)
    BY <1>4, <1>7, <1>9
  <2> HIDE DEF c
  <2> QED BY <1>7, <2>2, <2>3, <2>4, LookStep
<1> QED BY <1>8, <1>9


\* What only pages decide stays through calm steps.
LEMMA HomeKept ==
  ASSUME NEW m, NEW n, Calm(m, n), NEW id \in Class
  PROVE  Home(m, id) \subseteq Home(n, id)
BY DEF Calm, Home, Range

\* An item leaves the hash table and its LRU list and becomes a loose chunk.
LEMMA ReuseStep ==
  ASSUME NEW m, NEW R \in Refs, NEW id \in Class, NEW c \in Chunk, NEW why, StoreOK(m, R, NULL),
         IsLinked(m, c), m.heap[c].ref = 1, m.heap[c].cls = id
  PROVE  LET r == Reuse(m, c, why)
         IN  /\ r.it = c /\ StoreOK(r.m, R, c) /\ Calm(m, r.m) /\ r.m.casid = m.casid
             /\ \A d \in Chunk : d # c => Same(m, r.m, d)
             /\ c \in Home(r.m, id) /\ R[c] = 0
             /\ r.m.heap[c].ref = 0 /\ r.m.heap[c].cls = 0 /\ ~IsLinked(r.m, c)
<1> DEFINE u == refcount_incr(m, c)
           n == do_item_unlink(u, c)
           o == refcount_decr(n, c)
           w == [o EXCEPT !.heap[c].cls = 0]
           r == Reuse(m, c, why)
<1>1. R[c] = 0
  <2>1. m.heap[c].ref = (IF IsLinked(m, c) THEN 1 ELSE 0) + R[c] /\ R[c] \in Nat
    BY DEF StoreOK, Counted, Refs
  <2> QED BY <2>1
<1>2. /\ Plus(R, c) \in Refs /\ Plus(R, c)[c] = 1 /\ Less(Plus(R, c), c) = R
      /\ \A d \in Chunk : d # c => Plus(R, c)[d] = R[d]
  BY <1>1, PlusLess
<1>3. StoreOK(u, Plus(R, c), NULL) /\ Calm(m, u) /\ \A d \in Chunk : Same(m, u, d)
  <2>1. m.heap[c].ref > 0 /\ R[c] + 2 < MaxRef
    BY <1>1, Bounds
  <2> QED BY <2>1, IncrStep
<1>4. u.casid = m.casid
  <2>1. m \in Memory
    BY DEF StoreOK
  <2> QED BY ONLY <2>1 DEF refcount_incr, Memory
<1> HIDE DEF u
<1>5. /\ StoreOK(n, Plus(R, c), NULL) /\ Calm(u, n) /\ n.casid = u.casid
      /\ \A d \in Chunk : d # c => Same(u, n, d)
      /\ ~IsLinked(n, c)
  BY <1>2, <1>3, Bounds, UnlinkStep
<1> HIDE DEF n
<1>6. n \in Memory /\ n.heap[c] \in Item /\ n.heap[c].ref = 1
  <2>1. n \in Memory
    BY <1>5 DEF StoreOK
  <2>2. n.heap[c].ref = (IF IsLinked(n, c) THEN 1 ELSE 0) + Plus(R, c)[c]
    BY <1>5 DEF StoreOK, Counted
  <2>3. n.heap[c].ref = 1
    BY <1>2, <1>5, <2>2
  <2>4. n.heap[c] \in Item
    BY <2>1 DEF Memory
  <2> QED BY <2>1, <2>3, <2>4
<1> DEFINE y == [n.heap[c] EXCEPT !.ref = 0]
           z == [y EXCEPT !.cls = 0]
<1>7. /\ y \in Item /\ z \in Item /\ z.ref = 0 /\ z.cls = 0 /\ z.fl = n.heap[c].fl
      /\ z.key = n.heap[c].key /\ z.val = n.heap[c].val
  <2>1. \A x \in Item : [x EXCEPT !.ref = 0] \in Item /\ [x EXCEPT !.ref = 0].fl = x.fl
                        /\ [x EXCEPT !.ref = 0].key = x.key /\ [x EXCEPT !.ref = 0].val = x.val
                        /\ [x EXCEPT !.ref = 0].ref = 0
    BY DEF Item
  <2>2. \A x \in Item : [x EXCEPT !.cls = 0] \in Item /\ [x EXCEPT !.cls = 0].fl = x.fl
                        /\ [x EXCEPT !.cls = 0].key = x.key /\ [x EXCEPT !.cls = 0].val = x.val
                        /\ [x EXCEPT !.cls = 0].ref = x.ref /\ [x EXCEPT !.cls = 0].cls = 0
    BY DEF Item
  <2>3. y \in Item /\ y.fl = n.heap[c].fl /\ y.key = n.heap[c].key /\ y.val = n.heap[c].val
        /\ y.ref = 0
    BY <1>6, <2>1
  <2> HIDE DEF y
  <2> QED BY <2>2, <2>3
<1>8. o = [n EXCEPT !.heap[c] = y]
  BY <1>6, Bounds DEF refcount_decr, Memory, Item
<1> HIDE DEF o
<1>9. w = [n EXCEPT !.heap[c] = z]
  <2> HIDE DEF y
  <2>1. o.heap[c] = y
    BY <1>6, <1>8 DEF Memory
  <2> QED BY <1>6, <1>7, <1>8, <2>1 DEF Memory
<1> HIDE DEF z, y
<1>10. /\ w \in Memory /\ w.casid = n.casid /\ w.heap[c] = z /\ Rest(n, w)
       /\ \A d \in Chunk : d # c => w.heap[d] = n.heap[d]
  <2> HIDE DEF w
  <2>1. n \in Memory /\ c \in Chunk /\ z \in Item
    BY <1>6, <1>7
  <2> QED BY ONLY <1>9, <2>1, SetHeader
<1> HIDE DEF w
<1>11. StoreOK(w, R, c) /\ Calm(n, w) /\ \A d \in Chunk : Same(n, w, d)
  <2>1. StoreOK(w, Less(Plus(R, c), c), c) /\ Calm(n, w) /\ \A d \in Chunk : Same(n, w, d)
    BY <1>2, <1>5, <1>7, <1>10, LastDrop
  <2> QED BY <1>2, <2>1
<1>12. Calm(m, w) /\ \A d \in Chunk : d # c => Same(m, w, d)
  BY <1>3, <1>5, <1>11, CalmMarked DEF Same
<1>13. c \in Home(w, id)
  <2>1. c \in Home(m, id)
    BY DEF StoreOK, HomeOK
  <2> QED BY <1>12, <2>1, HomeKept
<1>14. r.it = c /\ r.m = w
  BY DEF Reuse, w, o, n, u
<1>15. ~IsLinked(w, c)
  BY <1>5, <1>7, <1>10 DEF IsLinked
<1> HIDE DEF r
<1>16. w.heap[c].ref = 0 /\ w.heap[c].cls = 0 /\ w.casid = m.casid
  BY <1>4, <1>5, <1>7, <1>10
<1> QED BY <1>1, <1>11, <1>12, <1>13, <1>14, <1>15, <1>16 DEF r

\* A loose chunk becomes an item that its owner alone refers to.
LEMMA TakeStep ==
  ASSUME NEW m, NEW R \in Refs, NEW id \in Class, NEW c \in Chunk, StoreOK(m, R, c),
         c \in Home(m, id), m.heap[c].ref = 0, m.heap[c].cls = 0, ~IsLinked(m, c), R[c] = 0,
         NEW y \in Item, y.ref = 1, y.fl = {}, y.cls = id
  PROVE  LET n == [m EXCEPT !.heap[c] = y]
         IN  /\ StoreOK(n, Plus(R, c), NULL) /\ Calm(m, n) /\ n.casid = m.casid
             /\ \A d \in Chunk : d # c => Same(m, n, d)
             /\ n.heap[c] = y /\ ~IsLinked(n, c)
<1> DEFINE n == [m EXCEPT !.heap[c] = y]
           Q == Plus(R, c)
<1>1. m \in Memory /\ \A d \in Chunk : m.heap[d] \in Item
  BY DEF StoreOK, Memory
<1>2. /\ n \in Memory /\ n.casid = m.casid /\ n.heap[c] = y /\ Rest(m, n)
      /\ \A d \in Chunk : d # c => n.heap[d] = m.heap[d]
  BY <1>1, SetHeader
<1> HIDE DEF n
<1>3. Q \in Refs /\ Q[c] = 1 /\ \A d \in Chunk : d # c => Q[d] = R[d]
  BY PlusLess
<1> HIDE DEF Q
<1>4. \A d \in Chunk : IsLinked(n, d) <=> IsLinked(m, d)
  BY <1>2 DEF IsLinked
<1>5. \A a \in Class : Home(n, a) = Home(m, a)
  BY <1>2 DEF Home, Rest
<1>6. Counted(n, Q)
  <2> SUFFICES ASSUME NEW d \in Chunk
               PROVE  n.heap[d].ref = (IF IsLinked(n, d) THEN 1 ELSE 0) + Q[d]
    BY DEF Counted
  <2>1. CASE d = c
    BY <1>2, <1>3, <1>4, <2>1
  <2>2. CASE d # c
    <3>1. m.heap[d].ref = (IF IsLinked(m, d) THEN 1 ELSE 0) + R[d]
      BY DEF StoreOK, Counted
    <3>2. n.heap[d] = m.heap[d] /\ Q[d] = R[d]
      BY <1>2, <1>3, <2>2
    <3> QED BY <1>4, <3>1, <3>2
  <2> QED BY <2>1, <2>2
<1>7. SlotsOK(n, NULL)
  <2>1. SlotsOK(m, c) /\ n.slots = m.slots
    BY <1>2 DEF StoreOK, Rest
  <2>2. \A a \in Class : Range(m.slots[a]) \subseteq Chunk
    <3>1. \A a \in Class : m.slots[a] \in Seq(Chunk)
      BY <1>1 DEF Memory
    <3> QED BY <3>1, ElementsOf
  <2> QED BY <1>2, <1>5, <2>1, <2>2, Bounds DEF SlotsOK
<1>8. LruOK(n)
  <2>1. LruOK(m) /\ n.lru = m.lru
    BY <1>2 DEF StoreOK, Rest
  <2>2. \A d \in Chunk : IsLinked(m, d) => n.heap[d] = m.heap[d]
    BY <1>2
  <2> QED BY <1>4, <2>1, <2>2 DEF LruOK
<1>9. TabOK(n)
  <2>1. TabOK(m) /\ n.tab = m.tab
    BY <1>2 DEF StoreOK, Rest
  <2>2. \A d \in Chunk : IsLinked(m, d) => n.heap[d] = m.heap[d]
    BY <1>2
  <2> QED BY <1>4, <2>1, <2>2 DEF TabOK
<1>10. HomeOK(n)
  <2> SUFFICES ASSUME NEW d \in Chunk
               PROVE  /\ n.heap[d].ref > 0 => n.heap[d].cls \in Class /\ d \in Home(n, n.heap[d].cls)
                      /\ n.heap[d].cls = 255 \/ "SLABBED" \in n.heap[d].fl => n.heap[d].ref = 0
                      /\ n.heap[d].cls # 0 => \E a \in Class : d \in Home(n, a)
    BY DEF HomeOK
  <2>1. CASE d = c
    <3>1. id # 255
      BY StoreAssumption DEF Class
    <3> QED BY <1>2, <1>5, <2>1, <3>1
  <2>2. CASE d # c
    <3>1. HomeOK(m) /\ n.heap[d] = m.heap[d]
      BY <1>2, <2>2 DEF StoreOK
    <3> QED BY <1>5, <3>1 DEF HomeOK
  <2> QED BY <2>1, <2>2
<1>11. NoneLost(n, NULL)
  <2> SUFFICES ASSUME NEW a \in Class, NEW d \in Home(n, a), n.heap[d].ref = 0
               PROVE  d \in Range(n.slots[a]) \/ n.heap[d].cls = 255
    BY DEF NoneLost
  <2>1. d # c /\ d \in Chunk /\ d \in Home(m, a)
    BY <1>1, <1>2, <1>5, HomeChunks
  <2>2. n.heap[d] = m.heap[d] /\ n.slots = m.slots
    BY <1>2, <2>1 DEF Rest
  <2> QED BY <2>1, <2>2 DEF StoreOK, NoneLost
<1>12. PagesOK(n)
  BY <1>2 DEF StoreOK, PagesOK, Rest
<1>13. ItemsOK(n)
  <2>1. Linked(n) = Linked(m)
    BY <1>4 DEF Linked
  <2> QED BY <1>2, <2>1 DEF StoreOK, ItemsOK, Rest
<1>14. StoreOK(n, Q, NULL)
  BY <1>2, <1>6, <1>7, <1>8, <1>9, <1>10, <1>11, <1>12, <1>13 DEF StoreOK
<1>15. Calm(m, n)
  <2>1. \A d \in Chunk : m.heap[d].cls = 255 => n.heap[d].cls = 255
    BY <1>2
  <2> QED BY <1>1, <1>2, <2>1, CalmRest
<1>16. (\A d \in Chunk : d # c => Same(m, n, d)) /\ ~IsLinked(n, c)
  BY <1>2, <1>4 DEF Same, IsLinked
<1> QED BY <1>2, <1>14, <1>15, <1>16 DEF n, Q


\* r.it is a loose chunk of class id, or NULL.
Loose(m, r, R, id, cur_hv) ==
  /\ r = [m |-> r.m, it |-> r.it, how |-> r.how]
  /\ StoreOK(r.m, R, r.it) /\ Calm(m, r.m) /\ r.m.casid = m.casid
  /\ \A d \in Chunk : d # r.it => Same(m, r.m, d)
  /\ r.it # NULL =>
       /\ r.it \in Chunk /\ r.it \in Home(r.m, id) /\ R[r.it] = 0
       /\ r.m.heap[r.it].ref = 0 /\ r.m.heap[r.it].cls = 0 /\ ~IsLinked(r.m, r.it)
       /\ IsLinked(m, r.it) => item_trylock(m.heap[r.it].key) /\ m.heap[r.it].key # cur_hv

\* a.it is a new item with one reference, or NULL; at most an old item that nobody
\* was working on went for it.
Allocated(m, a, R, k, v, cur_hv) ==
  /\ Calm(m, a.m) /\ a.m.casid = m.casid
  /\ \A d \in Chunk : d # a.it => Same(m, a.m, d)
  /\ a.it = NULL => StoreOK(a.m, R, NULL)
  /\ a.it # NULL =>
       /\ a.it \in Chunk /\ R[a.it] = 0 /\ StoreOK(a.m, Plus(R, a.it), NULL)
       /\ ~IsLinked(a.m, a.it) /\ a.m.heap[a.it].key = k /\ a.m.heap[a.it].val = v
       /\ IsLinked(m, a.it) => item_trylock(m.heap[a.it].key) /\ m.heap[a.it].key # cur_hv

\* An item the search found is reused.
LEMMA ReuseFound ==
  ASSUME NEW m, NEW n, NEW R \in Refs, NEW id \in Class, NEW cur_hv, NEW c, NEW why,
         StoreOK(m, R, NULL), StoreOK(n, R, NULL), Calm(m, n), n.casid = m.casid, Marked(m, n),
         Candidate(m, c, id, cur_hv)
  PROVE  Loose(m, Reuse(n, c, why), R, id, cur_hv)
<1> DEFINE r == Reuse(n, c, why)
<1>1. c \in Chunk /\ IsLinked(n, c) /\ n.heap[c].ref = 1 /\ n.heap[c].cls = id
  BY DEF Candidate, Marked, Same
<1>2. /\ r.it = c /\ StoreOK(r.m, R, c) /\ Calm(n, r.m) /\ r.m.casid = n.casid
      /\ \A d \in Chunk : d # c => Same(n, r.m, d)
      /\ c \in Home(r.m, id) /\ R[c] = 0
      /\ r.m.heap[c].ref = 0 /\ r.m.heap[c].cls = 0 /\ ~IsLinked(r.m, c)
  BY <1>1, ReuseStep
<1>3. r = [m |-> r.m, it |-> r.it, how |-> r.how]
  BY DEF Reuse
<1> HIDE DEF r
<1>4. Calm(m, r.m) /\ \A d \in Chunk : d # c => Same(m, r.m, d)
  BY <1>2, CalmMarked DEF Marked, Same
<1>5. IsLinked(m, c) => item_trylock(m.heap[c].key) /\ m.heap[c].key # cur_hv
  BY DEF Candidate
<1> QED BY <1>1, <1>2, <1>3, <1>4, <1>5 DEF Loose, r

\* do_item_alloc, whichever of its ways it takes: an expired item of the tail, a free
\* chunk, a new page, an evicted item, or nothing.
LEMMA AllocStep ==
  ASSUME NEW m, NEW R \in Refs, NEW k \in Nat, NEW v \in Seq(Nat), NEW exp \in Nat, NEW cur_hv,
         StoreOK(m, R, NULL), now \in Nat
  PROVE  Allocated(m, do_item_alloc(m, k, v, exp, cur_hv), R, k, v, cur_hv)
<1> DEFINE id == slabs_clsid(Len(v))
           a == TailSearch(m, id, cur_hv)
           s == do_slabs_alloc(a.m, id)
           r == IF a.found # NULL /\ Reclaimable(a.m.heap[a.found])
                THEN Reuse(a.m, a.found, "reclaimed")
                ELSE IF s.it = NULL /\ a.found # NULL /\ conf.evict
                THEN Reuse(s.m, a.found, "evicted")
                ELSE [m |-> s.m, it |-> s.it, how |-> "slab"]
           y == [key |-> k, val |-> v, cas |-> 0, ref |-> 1, fl |-> {},
                 cls |-> id, time |-> r.m.heap[r.it].time, exp |-> exp]
           g == do_item_alloc(m, k, v, exp, cur_hv)
<1>1. CASE id = 0
  <2>1. g.m = m /\ g.it = NULL
    BY <1>1 DEF do_item_alloc
  <2> HIDE DEF g
  <2>2. Allocated(m, g, R, k, v, cur_hv)
    BY <2>1, CalmMarked DEF Allocated, Marked
  <2> QED BY <2>2 DEF g
<1>2. CASE id # 0
  <2>1. id \in Class
    BY <1>2 DEF slabs_clsid
  <2>2. g = IF r.it = NULL THEN r ELSE [r EXCEPT !.m.heap[r.it] = y]
    BY <1>2 DEF do_item_alloc
  <2> HIDE DEF id, g
  <2>3. Looked(a, m, R, id, cur_hv)
    BY <2>1, TailSearchStep
  <2> HIDE DEF a
  <2>4. /\ StoreOK(s.m, R, s.it) /\ Calm(a.m, s.m) /\ s.m.casid = a.m.casid /\ Marked(a.m, s.m)
        /\ s.it # NULL => /\ s.it \in Chunk /\ s.it \in Home(s.m, id) /\ R[s.it] = 0
                          /\ s.m.heap[s.it].ref = 0 /\ s.m.heap[s.it].cls = 0
                          /\ ~IsLinked(a.m, s.it)
    BY <2>1, <2>3, SlabsAllocStep DEF Looked
  <2> HIDE DEF s
  <2>5. Calm(m, s.m) /\ Marked(m, s.m) /\ s.m.casid = m.casid
    BY <2>3, <2>4, CalmMarked DEF Looked
  <2>6. Loose(m, r, R, id, cur_hv)
    <3>1. CASE a.found # NULL /\ Reclaimable(a.m.heap[a.found])
      <4>1. r = Reuse(a.m, a.found, "reclaimed")
        BY <3>1
      <4> HIDE DEF r
      <4>2. Candidate(m, a.found, id, cur_hv)
        BY <2>3, <3>1 DEF Looked
      <4> QED BY <2>1, <2>3, <4>1, <4>2, ReuseFound DEF Looked
    <3>2. CASE ~(a.found # NULL /\ Reclaimable(a.m.heap[a.found]))
               /\ s.it = NULL /\ a.found # NULL /\ conf.evict
      <4>1. r = Reuse(s.m, a.found, "evicted")
        BY <3>2
      <4> HIDE DEF r
      <4>2. Candidate(m, a.found, id, cur_hv) /\ StoreOK(s.m, R, NULL)
        BY <2>3, <2>4, <3>2 DEF Looked
      <4> QED BY <2>1, <2>5, <4>1, <4>2, ReuseFound
    <3>3. CASE ~(a.found # NULL /\ Reclaimable(a.m.heap[a.found]))
               /\ ~(s.it = NULL /\ a.found # NULL /\ conf.evict)
      <4>1. r = [m |-> s.m, it |-> s.it, how |-> "slab"]
        BY <3>3
      <4> HIDE DEF r
      <4>2. r.m = s.m /\ r.it = s.it /\ r = [m |-> r.m, it |-> r.it, how |-> r.how]
        BY <4>1
      <4>3. s.it # NULL => ~IsLinked(s.m, s.it) /\ ~IsLinked(m, s.it)
        BY <2>3, <2>4 DEF Looked, Marked, Same
      <4> QED BY <2>4, <2>5, <4>2, <4>3 DEF Loose, Marked
    <3> QED BY <3>1, <3>2, <3>3
  <2> DEFINE c == r.it
             n == [r.m EXCEPT !.heap[c] = y]
  <2>7. CASE r.it = NULL
    <3>1. g = r
      BY <2>2, <2>7, Zenon
    <3> HIDE DEF r
    <3>2. Allocated(m, g, R, k, v, cur_hv)
      BY <2>6, <2>7, <3>1 DEF Loose, Allocated
    <3> QED BY <3>2, Zenon DEF g
  <2>8. CASE r.it # NULL
    <3> HIDE DEF r
    <3>1. c \in Chunk /\ r.m \in Memory /\ id \in Nat /\ r.m.heap[c] \in Item
      <4>1. c \in Chunk /\ r.m \in Memory
        BY <2>6, <2>8 DEF Loose, StoreOK
      <4>2. id \in Nat
        BY <2>1 DEF Class
      <4>3. r.m.heap[c] \in Item
        <5> HIDE DEF c
        <5> QED BY <4>1 DEF Memory
      <4> QED BY <4>1, <4>2, <4>3
    <3>2. y \in Item /\ y.ref = 1 /\ y.fl = {} /\ y.cls = id /\ y.key = k /\ y.val = v
      <4>1. r.m.heap[r.it].time \in Int
        BY <3>1 DEF Item
      <4> QED BY <3>1, <4>1 DEF Item
    <3> HIDE DEF y
    <3>3. g.m = n /\ g.it = c
      <4>1. g = [r EXCEPT !.m.heap[r.it] = y]
        BY <2>2, <2>8
      <4>2. r = [m |-> r.m, it |-> r.it, how |-> r.how]
        BY <2>6 DEF Loose
      <4> QED BY <4>1, <4>2
    <3> HIDE DEF c
    <3>4. /\ StoreOK(r.m, R, c) /\ c \in Home(r.m, id) /\ R[c] = 0
          /\ r.m.heap[c].ref = 0 /\ r.m.heap[c].cls = 0 /\ ~IsLinked(r.m, c)
          /\ IsLinked(m, c) => item_trylock(m.heap[c].key) /\ m.heap[c].key # cur_hv
          /\ Calm(m, r.m) /\ r.m.casid = m.casid
          /\ \A d \in Chunk : d # c => Same(m, r.m, d)
      BY <2>6, <2>8 DEF Loose, c
    <3>5. /\ StoreOK(n, Plus(R, c), NULL) /\ Calm(r.m, n) /\ n.casid = r.m.casid
          /\ \A d \in Chunk : d # c => Same(r.m, n, d)
          /\ n.heap[c] = y /\ ~IsLinked(n, c)
      BY <2>1, <3>1, <3>2, <3>4, TakeStep
    <3> HIDE DEF n
    <3>6. Calm(m, n) /\ n.casid = m.casid /\ \A d \in Chunk : d # c => Same(m, n, d)
      BY <3>4, <3>5, CalmMarked DEF Same
    <3>7. c # NULL
      BY <2>8 DEF c
    <3>8. Allocated(m, g, R, k, v, cur_hv)
      BY <3>1, <3>2, <3>3, <3>4, <3>5, <3>6, <3>7 DEF Allocated
    <3> QED BY <3>8 DEF g
  <2> QED BY <2>7, <2>8
<1> QED BY <1>1, <1>2


----------------------------------------------------------------------------
(* do_item_get, do_item_replace and what the background threads do.        *)

\* An item is unlinked and the reference counted for it given back.
LEMMA DropStep ==
  ASSUME NEW m, NEW R \in Refs, NEW c \in Chunk, StoreOK(m, R, NULL), m.heap[c].ref > 0,
         R[c] + 3 < MaxRef
  PROVE  LET n == do_item_remove(do_item_unlink(refcount_incr(m, c), c), c)
         IN  /\ StoreOK(n, R, NULL) /\ Calm(m, n) /\ n.casid = m.casid
             /\ \A d \in Chunk : d # c => Same(m, n, d)
             /\ ~IsLinked(n, c) /\ n.heap[c].key = m.heap[c].key /\ n.heap[c].val = m.heap[c].val
<1> DEFINE Q == Plus(R, c)
           u == refcount_incr(m, c)
           o == do_item_unlink(u, c)
           n == do_item_remove(o, c)
<1>1. R[c] \in Nat
  BY DEF Refs
<1>2. Q \in Refs /\ Q[c] = R[c] + 1 /\ Less(Q, c) = R
  BY PlusLess
<1>3. StoreOK(u, Q, NULL) /\ Calm(m, u) /\ \A d \in Chunk : Same(m, u, d)
  <2>1. R[c] + 2 < MaxRef
    BY <1>1, Bounds
  <2> QED BY <2>1, IncrStep
<1>4. u.casid = m.casid
  <2>1. m \in Memory
    BY DEF StoreOK
  <2> QED BY ONLY <2>1 DEF refcount_incr, Memory
<1> HIDE DEF u, Q
<1>5. /\ StoreOK(o, Q, NULL) /\ Calm(u, o) /\ o.casid = u.casid
      /\ \A d \in Chunk : d # c => Same(u, o, d)
      /\ ~IsLinked(o, c) /\ o.heap[c].key = u.heap[c].key /\ o.heap[c].val = u.heap[c].val
  <2>1. Q[c] > 0 /\ Q[c] + 2 < MaxRef
    BY <1>1, <1>2, Bounds
  <2> QED BY <1>2, <1>3, <2>1, UnlinkStep
<1> HIDE DEF o
<1>6. /\ StoreOK(n, Less(Q, c), NULL) /\ Calm(o, n) /\ n.casid = o.casid
      /\ \A d \in Chunk : Same(o, n, d)
  <2>1. Q[c] > 0 /\ Q[c] + 1 < MaxRef
    BY <1>1, <1>2, Bounds
  <2> QED BY <1>2, <1>5, <2>1, RemoveStep
<1> HIDE DEF n
<1>7. Calm(m, n) /\ n.casid = m.casid
  BY <1>3, <1>4, <1>5, <1>6, CalmMarked
<1>8. /\ \A d \in Chunk : d # c => Same(m, n, d)
      /\ ~IsLinked(n, c) /\ n.heap[c].key = m.heap[c].key /\ n.heap[c].val = m.heap[c].val
  BY <1>3, <1>5, <1>6 DEF Same
<1> QED BY <1>2, <1>6, <1>7, <1>8 DEF n, o, u

\* A header is rewritten; neither place, key nor references change.
LEMMA EditStep ==
  ASSUME NEW m, NEW R \in Refs, NEW c \in Chunk, StoreOK(m, R, NULL), NEW y \in Item,
         NEW i \in Nat, SameRole(m.heap[c], y), y.ref = m.heap[c].ref
  PROVE  LET n == [m EXCEPT !.heap[c] = y, !.casid = i]
         IN  /\ StoreOK(n, R, NULL) /\ Calm(m, n) /\ n.heap[c] = y /\ n.casid = i
             /\ \A d \in Chunk : d # c => Same(m, n, d)
             /\ IsLinked(n, c) <=> IsLinked(m, c)
<1> DEFINE n == [m EXCEPT !.heap[c] = y, !.casid = i]
<1>1. m \in Memory
  BY DEF StoreOK
<1>2. /\ n \in Memory /\ n.casid = i /\ n.heap[c] = y /\ Rest(m, n)
      /\ \A d \in Chunk : d # c => n.heap[d] = m.heap[d]
  BY <1>1 DEF Memory, Rest
<1> HIDE DEF n
<1>3. n.heap[c].ref = (IF IsLinked(m, c) THEN 1 ELSE 0) + R[c]
  BY <1>2 DEF StoreOK, Counted
<1>4. StoreOK(n, R, NULL) /\ Calm(m, n) /\ \A d \in Chunk : d # c => Same(m, n, d)
  BY <1>2, <1>3, HeaderStep
<1>5. IsLinked(n, c) <=> IsLinked(m, c)
  BY <1>2 DEF SameRole, IsLinked
<1> QED BY <1>2, <1>4, <1>5 DEF n

\* do_item_get takes a reference to the item found, or drops an item that is gone.
LEMMA GetStep ==
  ASSUME NEW m, NEW R \in Refs, NEW c, StoreOK(m, R, NULL),
         c # NULL => c \in Chunk /\ IsLinked(m, c) /\ R[c] + 3 < MaxRef
  PROVE  LET g == do_item_get(m, c)
         IN  /\ Calm(m, g.m) /\ g.m.casid = m.casid /\ (\A d \in Chunk : d # c => Same(m, g.m, d))
             /\ g.it = NULL => StoreOK(g.m, R, NULL) /\ (c # NULL => ~IsLinked(g.m, c))
             /\ g.it # NULL => /\ g.it = c /\ c \in Chunk /\ StoreOK(g.m, Plus(R, c), NULL)
                               /\ IsLinked(g.m, c)
             /\ c # NULL => /\ g.m.heap[c].key = m.heap[c].key /\ g.m.heap[c].val = m.heap[c].val
<1> DEFINE g == do_item_get(m, c)
           n == refcount_incr(m, c)
           y == [n.heap[c] EXCEPT !.fl = @ \cup {"FETCHED"}]
           w == [n EXCEPT !.heap[c].fl = @ \cup {"FETCHED"}]
<1>1. CASE c = NULL
  <2>1. g.m = m /\ g.it = NULL
    BY <1>1 DEF do_item_get
  <2>2. Calm(m, m) /\ \A d \in Chunk : Same(m, m, d)
    BY CalmMarked DEF Marked
  <2> HIDE DEF g
  <2>3. /\ Calm(m, g.m) /\ g.m.casid = m.casid /\ (\A d \in Chunk : d # c => Same(m, g.m, d))
        /\ StoreOK(g.m, R, NULL)
    BY <2>1, <2>2
  <2> QED BY <1>1, <2>1, <2>3 DEF g
<1>2. CASE c # NULL
  <2>1. c \in Chunk /\ IsLinked(m, c) /\ R[c] \in Nat /\ R[c] + 3 < MaxRef
    BY <1>2 DEF Refs
  <2>2. m.heap[c].ref > 0
    <3>1. m.heap[c].ref = (IF IsLinked(m, c) THEN 1 ELSE 0) + R[c]
      BY <2>1 DEF StoreOK, Counted
    <3> QED BY <2>1, <3>1
  <2>3. CASE Stale(c)
    <3> DEFINE o == do_item_remove(do_item_unlink(n, c), c)
    <3>1. g.m = o /\ g.it = NULL
      BY <1>2, <2>3 DEF do_item_get
    <3>2. /\ StoreOK(o, R, NULL) /\ Calm(m, o) /\ o.casid = m.casid
          /\ \A d \in Chunk : d # c => Same(m, o, d)
          /\ ~IsLinked(o, c) /\ o.heap[c].key = m.heap[c].key /\ o.heap[c].val = m.heap[c].val
      BY <2>1, <2>2, DropStep
    <3> HIDE DEF o, g
    <3> QED BY <3>1, <3>2 DEF g
  <2>4. CASE ~Stale(c)
    <3>1. g.m = w /\ g.it = c
      BY <1>2, <2>4 DEF do_item_get
    <3>2. StoreOK(n, Plus(R, c), NULL) /\ Calm(m, n) /\ \A d \in Chunk : Same(m, n, d)
      <4>1. R[c] + 2 < MaxRef
        BY <2>1, Bounds
      <4> QED BY <2>1, <2>2, <4>1, IncrStep
    <3>3. n.casid = m.casid
      <4>1. m \in Memory
        BY DEF StoreOK
      <4> QED BY ONLY <4>1 DEF refcount_incr, Memory
    <3> HIDE DEF n
    <3>4. n \in Memory /\ n.heap[c] \in Item /\ n.casid \in Nat
      <4>1. n \in Memory
        BY <3>2 DEF StoreOK
      <4>2. n.heap[c] \in Item
        BY <2>1, <4>1 DEF Memory
      <4> QED BY <4>1, <4>2 DEF Memory
    <3>5. y \in Item /\ SameRole(n.heap[c], y) /\ y.ref = n.heap[c].ref /\ y.val = n.heap[c].val
      <4>1. \A x \in Item : LET z == [x EXCEPT !.fl = @ \cup {"FETCHED"}]
              IN  z \in Item /\ SameRole(x, z) /\ z.ref = x.ref /\ z.val = x.val
        BY DEF Item, Flags, SameRole
      <4> QED BY <3>4, <4>1
    <3>6. w = [n EXCEPT !.heap[c] = y, !.casid = n.casid]
      BY <2>1, <3>4 DEF Memory
    <3> HIDE DEF y, w
    <3>7. Plus(R, c) \in Refs
      BY <2>1, PlusLess
    <3>8. /\ StoreOK(w, Plus(R, c), NULL) /\ Calm(n, w) /\ w.heap[c] = y /\ w.casid = n.casid
          /\ \A d \in Chunk : d # c => Same(n, w, d)
          /\ IsLinked(w, c) <=> IsLinked(n, c)
      <4> DEFINE o == [n EXCEPT !.heap[c] = y, !.casid = n.casid]
                 Q == Plus(R, c)
      <4>1. Q \in Refs /\ StoreOK(n, Q, NULL) /\ c \in Chunk /\ y \in Item /\ n.casid \in Nat
            /\ SameRole(n.heap[c], y) /\ y.ref = n.heap[c].ref
        BY <2>1, <3>2, <3>4, <3>5, <3>7
      <4> HIDE DEF Q
      <4>2. /\ StoreOK(o, Q, NULL) /\ Calm(n, o) /\ o.heap[c] = y /\ o.casid = n.casid
            /\ \A d \in Chunk : d # c => Same(n, o, d)
            /\ IsLinked(o, c) <=> IsLinked(n, c)
        BY ONLY <4>1, EditStep, Zenon
      <4> HIDE DEF o
      <4> QED BY <3>6, <4>2 DEF o, Q
    <3>9. Calm(m, w) /\ w.casid = m.casid /\ \A d \in Chunk : d # c => Same(m, w, d)
      BY <3>2, <3>3, <3>8, CalmMarked DEF Same
    <3>10. IsLinked(w, c) /\ w.heap[c].key = m.heap[c].key /\ w.heap[c].val = m.heap[c].val
      BY <2>1, <3>2, <3>5, <3>8 DEF Same, SameRole
    <3> HIDE DEF g
    <3> QED BY <1>2, <2>1, <3>1, <3>8, <3>9, <3>10 DEF g
  <2> QED BY <2>3, <2>4
<1> QED BY <1>1, <1>2


\* do_store_item puts an item in the place of the old one of its key, if there is one.
LEMMA PutStep ==
  ASSUME NEW m, NEW R \in Refs, NEW old, NEW new \in Chunk, StoreOK(m, R, NULL),
         old = assoc_find(m, m.heap[new].key), ~IsLinked(m, new), R[new] > 0, R[new] + 2 < MaxRef,
         old # NULL => R[old] > 0 /\ R[old] + 2 < MaxRef,
         ~conf.expand, now \in Nat
  PROVE  LET n == IF old # NULL THEN do_item_replace(m, old, new) ELSE do_item_link(m, new)
         IN  /\ StoreOK(n, R, NULL) /\ Calm(m, n)
             /\ \A d \in Chunk : /\ d \notin {old, new} => Same(m, n, d)
                                 /\ n.heap[d].key = m.heap[d].key /\ n.heap[d].val = m.heap[d].val
             /\ IsLinked(n, new) /\ (old # NULL => ~IsLinked(n, old))
<1> DEFINE k == m.heap[new].key
           u == do_item_unlink(m, old)
           w == do_item_link(u, new)
           x == do_item_link(m, new)
<1>1. k \in Nat /\ now \in Nat
  <2>1. m \in Memory
    BY DEF StoreOK
  <2>2. m.heap[new] \in Item
    BY <2>1 DEF Memory
  <2> QED BY <2>2 DEF Item
<1>2. CASE old = NULL
  <2>1. KeyFree(m, k, new)
    <3> HIDE DEF k
    <3>1. assoc_find(m, k) = NULL
      BY <1>2 DEF k
    <3> QED BY <1>1, <3>1, Finds DEF KeyFree
  <2>2. /\ StoreOK(x, R, NULL) /\ Calm(m, x)
        /\ \A d \in Chunk : d # new => Same(m, x, d)
        /\ IsLinked(x, new) /\ x.heap[new].key = m.heap[new].key
        /\ x.heap[new].val = m.heap[new].val
    BY <1>1, <2>1, LinkStep
  <2> HIDE DEF x, k
  <2>3. \A d \in Chunk : x.heap[d].key = m.heap[d].key /\ x.heap[d].val = m.heap[d].val
    BY <2>2 DEF Same
  <2> QED BY <1>2, <2>2, <2>3 DEF x
<1>3. CASE old # NULL
  <2>1. old \in Chunk /\ IsLinked(m, old) /\ m.heap[old].key = k /\ old # new
    <3> HIDE DEF k
    <3>1. assoc_find(m, k) = old
      BY DEF k
    <3> QED BY <1>1, <1>3, <3>1, Finds
  <2>2. /\ StoreOK(u, R, NULL) /\ Calm(m, u)
        /\ \A d \in Chunk : d # old => Same(m, u, d)
        /\ ~IsLinked(u, old) /\ u.heap[old].key = m.heap[old].key
        /\ u.heap[old].val = m.heap[old].val
    BY <1>3, <2>1, UnlinkStep
  <2> HIDE DEF u
  <2>3. ~IsLinked(u, new) /\ u.heap[new].key = k
    BY <2>1, <2>2 DEF Same
  <2>4. KeyFree(u, u.heap[new].key, new)
    <3> HIDE DEF k
    <3>1. \A d \in Chunk : IsLinked(m, d) /\ m.heap[d].key = k => d = old
      BY <2>1 DEF StoreOK, TabOK
    <3> QED BY <2>2, <2>3, <3>1 DEF KeyFree, Same
  <2>5. /\ StoreOK(w, R, NULL) /\ Calm(u, w)
        /\ \A d \in Chunk : d # new => Same(u, w, d)
        /\ IsLinked(w, new) /\ w.heap[new].key = u.heap[new].key
        /\ w.heap[new].val = u.heap[new].val
    BY <1>1, <2>2, <2>3, <2>4, LinkStep
  <2> HIDE DEF w, k
  <2>6. Calm(m, w)
    BY <2>2, <2>5, CalmMarked
  <2>7. \A d \in Chunk : w.heap[d].key = m.heap[d].key /\ w.heap[d].val = m.heap[d].val
    BY <2>2, <2>5 DEF Same
  <2>8. (\A d \in Chunk : d \notin {old, new} => Same(m, w, d)) /\ ~IsLinked(w, old)
    BY <2>1, <2>2, <2>5 DEF Same
  <2>9. do_item_replace(m, old, new) = w
    BY DEF do_item_replace, w, u
  <2> QED BY <1>3, <2>5, <2>6, <2>7, <2>8, <2>9
<1> QED BY <1>2, <1>3

\* What MoveChunk does to a chunk of class id that it clears.
Erases(m, n, R, x, c, id) ==
  /\ m.heap[c].ref = 0 /\ R[c] = 0 /\ x \in {NULL, c} /\ c \in Home(m, id)
  /\ \A d \in Chunk : d # c => n.heap[d] = m.heap[d]
  /\ n.heap[c].ref = 0 /\ n.heap[c].fl = {} /\ n.heap[c].cls = 255
  /\ n.lru = m.lru /\ n.tab = m.tab /\ n.pages = m.pages /\ n.malloced = m.malloced
  /\ n.items = m.items /\ \A a \in Class : a # id => n.slots[a] = m.slots[a]
  /\ Relisted(n.slots[id], m.slots[id], c, FALSE)

\* slab_rebalance_move clears a chunk that is free, or that it has just unlinked.
LEMMA ClearStep ==
  ASSUME NEW m, NEW R \in Refs, NEW c \in Chunk, NEW n \in Memory, NEW x,
         NEW id \in Class, StoreOK(m, R, x), Erases(m, n, R, x, c, id)
  PROVE  /\ StoreOK(n, R, NULL) /\ Calm(m, n) /\ \A d \in Chunk : d # c => Same(m, n, d)
         /\ ~IsLinked(n, c)
<1>1. m \in Memory
  BY DEF StoreOK
<1>e. /\ m.heap[c].ref = 0 /\ R[c] = 0 /\ x \in {NULL, c} /\ c \in Home(m, id)
      /\ \A d \in Chunk : d # c => n.heap[d] = m.heap[d]
      /\ n.heap[c].ref = 0 /\ n.heap[c].fl = {} /\ n.heap[c].cls = 255
      /\ n.lru = m.lru /\ n.tab = m.tab /\ n.pages = m.pages /\ n.malloced = m.malloced
      /\ n.items = m.items /\ \A a \in Class : a # id => n.slots[a] = m.slots[a]
      /\ Relisted(n.slots[id], m.slots[id], c, FALSE)
  BY DEF Erases
<1> USE <1>e
<1>2. ~IsLinked(m, c) /\ ~IsLinked(n, c)
  <2>1. m.heap[c].ref = (IF IsLinked(m, c) THEN 1 ELSE 0) + R[c]
    BY DEF StoreOK, Counted
  <2> QED BY <2>1 DEF IsLinked
<1>3. \A d \in Chunk : IsLinked(n, d) <=> IsLinked(m, d)
  BY <1>2 DEF IsLinked
<1>4. \A a \in Class : Home(n, a) = Home(m, a)
  BY DEF Home
<1>5. Counted(n, R)
  <2> SUFFICES ASSUME NEW d \in Chunk
               PROVE  n.heap[d].ref = (IF IsLinked(n, d) THEN 1 ELSE 0) + R[d]
    BY DEF Counted
  <2>1. m.heap[d].ref = (IF IsLinked(m, d) THEN 1 ELSE 0) + R[d] /\ n.heap[d].ref = m.heap[d].ref
    BY DEF StoreOK, Counted
  <2> QED BY <1>3, <2>1
<1>6. SlotsOK(n, NULL)
  <2> SUFFICES ASSUME NEW a \in Class
               PROVE  /\ IsInjective(n.slots[a])
                      /\ \A d \in Range(n.slots[a]) :
                           /\ d # NULL /\ n.heap[d].ref = 0 /\ n.heap[d].cls = 0
                           /\ "SLABBED" \in n.heap[d].fl /\ d \in Home(n, a)
    BY DEF SlotsOK
  <2>1. SlotsOK(m, x) /\ Range(m.slots[a]) \subseteq Chunk
    <3>1. m.slots[a] \in Seq(Chunk)
      BY <1>1 DEF Memory
    <3> QED BY <3>1, ElementsOf DEF StoreOK
  <2>2. IsInjective(n.slots[a]) /\ Range(n.slots[a]) \subseteq Range(m.slots[a]) \ {c}
    <3>1. CASE a = id
      BY <3>1 DEF Relisted
    <3>2. CASE a # id
      <4>1. n.slots[a] = m.slots[a] /\ c \notin Home(m, a)
        BY <1>1, <3>2, HomeChunks DEF StoreOK
      <4> QED BY <2>1, <4>1 DEF SlotsOK
    <3> QED BY <3>1, <3>2
  <2>3. \A d \in Range(n.slots[a]) : d \in Range(m.slots[a]) /\ n.heap[d] = m.heap[d] /\ d # NULL
    BY <2>1, <2>2, Bounds
  <2> QED BY <1>4, <2>1, <2>2, <2>3 DEF SlotsOK
<1>7. \A d \in Chunk : IsLinked(m, d) => n.heap[d] = m.heap[d]
  BY <1>2
<1>8. LruOK(n) /\ TabOK(n)
  <2>1. LruOK(m) /\ TabOK(m)
    BY DEF StoreOK
  <2> QED BY <1>3, <1>7, <2>1 DEF LruOK, TabOK
<1>9. HomeOK(n)
  <2> SUFFICES ASSUME NEW d \in Chunk
               PROVE  /\ n.heap[d].ref > 0 => n.heap[d].cls \in Class /\ d \in Home(n, n.heap[d].cls)
                      /\ n.heap[d].cls = 255 \/ "SLABBED" \in n.heap[d].fl => n.heap[d].ref = 0
                      /\ n.heap[d].cls # 0 => \E a \in Class : d \in Home(n, a)
    BY DEF HomeOK
  <2>1. HomeOK(m)
    BY DEF StoreOK
  <2>2. CASE d = c
    BY <1>4, <2>2
  <2>3. CASE d # c
    <3>1. n.heap[d] = m.heap[d]
      BY <2>3
    <3> QED BY <1>4, <2>1, <3>1 DEF HomeOK
  <2> QED BY <2>2, <2>3
<1>10. NoneLost(n, NULL)
  <2> SUFFICES ASSUME NEW a \in Class, NEW d \in Home(n, a), n.heap[d].ref = 0, n.heap[d].cls # 255
               PROVE  d \in Range(n.slots[a])
    BY DEF NoneLost
  <2>1. d \in Chunk /\ d \in Home(m, a) /\ d # NULL
    BY <1>4, Bounds, HomeChunks
  <2>2. d # c
    OBVIOUS
  <2>3. d \in Range(m.slots[a])
    BY <2>1, <2>2 DEF StoreOK, NoneLost
  <2> QED BY <2>2, <2>3 DEF Relisted
<1>11. PagesOK(n)
  BY DEF StoreOK, PagesOK
<1>12. ItemsOK(n)
  <2>1. Linked(n) = Linked(m)
    BY <1>3 DEF Linked
  <2> QED BY <2>1 DEF StoreOK, ItemsOK
<1>13. Calm(m, n)
  BY DEF Calm
<1>14. \A d \in Chunk : d # c => Same(m, n, d)
  BY DEF Same, IsLinked
<1> QED BY <1>2, <1>5, <1>6, <1>8, <1>9, <1>10, <1>11, <1>12, <1>13, <1>14 DEF StoreOK


\* Counting a reference and giving it back changes nothing.
LEMMA UpDown ==
  ASSUME NEW m \in Memory, NEW c \in Chunk, m.heap[c].ref + 1 < MaxRef
  PROVE  LET u == refcount_incr(m, c)
             w == refcount_decr(u, c)
         IN  /\ u \in Memory /\ Rest(m, u) /\ u.casid = m.casid
             /\ u.heap[c] = [m.heap[c] EXCEPT !.ref = @ + 1]
             /\ \A d \in Chunk : d # c => u.heap[d] = m.heap[d]
             /\ w \in Memory /\ Rest(m, w) /\ w.casid = m.casid
             /\ \A d \in Chunk : w.heap[d] = m.heap[d]
<1> DEFINE u == refcount_incr(m, c)
           w == refcount_decr(u, c)
           y == [m.heap[c] EXCEPT !.ref = @ + 1]
           z == [y EXCEPT !.ref = m.heap[c].ref]
<1>1. m.heap[c] \in Item /\ m.heap[c].ref \in Nat
  <2>1. m.heap[c] \in Item
    BY DEF Memory
  <2> QED BY <2>1 DEF Item
<1>2. y \in Item /\ y.ref = m.heap[c].ref + 1 /\ z = m.heap[c]
  <2>1. \A x \in Item, i \in Nat : LET a == [x EXCEPT !.ref = i] IN a \in Item /\ a.ref = i
    BY DEF Item
  <2>2. \A x \in Item, i \in Nat : [[x EXCEPT !.ref = i] EXCEPT !.ref = x.ref] = x
    BY DEF Item
  <2>3. m.heap[c].ref + 1 \in Nat
    BY <1>1
  <2> QED BY <1>1, <2>1, <2>2, <2>3, Zenon
<1>3. u = [m EXCEPT !.heap[c] = y]
  <2>1. (m.heap[c].ref + 1) % MaxRef = m.heap[c].ref + 1
    BY <1>1, Bounds
  <2> QED BY <1>1, <2>1 DEF refcount_incr, Memory, Item
<1> HIDE DEF u, y
<1>4. /\ u \in Memory /\ u.casid = m.casid /\ u.heap[c] = y /\ Rest(m, u)
      /\ \A d \in Chunk : d # c => u.heap[d] = m.heap[d]
  <2>1. y \in Item
    BY <1>2
  <2> QED BY ONLY m \in Memory, c \in Chunk, <1>3, <2>1, SetHeader
<1>5. w = [u EXCEPT !.heap[c] = z]
  <2>1. (u.heap[c].ref + MaxRef - 1) % MaxRef = m.heap[c].ref
    BY <1>1, <1>2, <1>4, Bounds
  <2>2. w = [u EXCEPT !.heap[c].ref = m.heap[c].ref]
    BY <2>1 DEF refcount_decr
  <2> QED BY <1>2, <1>4, <2>2 DEF Memory, Item
<1> HIDE DEF w, z
<1>6. /\ w \in Memory /\ w.casid = u.casid /\ w.heap[c] = z /\ Rest(u, w)
      /\ \A d \in Chunk : d # c => w.heap[d] = u.heap[d]
  <2>1. z \in Item /\ u \in Memory
    BY <1>1, <1>2, <1>4
  <2> QED BY ONLY c \in Chunk, <1>5, <2>1, SetHeader
<1>7. \A d \in Chunk : w.heap[d] = m.heap[d]
  BY <1>2, <1>4, <1>6
<1>8. Rest(m, w) /\ w.casid = m.casid
  BY <1>4, <1>6 DEF Rest
<1> QED BY <1>4, <1>6, <1>7, <1>8 DEF u, w, y

\* What slab_rebalance_move leaves of a chunk.
Erased(m, c) == [m EXCEPT !.heap[c].ref = 0, !.heap[c].fl = {}, !.heap[c].cls = 255]

\* What clearing a chunk writes.
LEMMA Cleared ==
  ASSUME NEW m \in Memory, NEW c \in Chunk
  PROVE  LET n == Erased(m, c)
         IN  /\ n \in Memory /\ Rest(m, n) /\ n.casid = m.casid
             /\ n.heap[c].ref = 0 /\ n.heap[c].fl = {} /\ n.heap[c].cls = 255
             /\ \A d \in Chunk : d # c => n.heap[d] = m.heap[d]
<1> DEFINE big == 255
           n == [m EXCEPT !.heap[c].ref = 0, !.heap[c].fl = {}, !.heap[c].cls = big]
           y == [m.heap[c] EXCEPT !.ref = 0, !.fl = {}, !.cls = big]
<1>0. big \in Nat
  OBVIOUS
<1> HIDE DEF big
<1>1. m.heap[c] \in Item
  BY DEF Memory
<1>2. y \in Item /\ y.ref = 0 /\ y.fl = {} /\ y.cls = big
  <2>1. \A x \in Item, i \in Nat : LET a == [x EXCEPT !.ref = 0, !.fl = {}, !.cls = i]
                                   IN  a \in Item /\ a.ref = 0 /\ a.fl = {} /\ a.cls = i
    BY DEF Item
  <2> QED BY <1>0, <1>1, <2>1, Zenon
<1>3. n = [m EXCEPT !.heap[c] = y]
  BY <1>1 DEF Memory
<1> HIDE DEF n, y
<1>4. /\ n \in Memory /\ n.casid = m.casid /\ n.heap[c] = y /\ Rest(m, n)
      /\ \A d \in Chunk : d # c => n.heap[d] = m.heap[d]
  <2>1. y \in Item
    BY <1>2
  <2> QED BY ONLY m \in Memory, c \in Chunk, <1>3, <2>1, SetHeader
<1> QED BY <1>2, <1>4 DEF n, big, Erased


\* slab_rebalance_move clears a chunk that nobody uses, and leaves the others.
LEMMA MoveStep ==
  ASSUME NEW m, NEW R \in Refs, NEW c \in Chunk, StoreOK(m, R, NULL), rb.s \in Class,
         c \in Home(m, rb.s), R[c] + 3 < MaxRef
  PROVE  LET x == MoveChunk(m, c)
         IN  /\ StoreOK(x.m, R, NULL) /\ Calm(m, x.m) /\ x.m.casid = m.casid
             /\ \A d \in Chunk : d # c => Same(m, x.m, d)
             /\ \/ Same(m, x.m, c)
                \/ /\ R[c] = 0 /\ ~IsLinked(x.m, c)
                   /\ IsLinked(m, c) => item_trylock(m.heap[c].key)
             /\ x.busy \in {0, 1} /\ (x.busy = 0 => x.m.heap[c].cls = 255)
<1> DEFINE x == MoveChunk(m, c)
           u == refcount_incr(m, c)
           id == rb.s
<1>1. /\ m \in Memory /\ m.heap[c] \in Item /\ R[c] \in Nat
      /\ m.heap[c].ref = (IF IsLinked(m, c) THEN 1 ELSE 0) + R[c] /\ m.heap[c].ref \in Nat
  <2>1. m \in Memory /\ R[c] \in Nat
    BY DEF StoreOK, Refs
  <2>2. m.heap[c] \in Item
    BY <2>1 DEF Memory
  <2> QED BY <2>1, <2>2 DEF StoreOK, Counted, Item
<1>2. /\ u \in Memory /\ Rest(m, u) /\ u.casid = m.casid
      /\ u.heap[c] = [m.heap[c] EXCEPT !.ref = @ + 1]
      /\ \A d \in Chunk : d # c => u.heap[d] = m.heap[d]
      /\ refcount_decr(u, c) \in Memory /\ Rest(m, refcount_decr(u, c))
      /\ refcount_decr(u, c).casid = m.casid
      /\ \A d \in Chunk : refcount_decr(u, c).heap[d] = m.heap[d]
  <2>1. m.heap[c].ref + 1 < MaxRef
    BY <1>1, Bounds
  <2> QED BY <1>1, <2>1, UpDown
<1>3. /\ u.heap[c].ref = m.heap[c].ref + 1 /\ u.heap[c].fl = m.heap[c].fl
      /\ u.heap[c].cls = m.heap[c].cls /\ u.heap[c].key = m.heap[c].key
      /\ u.heap[c].val = m.heap[c].val
  BY <1>1, <1>2 DEF Item
<1>4. CASE m.heap[c].cls = 255 \/ ~item_trylock(m.heap[c].key)
  <2>1. x.m = m /\ x.busy \in {0, 1} /\ (x.busy = 0 => m.heap[c].cls = 255)
    BY <1>4 DEF MoveChunk
  <2>2. Calm(m, m) /\ \A d \in Chunk : Same(m, m, d)
    BY CalmMarked DEF Marked
  <2> HIDE DEF x
  <2> QED BY <2>1, <2>2 DEF x
<1>5. CASE /\ ~(m.heap[c].cls = 255 \/ ~item_trylock(m.heap[c].key))
           /\ u.heap[c].ref = 1 /\ "SLABBED" \in u.heap[c].fl
  <2> DEFINE s == Without(u.slots[id], c)
             k == [u EXCEPT !.slots[id] = s]
             n == Erased(k, c)
  <2>1. x.m = n /\ x.busy = 0
    BY <1>5 DEF MoveChunk, Erased
  <2>2. m.heap[c].ref = 0 /\ R[c] = 0 /\ ~IsLinked(m, c)
    BY <1>1, <1>3, <1>5
  <2>3. u.slots[id] = m.slots[id] /\ m.slots[id] \in Seq(Chunk) /\ IsInjective(m.slots[id])
    BY <1>1, <1>2 DEF Rest, Memory, StoreOK, SlotsOK
  <2>4. s \in Seq(Chunk) /\ Relisted(s, m.slots[id], c, FALSE)
    BY <2>3, Relists
  <2> HIDE DEF x, u, s
  <2>5. /\ k \in Memory /\ k.heap = u.heap /\ k.lru = m.lru /\ k.pages = m.pages /\ k.tab = m.tab
        /\ k.malloced = m.malloced /\ k.items = m.items /\ k.casid = m.casid /\ k.slots[id] = s
        /\ \A a \in Class : a # id => k.slots[a] = m.slots[a]
    <3>1. /\ k \in Memory /\ k.heap = u.heap /\ k.lru = u.lru /\ k.pages = u.pages /\ k.tab = u.tab
          /\ k.malloced = u.malloced /\ k.items = u.items /\ k.casid = u.casid /\ k.slots[id] = s
          /\ \A a \in Class : a # id => k.slots[a] = u.slots[a]
      <4>1. u \in Memory /\ s \in Seq(Chunk) /\ id \in Class
        BY <1>2, <2>4
      <4> HIDE DEF id
      <4> QED BY ONLY <4>1 DEF Memory
    <3> HIDE DEF k
    <3> QED BY <1>2, <3>1 DEF Rest
  <2> HIDE DEF k
  <2>6. /\ n \in Memory /\ Rest(k, n) /\ n.casid = k.casid
        /\ n.heap[c].ref = 0 /\ n.heap[c].fl = {} /\ n.heap[c].cls = 255
        /\ \A d \in Chunk : d # c => n.heap[d] = k.heap[d]
    BY <2>5, Cleared
  <2> HIDE DEF n
  <2>7. /\ StoreOK(n, R, NULL) /\ Calm(m, n) /\ \A d \in Chunk : d # c => Same(m, n, d)
        /\ ~IsLinked(n, c)
    <3>1. \A d \in Chunk : d # c => n.heap[d] = m.heap[d]
      BY <1>2, <2>5, <2>6
    <3>2. /\ n.lru = m.lru /\ n.tab = m.tab /\ n.pages = m.pages /\ n.malloced = m.malloced
          /\ n.items = m.items /\ \A a \in Class : a # id => n.slots[a] = m.slots[a]
          /\ Relisted(n.slots[id], m.slots[id], c, FALSE)
      <4>1. /\ n.lru = m.lru /\ n.tab = m.tab /\ n.pages = m.pages /\ n.malloced = m.malloced
            /\ n.items = m.items /\ n.slots = k.slots
        BY <2>5, <2>6 DEF Rest
      <4> QED BY <2>4, <2>5, <4>1
    <3>3. NULL \in {NULL, c} /\ id \in Class /\ c \in Home(m, id) /\ StoreOK(m, R, NULL)
          /\ n \in Memory
      BY <2>6
    <3> HIDE DEF id
    <3>4. Erases(m, n, R, NULL, c, id)
      BY <2>2, <2>6, <3>1, <3>2, <3>3 DEF Erases
    <3> QED BY <2>6, <3>3, <3>4, ClearStep
  <2> QED BY <2>1, <2>2, <2>5, <2>6, <2>7 DEF x
<1>6. CASE /\ ~(m.heap[c].cls = 255 \/ ~item_trylock(m.heap[c].key))
           /\ ~(u.heap[c].ref = 1 /\ "SLABBED" \in u.heap[c].fl)
           /\ u.heap[c].ref = 2 /\ "LINKED" \in u.heap[c].fl
  <2> DEFINE o == do_item_unlink(u, c)
             n == Erased(o, c)
             y == [o.heap[c] EXCEPT !.ref = 0]
             w == [o EXCEPT !.heap[c] = y]
             Q == Plus(R, c)
  <2>1. x.m = n /\ x.busy = 0
    BY <1>6 DEF MoveChunk, Erased
  <2>2. IsLinked(m, c) /\ R[c] = 0 /\ m.heap[c].ref = 1
    BY <1>1, <1>3, <1>6 DEF IsLinked
  <2>3. Q \in Refs /\ Q[c] = 1 /\ Less(Q, c) = R
    BY <2>2, PlusLess
  <2>4. StoreOK(u, Q, NULL) /\ Calm(m, u) /\ \A d \in Chunk : Same(m, u, d)
    <3>1. m.heap[c].ref > 0 /\ R[c] + 2 < MaxRef
      BY <2>2, Bounds
    <3> QED BY <3>1, IncrStep
  <2> HIDE DEF x, u, Q
  <2>5. /\ StoreOK(o, Q, NULL) /\ Calm(u, o) /\ o.casid = u.casid
        /\ \A d \in Chunk : d # c => Same(u, o, d)
        /\ ~IsLinked(o, c) /\ o.heap[c].key = u.heap[c].key /\ o.heap[c].val = u.heap[c].val
    BY <2>3, <2>4, Bounds, UnlinkStep
  <2> HIDE DEF o
  <2>6. o \in Memory /\ o.heap[c] \in Item
    <3>1. o \in Memory
      BY <2>5 DEF StoreOK
    <3> QED BY <3>1 DEF Memory
  <2>7. /\ y \in Item /\ y.ref = 0 /\ y.fl = o.heap[c].fl /\ y.key = o.heap[c].key
        /\ y.val = o.heap[c].val
    <3>1. \A z \in Item : LET a == [z EXCEPT !.ref = 0]
            IN a \in Item /\ a.ref = 0 /\ a.fl = z.fl /\ a.key = z.key /\ a.val = z.val
      BY DEF Item
    <3> QED BY <2>6, <3>1
  <2> HIDE DEF y
  <2>8. /\ w \in Memory /\ w.casid = o.casid /\ w.heap[c] = y /\ Rest(o, w)
        /\ \A d \in Chunk : d # c => w.heap[d] = o.heap[d]
    BY <2>6, <2>7, SetHeader
  <2> HIDE DEF w
  <2>9. StoreOK(w, R, c) /\ Calm(o, w) /\ \A d \in Chunk : Same(o, w, d)
    <3>1. StoreOK(w, Less(Q, c), c) /\ Calm(o, w) /\ \A d \in Chunk : Same(o, w, d)
      BY <2>3, <2>5, <2>7, <2>8, LastDrop
    <3> QED BY <2>3, <3>1
  <2>10. /\ n \in Memory /\ Rest(o, n) /\ n.casid = o.casid
         /\ n.heap[c].ref = 0 /\ n.heap[c].fl = {} /\ n.heap[c].cls = 255
         /\ \A d \in Chunk : d # c => n.heap[d] = o.heap[d]
    <3>1. o \in Memory
      BY <2>6
    <3> QED BY ONLY <3>1, c \in Chunk, Cleared
  <2> HIDE DEF n
  <2>11. Calm(m, w) /\ c \in Home(w, id)
    <3>1. Calm(m, w)
      BY <2>4, <2>5, <2>9, CalmMarked
    <3> QED BY <3>1, HomeKept
  <2>12. /\ StoreOK(n, R, NULL) /\ Calm(w, n) /\ \A d \in Chunk : d # c => Same(w, n, d)
         /\ ~IsLinked(n, c)
    <3>1. \A d \in Chunk : d # c => n.heap[d] = w.heap[d]
      BY <2>8, <2>10
    <3>2. /\ n.lru = w.lru /\ n.tab = w.tab /\ n.pages = w.pages /\ n.malloced = w.malloced
          /\ n.items = w.items /\ n.slots = w.slots
      BY <2>8, <2>10 DEF Rest
    <3>3. w.heap[c].ref = 0
      BY <2>7, <2>8
    <3>4. Relisted(n.slots[id], w.slots[id], c, FALSE)
      <4>1. IsInjective(w.slots[id]) /\ c \notin Range(w.slots[id])
        BY <2>9 DEF StoreOK, SlotsOK
      <4> QED BY <3>2, <4>1 DEF Relisted
    <3>5. c \in {NULL, c} /\ id \in Class /\ n \in Memory
          /\ \A a \in Class : a # id => n.slots[a] = w.slots[a]
      BY <2>10, <3>2
    <3> HIDE DEF id
    <3>6. Erases(w, n, R, c, c, id)
      BY <2>2, <2>10, <2>11, <3>1, <3>2, <3>3, <3>4, <3>5 DEF Erases
    <3> QED BY <2>9, <2>10, <3>5, <3>6, ClearStep
  <2>13. Calm(m, n) /\ n.casid = m.casid /\ \A d \in Chunk : d # c => Same(m, n, d)
    <3>1. Calm(m, n) /\ n.casid = m.casid
      BY <1>2, <2>5, <2>10, <2>11, <2>12, CalmMarked
    <3>2. \A d \in Chunk : d # c => Same(m, n, d)
      BY <2>4, <2>5, <2>9, <2>12 DEF Same
    <3> QED BY <3>1, <3>2
  <2>14. item_trylock(m.heap[c].key)
    BY <1>6
  <2> QED BY <2>1, <2>2, <2>10, <2>12, <2>13, <2>14 DEF x
<1>7. CASE /\ ~(m.heap[c].cls = 255 \/ ~item_trylock(m.heap[c].key))
           /\ ~(u.heap[c].ref = 1 /\ "SLABBED" \in u.heap[c].fl)
           /\ ~(u.heap[c].ref = 2 /\ "LINKED" \in u.heap[c].fl)
  <2> DEFINE n == refcount_decr(u, c)
  <2>1. x.m = n /\ x.busy = 1
    BY <1>7 DEF MoveChunk
  <2> HIDE DEF x, u, n
  <2>2. /\ n \in Memory /\ Rest(m, n) /\ n.casid = m.casid
        /\ \A d \in Chunk : n.heap[d] = m.heap[d]
    BY <1>2 DEF n
  <2>3. StoreOK(n, R, NULL) /\ Calm(m, n) /\ \A d \in Chunk : d # c => Same(m, n, d)
    <3>1. SameRole(m.heap[c], n.heap[c])
      BY <2>2 DEF SameRole
    <3>2. n.heap[c].ref = (IF IsLinked(m, c) THEN 1 ELSE 0) + R[c]
      BY <1>1, <2>2
    <3> QED BY <2>2, <3>1, <3>2, HeaderStep
  <2>4. Same(m, n, c)
    BY <2>2 DEF Same, IsLinked
  <2> QED BY <2>1, <2>2, <2>3, <2>4 DEF x
<1> QED BY <1>4, <1>5, <1>6, <1>7


----------------------------------------------------------------------------
(* The inductive invariant.                                                *)

\* The hash table does not grow and nobody calls flush_all.
Steady == conf.flush = {} /\ ~conf.expand

\* References from commands in progress and from test_zipfian.
Its(f, c) == {t \in Threads : f[t].it = c}
Olds(f, c) == {t \in Threads : f[t].old = c}
RefsOf(f, l) == [c \in Chunk |-> l[c] + Cardinality(Its(f, c)) + Cardinality(Olds(f, c))]

Busy(f) == {t \in Threads : f[t].pc # "idle"}
Results == {None, "failed", "VALUE", "NOT_FOUND", "NOT_STORED", "STORED", "EXISTS", "NON_NUMERIC",
            "OK", "DELETED"}
Private == {"upload", "lookup", "count", "drop", "apply"}
Local ==
  [pc : Private \cup {"idle", "alloc", "update", "unlink", "remove", "return"},
   cmd : Commands \cup {None, "purge"}, k : Nat, v : Seq(Nat), exp : Nat, cas : Nat,
   it : Chunk \cup {NULL}, old : Chunk \cup {NULL}, p : Chunk \cup {NULL},
   res : Results, out : Seq(Nat)]

\* What a thread's local variables may be at each point of a command.
Shaped(q) ==
  /\ q.pc = "idle" => q = Idle
  /\ q.pc # "idle" => q.k \in Keys
  /\ q.pc # "count" => q.p = NULL
  /\ q.pc \notin {"drop", "apply"} => q.old = NULL
  /\ q.pc = "drop" => q.old # NULL
  /\ q.pc \in {"idle", "alloc", "return"} => q.it = NULL
  /\ q.pc \in {"upload", "update", "unlink", "remove"} => q.it # NULL
  /\ q.pc \in {"lookup", "count", "drop", "apply"} => (q.it # NULL <=> q.cmd \in StoreCmds)
  /\ q.pc \in {"alloc", "upload"} => q.cmd \in StoreCmds

\* The item of a command has its key; until it is stored nobody else knows it.
\* Under the item lock what the lookup found stays true.
Knows(t, q, m, R, lk) ==
  /\ q.it # NULL => m.heap[q.it].key = q.k
  /\ q.it # NULL /\ q.pc \in Private => ~IsLinked(m, q.it) /\ R[q.it] = 1
  /\ q.pc \in {"count", "drop", "apply"} => lk[LockOf(q.k)] = t
  /\ q.pc = "count" => q.p = assoc_find(m, q.k)
  /\ q.pc \in {"drop", "apply"} => q.old = assoc_find(m, q.k)

Rebal ==
  [lock : {None, "rebal"}, signal : 0 .. 2, s : Nat, d : Nat, page : Nat, pos : Nat,
   busy : Nat, done : BOOLEAN, cur : Int]

\* The page being moved stays the first of its class, and the chunks of it
\* that have been dealt with stay out of use.
Rebalancing(m, r) ==
  /\ r \in Rebal
  /\ r.signal # 0 => r.s \in Class /\ r.d \in Class /\ r.s # r.d
  /\ r.lock = "rebal" <=> r.signal = 2
  /\ r.done => r.signal = 2
  /\ r.signal = 2 =>
       /\ 1 \in DOMAIN m.pages[r.s] /\ r.page = m.pages[r.s][1] /\ r.pos \in 1 .. Perslab[r.s]
       /\ \A j \in 1 .. Perslab[r.s] :
            r.done \/ (r.busy = 0 /\ j < r.pos) => m.heap[Page(r.page)[j]].cls = 255

Crawling(m, a) ==
  /\ a \in [on : SUBSET Class, left : [Class -> Nat]]
  /\ \A id \in Class : Crawler(id) \in Range(m.lru[id]) <=> id \in a.on

NoGrowth ==
  /\ conf \in Scenario /\ Steady /\ now \in Nat /\ oldest \in Nat
  /\ glock = None /\ ltype = [t \in Threads |-> "granular"] /\ mt = [pc |-> "wait", todo |-> {}]

\* Forgotten references, commands in progress and commands to come.
Load(a, b, o) == a + b + o + 2 * Cardinality(Threads) + 3

FewRefs(f, l, ops) == \A c \in Chunk : Load(l[c], Cardinality(Busy(f)), ops) < MaxRef

TypesOK ==
  /\ th \in [Threads -> Local] /\ leaked \in [Chunk -> Nat]
  /\ ilock \in [0 .. NLocks - 1 -> Threads \cup {None}]

IInv ==
  /\ NoGrowth /\ TypesOK /\ FewRefs(th, leaked, conf.ops)
  /\ StoreOK(mem, RefsOf(th, leaked), NULL)
  /\ \A t \in Threads : Shaped(th[t]) /\ Knows(t, th[t], mem, RefsOf(th, leaked), ilock)
  /\ Rebalancing(mem, rb) /\ Crawling(mem, cr)


----------------------------------------------------------------------------
(* References.                                                             *)

Is(x, c) == IF x = c THEN 1 ELSE 0
Moved(S, t, x, c) == (S \ {t}) \cup (IF x = c THEN {t} ELSE {})

\* How often an item is held when one thread changes what it holds.
LEMMA CardMove ==
  ASSUME NEW S, IsFiniteSet(S), NEW t, NEW x, NEW y
  PROVE  LET T == Moved(S, t, x, y)
         IN  /\ IsFiniteSet(T) /\ Cardinality(S) \in Nat /\ Cardinality(T) \in Nat
             /\ Cardinality(T) = Cardinality(S) - (IF t \in S THEN 1 ELSE 0) + Is(x, y)
<1> DEFINE W == S \ {t}
           T == Moved(S, t, x, y)
<1>1. Cardinality(S) \in Nat
  BY FS_CardinalityType
<1>2. /\ IsFiniteSet(W) /\ Cardinality(W) \in Nat
      /\ Cardinality(W) = Cardinality(S) - (IF t \in S THEN 1 ELSE 0)
  BY <1>1, FS_RemoveElement, FS_CardinalityType
<1>3. IsFiniteSet(W \cup {t}) /\ Cardinality(W \cup {t}) = Cardinality(W) + 1
  BY <1>2, FS_AddElement
<1>4. T = IF x = y THEN W \cup {t} ELSE W
  BY DEF Moved
<1>5. /\ IsFiniteSet(T) /\ Cardinality(T) \in Nat
      /\ Cardinality(T) = Cardinality(S) - (IF t \in S THEN 1 ELSE 0) + Is(x, y)
  <2>2. CASE x = y
    <3>1. T = W \cup {t}
      BY <1>4, <2>2
    <3>2. Cardinality(W \cup {t}) \in Nat
      BY <1>2, <1>3
    <3> QED BY <1>1, <1>2, <1>3, <2>2, <3>1, <3>2 DEF Is
  <2>3. CASE x # y
    <3>1. T = W
      BY <1>4, <2>3
    <3> QED BY <1>1, <1>2, <2>3, <3>1 DEF Is
  <2> QED BY <2>2, <2>3
<1> QED BY <1>1, <1>5

\* A thread holds at most two references, so the count of a chunk cannot reach the
\* bound at which the unsigned short wraps.
LEMMA RefsBound ==
  ASSUME NEW f, NEW l \in Refs, NEW c \in Chunk
  PROVE  LET R == RefsOf(f, l)
         IN  /\ R \in Refs /\ R[c] = l[c] + Cardinality(Its(f, c)) + Cardinality(Olds(f, c))
             /\ IsFiniteSet(Its(f, c)) /\ Cardinality(Its(f, c)) \in Nat
             /\ IsFiniteSet(Olds(f, c)) /\ Cardinality(Olds(f, c)) \in Nat
             /\ l[c] \in Nat /\ R[c] \in Nat /\ Cardinality(Threads) \in Nat
             /\ R[c] <= l[c] + 2 * Cardinality(Threads)
<1>1. Cardinality(Threads) \in Nat
  BY StoreAssumption, FS_CardinalityType
<1>2. \A d : /\ IsFiniteSet(Its(f, d)) /\ Cardinality(Its(f, d)) \in Nat
             /\ Cardinality(Its(f, d)) <= Cardinality(Threads)
             /\ IsFiniteSet(Olds(f, d)) /\ Cardinality(Olds(f, d)) \in Nat
             /\ Cardinality(Olds(f, d)) <= Cardinality(Threads)
  <2> SUFFICES ASSUME NEW d
               PROVE  /\ IsFiniteSet(Its(f, d)) /\ Cardinality(Its(f, d)) \in Nat
                      /\ Cardinality(Its(f, d)) <= Cardinality(Threads)
                      /\ IsFiniteSet(Olds(f, d)) /\ Cardinality(Olds(f, d)) \in Nat
                      /\ Cardinality(Olds(f, d)) <= Cardinality(Threads)
    OBVIOUS
  <2>1. IsFiniteSet(Threads) /\ Its(f, d) \subseteq Threads /\ Olds(f, d) \subseteq Threads
    BY StoreAssumption DEF Its, Olds
  <2> QED BY <2>1, FS_Subset, FS_CardinalityType
<1>3. \A d \in Chunk : l[d] \in Nat
  BY DEF Refs
<1>4. RefsOf(f, l) \in Refs
  BY <1>2, <1>3 DEF Refs, RefsOf
<1>5. RefsOf(f, l)[c] = l[c] + Cardinality(Its(f, c)) + Cardinality(Olds(f, c))
  BY DEF RefsOf
<1> QED BY <1>1, <1>2, <1>3, <1>4, <1>5

\* The references held are a count for every chunk.
LEMMA RefsType ==
  ASSUME NEW f, NEW l \in Refs
  PROVE  RefsOf(f, l) \in Refs
<1>1. \A c \in Chunk : RefsOf(f, l)[c] \in Nat
  BY RefsBound
<1> QED BY <1>1 DEF RefsOf, Refs

\* An item a thread holds has a reference, and a second one when another thread
\* holds it too.
LEMMA Held ==
  ASSUME NEW f, NEW l \in Refs, NEW c \in Chunk, NEW t \in Threads
  PROVE  LET R == RefsOf(f, l)
         IN  /\ R \in Refs
             /\ f[t].it = c \/ f[t].old = c => R[c] > 0
             /\ f[t].it = c => \A u \in Threads : (u # t /\ f[u].it = c) \/ f[u].old = c => R[c] > 1
<1> DEFINE R == RefsOf(f, l)
           A == Its(f, c)
           B == Olds(f, c)
<1>1. /\ R \in Refs /\ R[c] = l[c] + Cardinality(A) + Cardinality(B) /\ l[c] \in Nat
      /\ IsFiniteSet(A) /\ Cardinality(A) \in Nat /\ IsFiniteSet(B) /\ Cardinality(B) \in Nat
  BY RefsBound
<1>2. \A u \in Threads : (f[u].it = c => u \in A) /\ (f[u].old = c => u \in B)
  BY DEF Its, Olds
<1> HIDE DEF R, A, B
<1>3. (A # {} => Cardinality(A) > 0) /\ (B # {} => Cardinality(B) > 0)
  BY <1>1, FS_EmptySet
<1>4. ASSUME f[t].it = c, NEW u \in Threads, u # t, f[u].it = c PROVE Cardinality(A) > 1
  <2>1. t \in A /\ u \in A
    BY <1>2, <1>4
  <2>2. IsFiniteSet(A \ {t}) /\ Cardinality(A \ {t}) = Cardinality(A) - 1
    BY <1>1, <2>1, FS_RemoveElement
  <2>3. u \in A \ {t}
    BY <1>4, <2>1
  <2>4. Cardinality(A \ {t}) # 0
    BY <2>2, <2>3, FS_EmptySet
  <2>5. Cardinality(A \ {t}) \in Nat
    BY <2>2, FS_CardinalityType
  <2> QED BY <1>1, <2>2, <2>4, <2>5
<1>5. f[t].it = c \/ f[t].old = c => R[c] > 0
  <2>1. CASE f[t].it = c
    BY <1>1, <1>2, <1>3, <2>1
  <2>2. CASE f[t].old = c
    BY <1>1, <1>2, <1>3, <2>2
  <2> QED BY <2>1, <2>2
<1>6. ASSUME f[t].it = c, NEW u \in Threads, (u # t /\ f[u].it = c) \/ f[u].old = c
      PROVE  R[c] > 1
  <2>1. CASE u # t /\ f[u].it = c
    BY <1>1, <1>4, <1>6, <2>1
  <2>2. CASE f[u].old = c
    BY <1>1, <1>2, <1>3, <1>6, <2>2
  <2> QED BY <1>6, <2>1, <2>2
<1> QED BY <1>1, <1>5, <1>6 DEF R

\* What a change of one thread's variables means for the reference counts.
LEMMA RefsMove ==
  ASSUME NEW f, NEW g, NEW l \in Refs, NEW t \in Threads, NEW q, g[t] = q,
         \A u \in Threads : u # t => g[u] = f[u]
  PROVE  \A c \in Chunk :
           RefsOf(g, l)[c] = RefsOf(f, l)[c] - Is(f[t].it, c) - Is(f[t].old, c)
                               + Is(q.it, c) + Is(q.old, c)
<1> SUFFICES ASSUME NEW c \in Chunk
             PROVE  RefsOf(g, l)[c] = RefsOf(f, l)[c] - Is(f[t].it, c) - Is(f[t].old, c)
                                        + Is(q.it, c) + Is(q.old, c)
  OBVIOUS
<1>1. IsFiniteSet(Its(f, c)) /\ IsFiniteSet(Olds(f, c))
  BY RefsBound
<1>2. g[t] = q /\ \A u \in Threads : u # t => g[u] = f[u]
  OBVIOUS
<1>3. Its(g, c) = Moved(Its(f, c), t, q.it, c)
  BY <1>2 DEF Its, Moved
<1>4. Olds(g, c) = Moved(Olds(f, c), t, q.old, c)
  BY <1>2 DEF Olds, Moved
<1>5. (t \in Its(f, c) <=> f[t].it = c) /\ (t \in Olds(f, c) <=> f[t].old = c)
  BY DEF Its, Olds
<1>6. /\ RefsOf(g, l)[c] = l[c] + Cardinality(Its(g, c)) + Cardinality(Olds(g, c))
      /\ RefsOf(f, l)[c] = l[c] + Cardinality(Its(f, c)) + Cardinality(Olds(f, c)) /\ l[c] \in Nat
  BY DEF RefsOf, Refs
<1>7. /\ Cardinality(Its(f, c)) \in Nat /\ Cardinality(Its(g, c)) \in Nat
      /\ Cardinality(Its(g, c)) = Cardinality(Its(f, c)) - (IF t \in Its(f, c) THEN 1 ELSE 0)
                                + Is(q.it, c)
  BY <1>1, <1>3, CardMove
<1>8. /\ Cardinality(Olds(f, c)) \in Nat /\ Cardinality(Olds(g, c)) \in Nat
      /\ Cardinality(Olds(g, c)) = Cardinality(Olds(f, c)) - (IF t \in Olds(f, c) THEN 1 ELSE 0)
                                + Is(q.old, c)
  BY <1>1, <1>4, CardMove
<1>9. \A x : Is(x, c) \in Nat
  BY DEF Is
<1> QED BY <1>5, <1>6, <1>7, <1>8, <1>9 DEF Is


----------------------------------------------------------------------------
(* What one step may do to the others.                                     *)

\* A step of thread t, with the local variables q, or of a background thread:
\* items in use keep key and value (in-place incr: unless nobody else uses
\* them), items enter and leave the hash table only under their item lock, and
\* new references are to linked, to free or to own items.
Undisturbed(m, n, R, Q, lk, t, q) ==
  \A d \in Chunk :
    /\ R[d] > 0 => n.heap[d].key = m.heap[d].key
    /\ R[d] > 0 => n.heap[d].val = m.heap[d].val \/ (d = q.old /\ R[d] = 1)
    /\ \/ /\ IsLinked(n, d) <=> IsLinked(m, d)
          /\ IsLinked(m, d) => n.heap[d].key = m.heap[d].key
       \/ /\ IsLinked(m, d) => lk[LockOf(m.heap[d].key)] \in {None, t}
          /\ IsLinked(n, d) => lk[LockOf(n.heap[d].key)] \in {None, t}
    /\ IsLinked(n, d) /\ ~IsLinked(m, d) => d = q.it \/ R[d] = 0
    /\ Q[d] # R[d] => d \in {q.it, q.old} \/ R[d] = 0 \/ IsLinked(m, d)

\* What assoc_find answers for a key depends only on which chunks are linked under it.
LEMMA FoundSame ==
  ASSUME NEW m, NEW n, NEW R, NEW Q, NEW x, NEW y, NEW k \in Nat, StoreOK(m, R, x), StoreOK(n, Q, y),
         \A d \in Chunk : IsLinked(m, d) /\ m.heap[d].key = k <=> IsLinked(n, d) /\ n.heap[d].key = k
  PROVE  assoc_find(n, k) = assoc_find(m, k)
<1> DEFINE a == assoc_find(m, k)
           b == assoc_find(n, k)
<1>1. /\ a = NULL <=> \A c \in Chunk : ~(IsLinked(m, c) /\ m.heap[c].key = k)
      /\ a # NULL => a \in Chunk /\ IsLinked(m, a) /\ m.heap[a].key = k
  BY Finds
<1>2. /\ b = NULL <=> \A c \in Chunk : ~(IsLinked(n, c) /\ n.heap[c].key = k)
      /\ \A c \in Chunk : IsLinked(n, c) /\ n.heap[c].key = k => b = c
  BY Finds
<1> HIDE DEF a, b
<1> QED BY <1>1, <1>2 DEF a, b

\* Every key has one of the item locks.
LEMMA LockIndex ==
  ASSUME NEW k \in Nat
  PROVE  LockOf(k) \in 0 .. NLocks - 1
BY StoreAssumption DEF LockOf

\* The heart of the argument: a step of another actor that leaves undisturbed what
\* the item locks and the references protect keeps everything thread u knows.
LEMMA FrameStep ==
  ASSUME NEW f \in [Threads -> Local], NEW l \in Refs, NEW m, NEW n, NEW Q \in Refs, NEW lk, NEW kl,
         NEW t, NEW q, NEW u \in Threads, u # t, q = Idle \/ (t \in Threads /\ q = f[t]),
         StoreOK(m, RefsOf(f, l), NULL), StoreOK(n, Q, NULL),
         Undisturbed(m, n, RefsOf(f, l), Q, lk, t, q),
         Shaped(f[u]), Knows(u, f[u], m, RefsOf(f, l), lk),
         \A i \in 0 .. NLocks - 1 : lk[i] = u => kl[i] = u
  PROVE  Knows(u, f[u], n, Q, kl)
<1> DEFINE R == RefsOf(f, l)
           w == f[u]
<1>1. w \in Local /\ w.k \in Nat /\ w.it \in Chunk \cup {NULL} /\ u # None
  BY StoreAssumption DEF Local
<1>2. ASSUME w.it # NULL
      PROVE  w.it \in Chunk /\ R[w.it] > 0 /\ (R[w.it] = 1 => w.it # q.it /\ w.it # q.old)
  <2>1. w.it \in Chunk
    BY <1>1, <1>2
  <2>2. R[w.it] > 0 /\ \A z \in Threads : (z # u /\ f[z].it = w.it) \/ f[z].old = w.it => R[w.it] > 1
    BY <2>1, Held
  <2>3. R[w.it] = 1 => w.it # q.it /\ w.it # q.old
    <3>1. CASE q = Idle
      BY <1>2, <3>1 DEF Idle
    <3>2. CASE t \in Threads /\ q = f[t]
      BY <2>2, <3>2
    <3> QED BY <3>1, <3>2
  <2> QED BY <2>1, <2>2, <2>3
<1> HIDE DEF R, w
<1>3. w.it # NULL => n.heap[w.it].key = w.k
  <2>1. Undisturbed(m, n, R, Q, lk, t, q) /\ Knows(u, w, m, R, lk)
    BY DEF R, w
  <2> QED BY <1>2, <2>1 DEF Undisturbed, Knows
<1>4. ASSUME w.it # NULL, w.pc \in Private PROVE ~IsLinked(n, w.it) /\ Q[w.it] = 1
  <2>1. Undisturbed(m, n, R, Q, lk, t, q) /\ Knows(u, w, m, R, lk)
    BY DEF R, w
  <2>2. ~IsLinked(m, w.it) /\ R[w.it] = 1
    BY <1>4, <2>1 DEF Knows
  <2> QED BY <1>2, <1>4, <2>1, <2>2 DEF Undisturbed
<1>5. ASSUME w.pc \in {"count", "drop", "apply"}
      PROVE  kl[LockOf(w.k)] = u /\ assoc_find(n, w.k) = assoc_find(m, w.k)
  <2>1. Undisturbed(m, n, R, Q, lk, t, q) /\ Knows(u, w, m, R, lk)
    BY DEF R, w
  <2>2. lk[LockOf(w.k)] = u
    BY <1>5, <2>1 DEF Knows
  <2>3. kl[LockOf(w.k)] = u
    BY <1>1, <2>2, LockIndex
  <2>4. \A d \in Chunk : IsLinked(m, d) /\ m.heap[d].key = w.k <=> IsLinked(n, d) /\ n.heap[d].key = w.k
    BY <1>1, <2>1, <2>2 DEF Undisturbed
  <2>5. StoreOK(m, R, NULL)
    BY DEF R
  <2> QED BY <1>1, <2>3, <2>4, <2>5, FoundSame
<1>6. Knows(u, w, n, Q, kl)
  <2>1. Knows(u, w, m, R, lk)
    BY DEF R, w
  <2> QED BY <1>3, <1>4, <1>5, <2>1 DEF Knows
<1> QED BY <1>6 DEF w


\* HeldStable, of one step that overlaps nothing.
HeldStep ==
  \A t \in Threads :
    LET c == th[t].it
    IN  c # NULL /\ th'[t].it = c =>
          /\ mem'.heap[c].key = mem.heap[c].key /\ mem'.heap[c].val = mem.heap[c].val
          /\ "SLABBED" \notin mem'.heap[c].fl

\* Such a step also leaves the items that others hold as they are.
LEMMA HeldKept ==
  ASSUME NEW t, NEW q, q = Idle \/ (t \in Threads /\ q = th[t]), TypesOK, TypesOK',
         StoreOK(mem', RefsOf(th', leaked'), NULL),
         Undisturbed(mem, mem', RefsOf(th, leaked), RefsOf(th', leaked'), ilock, t, q)
  PROVE  HeldStep
<1> DEFINE R == RefsOf(th, leaked)
           Q == RefsOf(th', leaked')
<1> SUFFICES ASSUME NEW u \in Threads, th[u].it # NULL, th'[u].it = th[u].it
             PROVE  LET c == th[u].it
                    IN  /\ mem'.heap[c].key = mem.heap[c].key /\ mem'.heap[c].val = mem.heap[c].val
                        /\ "SLABBED" \notin mem'.heap[c].fl
  BY DEF HeldStep
<1> DEFINE c == th[u].it
<1>1. c \in Chunk
  BY DEF TypesOK, Local
<1>2. leaked \in Refs /\ leaked' \in Refs
  BY DEF TypesOK, Refs
<1>3. R[c] > 0 /\ \A z \in Threads : th[z].old = c => R[c] > 1
  BY <1>1, <1>2, Held
<1>4. Q[c] > 0 /\ Q[c] \in Nat
  <2>1. RefsOf(th', leaked') \in Refs /\ RefsOf(th', leaked')[c] > 0
    BY <1>1, <1>2, Held
  <2> QED BY <1>1, <2>1 DEF Refs
<1>5. R[c] = 1 => c # q.old
  <2>1. CASE q = Idle
    BY <1>1, <2>1, Bounds DEF Idle
  <2>2. CASE t \in Threads /\ q = th[t]
    BY <1>3, <2>2
  <2> QED BY <2>1, <2>2
<1> HIDE DEF R, Q, c
<1>6. Undisturbed(mem, mem', R, Q, ilock, t, q) /\ StoreOK(mem', Q, NULL)
  BY DEF R, Q
<1>7. mem'.heap[c].key = mem.heap[c].key /\ mem'.heap[c].val = mem.heap[c].val
  BY <1>1, <1>3, <1>5, <1>6 DEF Undisturbed
<1>8. "SLABBED" \notin mem'.heap[c].fl
  <2>1. mem'.heap[c].ref = (IF IsLinked(mem', c) THEN 1 ELSE 0) + Q[c]
    BY <1>1, <1>6 DEF StoreOK, Counted
  <2>2. mem'.heap[c].ref # 0
    BY <1>4, <2>1
  <2> QED BY <1>1, <1>6, <2>2 DEF StoreOK, HomeOK
<1> QED BY <1>7, <1>8 DEF c

\* A calm step does not change the first page of a class, the one the rebalancer
\* empties.
LEMMA PageOf ==
  ASSUME NEW m, NEW n, Calm(m, n), NEW s \in Class, 1 \in DOMAIN m.pages[s]
  PROVE  1 \in DOMAIN n.pages[s] /\ n.pages[s][1] = m.pages[s][1]
BY DEF Calm

\* The chunks of a class's page.
LEMMA OnPage ==
  ASSUME NEW m \in Memory, NEW s \in Class, 1 \in DOMAIN m.pages[s]
  PROVE  LET p == m.pages[s][1]
         IN  /\ p \in 1 .. NPages /\ p \in Range(m.pages[s])
             /\ \A j \in 1 .. Perslab[s] : Page(p)[j] \in Chunk /\ Page(p)[j] \in Home(m, s)
<1> DEFINE p == m.pages[s][1]
<1>1. p \in 1 .. NPages /\ p \in Range(m.pages[s])
  <2>1. m.pages[s] \in Seq(1 .. NPages)
    BY DEF Memory
  <2>2. p \in Range(m.pages[s])
    BY DEF Range
  <2> QED BY <2>1, <2>2, ElementsOf
<1> HIDE DEF p
<1>2. \A j \in 1 .. Perslab[s] : Page(p)[j] \in Used(p, s)
  BY DEF Used
<1>3. Used(p, s) \subseteq Chunk
  BY <1>1, PageChunks
<1>4. \A j \in 1 .. Perslab[s] : Page(p)[j] \in Chunk /\ Page(p)[j] \in Home(m, s)
  BY <1>1, <1>2, <1>3 DEF Home
<1> QED BY <1>1, <1>4 DEF p

\* So it keeps what the rebalancer knows of its page,
LEMMA RebalKept ==
  ASSUME NEW m \in Memory, NEW n, Calm(m, n), NEW r, Rebalancing(m, r)
  PROVE  Rebalancing(n, r)
<1>1. ASSUME r.signal = 2
      PROVE  /\ 1 \in DOMAIN n.pages[r.s] /\ r.page = n.pages[r.s][1] /\ r.pos \in 1 .. Perslab[r.s]
             /\ \A j \in 1 .. Perslab[r.s] :
                  r.done \/ (r.busy = 0 /\ j < r.pos) => n.heap[Page(r.page)[j]].cls = 255
  <2>1. /\ r.s \in Class /\ 1 \in DOMAIN m.pages[r.s] /\ r.page = m.pages[r.s][1]
        /\ r.pos \in 1 .. Perslab[r.s]
    BY <1>1 DEF Rebalancing
  <2>2. 1 \in DOMAIN n.pages[r.s] /\ r.page = n.pages[r.s][1]
    BY <2>1, PageOf
  <2>3. \A j \in 1 .. Perslab[r.s] : Page(r.page)[j] \in Chunk
    BY <2>1, OnPage
  <2>4. \A d \in Chunk : m.heap[d].cls = 255 => n.heap[d].cls = 255
    BY DEF Calm
  <2>5. \A j \in 1 .. Perslab[r.s] :
          r.done \/ (r.busy = 0 /\ j < r.pos) => m.heap[Page(r.page)[j]].cls = 255
    BY <1>1 DEF Rebalancing
  <2> QED BY <2>1, <2>2, <2>3, <2>4, <2>5
<1> QED BY <1>1, SMTT(30) DEF Rebalancing

\* and what the crawler knows of its pseudo items.
LEMMA CrawlKept ==
  ASSUME NEW m, NEW n, Calm(m, n), NEW a, Crawling(m, a)
  PROVE  Crawling(n, a)
BY DEF Calm, Crawling


\* slabs_reassign_pick_any returns another class than dst, or none.
LEMMA PickAny ==
  ASSUME NEW m, NEW r, r.cur \in Int, NEW dst \in Class
  PROVE  LET q == slabs_reassign_pick_any(m, r, dst)
         IN  /\ q.cur \in Int /\ q.src \in Int /\ (q.src \in Class => q.src # dst)
<1> DEFINE n == Len(Perslab)
           nth(j) == ((r.cur + j - 1) % n) + 1
           js == {j \in Class : nth(j) # dst /\ Len(m.pages[nth(j)]) > 1}
           least == CHOOSE x \in js : \A y \in js : x <= y
           q == slabs_reassign_pick_any(m, r, dst)
<1>1. n \in Nat /\ n > 0 /\ Class = 1 .. n
  <2>1. n \in Nat
    BY StoreAssumption, LenProperties
  <2> QED BY <2>1 DEF Class
<1>2. q = IF js = {} THEN [src |-> -1, cur |-> nth(n)] ELSE [src |-> nth(least), cur |-> nth(least)]
  BY DEF slabs_reassign_pick_any
<1>3. js # {} => least \in js
  <2> HIDE DEF nth
  <2>1. js \subseteq Nat
    BY <1>1
  <2> HIDE DEF js
  <2> QED BY <2>1, LeastOne
<1>4. \A j \in 1 .. n : nth(j) \in Int
  BY <1>1
<1>5. js # {} => nth(least) # dst /\ nth(least) \in Int
  <2>1. js # {} => least \in 1 .. n /\ nth(least) # dst
    BY <1>1, <1>3
  <2> HIDE DEF nth, least, js
  <2> QED BY <1>4, <2>1
<1>6. nth(n) \in Int /\ -1 \notin Class
  <2>1. nth(n) \in Int
    BY <1>1, <1>4
  <2> QED BY <1>1, <2>1
<1> HIDE DEF q, nth, js, least
<1> QED BY <1>2, <1>5, <1>6 DEF q

\* slabs_reassign only asks for a move: it keeps what the rebalancer knows.
LEMMA Reassigned ==
  ASSUME NEW m, NEW r, Rebalancing(m, r), NEW src \in Class \cup {-1}, NEW dst \in Class
  PROVE  Rebalancing(m, slabs_reassign(m, r, src, dst))
<1> DEFINE q == IF src = -1 THEN slabs_reassign_pick_any(m, r, dst) ELSE [src |-> src, cur |-> r.cur]
           w == [r EXCEPT !.cur = q.cur]
           z == [r EXCEPT !.cur = q.cur, !.s = q.src, !.d = dst, !.signal = 1]
<1>1. r \in Rebal
  BY DEF Rebalancing
<1>2. q.cur \in Int /\ (q.src \in Class /\ src # dst => q.src # dst)
  <2>1. r.cur \in Int
    BY <1>1 DEF Rebal
  <2>2. CASE src = -1
    BY <2>1, <2>2, PickAny
  <2>3. CASE src # -1
    BY <2>1, <2>3
  <2> QED BY <2>2, <2>3
<1>3. slabs_reassign(m, r, src, dst) \in {r, w, z}
      /\ (slabs_reassign(m, r, src, dst) = z =>
            slabs_reassign(m, r, src, dst) \in {r, w}
            \/ (r.lock = None /\ r.signal = 0 /\ src # dst /\ q.src \in Class))
  BY DEF slabs_reassign
<1> HIDE DEF q
<1>4. Rebalancing(m, w)
  <2>1. /\ w \in Rebal
        /\ w.lock = r.lock /\ w.signal = r.signal /\ w.s = r.s /\ w.d = r.d /\ w.page = r.page
        /\ w.pos = r.pos /\ w.busy = r.busy /\ w.done = r.done
    BY <1>1, <1>2 DEF Rebal
  <2> HIDE DEF w
  <2> QED BY <2>1 DEF Rebalancing
<1>5. ASSUME r.lock = None, r.signal = 0, src # dst, q.src \in Class PROVE Rebalancing(m, z)
  <2>1. ~r.done
    BY <1>1, <1>5 DEF Rebalancing, Rebal
  <2>2. q.src \in Nat /\ dst \in Nat /\ q.src # dst
    BY <1>2, <1>5 DEF Class
  <2>3. /\ z \in Rebal /\ z.lock = None /\ z.signal = 1 /\ z.s = q.src /\ z.d = dst /\ ~z.done
    <3>1. \A x \in Rebal, i \in Int, a \in Nat, b \in Nat :
            [x EXCEPT !.cur = i, !.s = a, !.d = b, !.signal = 1] \in Rebal
      <4> SUFFICES ASSUME NEW x \in Rebal, NEW i \in Int, NEW a \in Nat, NEW b \in Nat
                   PROVE  [x EXCEPT !.cur = i, !.s = a, !.d = b, !.signal = 1] \in Rebal
        OBVIOUS
      <4>1. [x EXCEPT !.cur = i, !.s = a] \in Rebal
        BY DEF Rebal
      <4>2. \A y \in Rebal : [y EXCEPT !.d = b, !.signal = 1] \in Rebal
        <5>1. \A y \in Rebal : [y EXCEPT !.d = b] \in Rebal
          BY DEF Rebal
        <5>2. \A y \in Rebal, j \in 0 .. 2 : [y EXCEPT !.signal = j] \in Rebal
          BY DEF Rebal
        <5>3. \A y : [y EXCEPT !.d = b, !.signal = 1] = [[y EXCEPT !.d = b] EXCEPT !.signal = 1]
          OBVIOUS
        <5>4. 1 \in 0 .. 2
          OBVIOUS
        <5> QED BY <5>1, <5>2, <5>3, <5>4
      <4>3. [x EXCEPT !.cur = i, !.s = a, !.d = b, !.signal = 1]
              = [[x EXCEPT !.cur = i, !.s = a] EXCEPT !.d = b, !.signal = 1]
        OBVIOUS
      <4> QED BY <4>1, <4>2, <4>3, Zenon
    <3>2. z \in Rebal
      BY <1>1, <1>2, <1>5, <2>2, <3>1, Zenon
    <3>3. z.lock = r.lock /\ z.signal = 1 /\ z.s = q.src /\ z.d = dst /\ z.done = r.done
      BY <1>1 DEF Rebal
    <3> QED BY <1>5, <2>1, <3>2, <3>3
  <2> HIDE DEF z
  <2> QED BY <1>5, <2>2, <2>3 DEF Rebalancing, None
<1> HIDE DEF w, z
<1> QED BY <1>3, <1>4, <1>5

\* An eviction may ask for a page.
LEMMA AfterAllocStep ==
  ASSUME NEW m, NEW n, Rebalancing(m, rb), Rebalancing(n, rb),
         NEW k, NEW v \in Seq(Nat), NEW exp, NEW cur_hv, NEW len, len = Len(v),
         LET a == do_item_alloc(m, k, v, exp, cur_hv) IN AfterAlloc(a, slabs_clsid(len)) /\ a.m = n
  PROVE  Rebalancing(n, rb')
<1> DEFINE a == do_item_alloc(m, k, v, exp, cur_hv)
           id == slabs_clsid(Len(v))
<1>1. a.how = "evicted" => id # 0
  BY Zenon DEF do_item_alloc
<1>2. id # 0 => id \in Class
  BY DEF slabs_clsid
<1>3. rb' = IF a.how = "evicted" /\ conf.angry THEN slabs_reassign(n, rb, -1, id) ELSE rb
  BY DEF AfterAlloc
<1> HIDE DEF a, id
<1> QED BY <1>1, <1>2, <1>3, Reassigned, Zenon


\* No reference count overflows.
LEMMA Bounded ==
  ASSUME IInv, NEW c \in Chunk
  PROVE  RefsOf(th, leaked)[c] \in Nat /\ RefsOf(th, leaked)[c] + 3 < MaxRef
<1>1. leaked \in Refs /\ conf.ops \in Nat
  BY DEF IInv, TypesOK, Refs, NoGrowth, Scenario
<1>2. /\ leaked[c] \in Nat /\ RefsOf(th, leaked)[c] \in Nat /\ Cardinality(Threads) \in Nat
      /\ RefsOf(th, leaked)[c] <= leaked[c] + 2 * Cardinality(Threads)
  BY <1>1, RefsBound
<1>3. leaked[c] + Cardinality(Busy(th)) + conf.ops + 2 * Cardinality(Threads) + 3 < MaxRef
  BY DEF IInv, FewRefs, Load
<1>4. Cardinality(Busy(th)) \in Nat
  <2>1. IsFiniteSet(Threads) /\ Busy(th) \subseteq Threads
    BY StoreAssumption DEF Busy
  <2> QED BY <2>1, FS_Subset, FS_CardinalityType
<1>5. \A r, a, b, o, d \in Nat :
        r <= a + 2 * d /\ a + b + o + 2 * d + 3 < MaxRef => r + 3 < MaxRef
  BY Bounds
<1> QED BY <1>1, <1>2, <1>3, <1>4, <1>5

\* As long as no command begins the bound on references stays.
LEMMA FewKept ==
  ASSUME NEW f, NEW g, NEW l \in Refs, NEW ops \in Nat, FewRefs(f, l, ops), Busy(g) \subseteq Busy(f)
  PROVE  FewRefs(g, l, ops)
<1>1. /\ Cardinality(Busy(f)) \in Nat /\ Cardinality(Busy(g)) \in Nat
      /\ Cardinality(Busy(g)) <= Cardinality(Busy(f)) /\ Cardinality(Threads) \in Nat
  <2>1. IsFiniteSet(Threads) /\ Busy(f) \subseteq Threads
    BY StoreAssumption DEF Busy
  <2>2. IsFiniteSet(Busy(f))
    BY <2>1, FS_Subset
  <2> QED BY <2>1, <2>2, FS_Subset, FS_CardinalityType
<1>2. \A c \in Chunk : l[c] \in Nat
  BY DEF Refs
<1> QED BY <1>1, <1>2, Bounds DEF FewRefs, Load

\* What a thread does with the item locks.
LocksKept(t) ==
  /\ ilock' \in [0 .. NLocks - 1 -> Threads \cup {None}] /\ glock' = None
  /\ \A i \in 0 .. NLocks - 1 : \A u \in Threads : u # t /\ ilock[i] = u => ilock'[i] = u

\* A step that takes no item lock and releases none keeps those of the others,
LEMMA NoLock ==
  ASSUME IInv, NEW t, NoLocks
  PROVE  LocksKept(t)
BY DEF IInv, TypesOK, NoGrowth, LocksKept, NoLocks

\* item_lock takes a lock nobody has,
LEMMA Lock ==
  ASSUME IInv, NEW t \in Threads, NEW hv \in Nat, item_lock(t, hv)
  PROVE  LocksKept(t) /\ ilock[LockOf(hv)] = None /\ ilock'[LockOf(hv)] = t
<1>1. ltype[t] = "granular" /\ LockOf(hv) \in 0 .. NLocks - 1 /\ None \notin Threads
  BY LockIndex, StoreAssumption DEF IInv, NoGrowth
<1>2. ilock[LockOf(hv)] = None /\ ilock' = [ilock EXCEPT ![LockOf(hv)] = t] /\ glock' = None
  BY <1>1 DEF item_lock, CanLock, IInv, NoGrowth
<1> QED BY <1>1, <1>2 DEF LocksKept, IInv, TypesOK

\* and item_unlock gives up its own.
LEMMA Unlock ==
  ASSUME IInv, NEW t \in Threads, NEW hv \in Nat, item_unlock(t, hv), ilock[LockOf(hv)] = t
  PROVE  LocksKept(t)
<1>1. ltype[t] = "granular" /\ LockOf(hv) \in 0 .. NLocks - 1 /\ None \notin Threads
  BY LockIndex, StoreAssumption DEF IInv, NoGrowth
<1>2. ilock' = [ilock EXCEPT ![LockOf(hv)] = None] /\ glock' = None
  BY <1>1 DEF item_unlock, IInv, NoGrowth
<1> QED BY <1>1, <1>2 DEF LocksKept, IInv, TypesOK

\* A step of one thread keeps the invariant, and held items as they are.
LEMMA ThreadOK ==
  ASSUME IInv, NEW t \in Threads, NEW q \in Local, th' = [th EXCEPT ![t] = q], Shaped(q),
         NoGrowth', leaked' \in Refs, FewRefs(th', leaked', conf'.ops), LocksKept(t),
         StoreOK(mem', RefsOf(th', leaked'), NULL),
         Undisturbed(mem, mem', RefsOf(th, leaked), RefsOf(th', leaked'), ilock, t, th[t]),
         Knows(t, q, mem', RefsOf(th', leaked'), ilock'),
         Rebalancing(mem', rb'), Crawling(mem', cr')
  PROVE  IInv' /\ HeldStep
<1> DEFINE R == RefsOf(th, leaked)
           Q == RefsOf(th', leaked')
<1>1. /\ th \in [Threads -> Local] /\ leaked \in Refs /\ TypesOK /\ StoreOK(mem, R, NULL)
      /\ \A u \in Threads : Shaped(th[u]) /\ Knows(u, th[u], mem, R, ilock)
  BY DEF IInv, TypesOK, Refs
<1>2. th' \in [Threads -> Local] /\ th'[t] = q /\ \A u \in Threads : u # t => th'[u] = th[u]
  BY <1>1
<1>3. TypesOK'
  BY <1>2 DEF TypesOK, LocksKept, Refs
<1>4. ASSUME NEW u \in Threads PROVE Shaped(th'[u]) /\ Knows(u, th'[u], mem', Q, ilock')
  <2>1. CASE u = t
    BY <1>2, <2>1
  <2>2. CASE u # t
    <3>1. th'[u] = th[u] /\ Shaped(th[u])
      BY <1>1, <1>2, <2>2
    <3>3. Q \in Refs
      BY RefsType
    <3>4. Knows(u, th[u], mem, R, ilock)
      BY <1>1
    <3>5. \A i \in 0 .. NLocks - 1 : ilock[i] = u => ilock'[i] = u
      BY <2>2 DEF LocksKept
    <3> HIDE DEF Q
    <3>6. Undisturbed(mem, mem', RefsOf(th, leaked), Q, ilock, t, th[t]) /\ StoreOK(mem', Q, NULL)
      BY DEF Q
    <3>7. Knows(u, th[u], mem', Q, ilock')
      BY <1>1, <2>2, <3>1, <3>3, <3>4, <3>5, <3>6, FrameStep
    <3> QED BY <3>1, <3>7
  <2> QED BY <2>1, <2>2
<1>5. IInv'
  BY <1>3, <1>4 DEF IInv
<1>6. HeldStep
  BY <1>1, <1>3, HeldKept
<1> QED BY <1>5, <1>6


\* The same for a step that changes the item store, locks and local variables only.
LEMMA QuietOK ==
  ASSUME IInv, NEW t \in Threads, NEW q \in Local, th' = [th EXCEPT ![t] = q], Shaped(q),
         q.pc = "idle" \/ th[t].pc # "idle", Quiet, leaked' = leaked, LocksKept(t),
         Calm(mem, mem'), Rebalancing(mem', rb'), StoreOK(mem', RefsOf(th', leaked), NULL),
         Undisturbed(mem, mem', RefsOf(th, leaked), RefsOf(th', leaked), ilock, t, th[t]),
         Knows(t, q, mem', RefsOf(th', leaked), ilock')
  PROVE  IInv' /\ HeldStep
<1>1. leaked' \in Refs /\ th \in [Threads -> Local] /\ conf.ops \in Nat
  BY DEF IInv, TypesOK, Refs, NoGrowth, Scenario
<1>2. NoGrowth'
  BY DEF IInv, NoGrowth, Quiet, LocksKept, Steady
<1>3. Busy(th') \subseteq Busy(th)
  BY <1>1 DEF Busy
<1>4. FewRefs(th', leaked', conf'.ops)
  <2>1. FewRefs(th, leaked', conf.ops) /\ conf' = conf
    BY DEF IInv, Quiet
  <2> QED BY <1>1, <1>3, <2>1, FewKept
<1>5. Crawling(mem', cr')
  <2>1. Crawling(mem, cr) /\ cr' = cr
    BY DEF IInv, Quiet
  <2> QED BY <2>1, CrawlKept
<1> QED BY <1>1, <1>2, <1>4, <1>5, ThreadOK

\* A step of nobody's.
LEMMA BackgroundOK ==
  ASSUME IInv, th' = th, leaked' = leaked, ilock' = ilock, NoGrowth', conf'.ops = conf.ops,
         StoreOK(mem', RefsOf(th, leaked), NULL),
         Undisturbed(mem, mem', RefsOf(th, leaked), RefsOf(th, leaked), ilock, None, Idle),
         Rebalancing(mem', rb'), Crawling(mem', cr')
  PROVE  IInv' /\ HeldStep
<1> DEFINE R == RefsOf(th, leaked)
<1>1. /\ th \in [Threads -> Local] /\ leaked \in Refs /\ TypesOK /\ StoreOK(mem, R, NULL)
      /\ R \in Refs /\ None \notin Threads
      /\ \A u \in Threads : Shaped(th[u]) /\ Knows(u, th[u], mem, R, ilock)
  BY RefsType, StoreAssumption DEF IInv, TypesOK, Refs
<1>2. TypesOK' /\ RefsOf(th', leaked') = R
  BY <1>1 DEF TypesOK
<1>3. ASSUME NEW u \in Threads PROVE Knows(u, th[u], mem', R, ilock)
  <2>1. Shaped(th[u]) /\ Knows(u, th[u], mem, R, ilock) /\ u # None
    BY <1>1
  <2>2. \A i \in 0 .. NLocks - 1 : ilock[i] = u => ilock[i] = u
    OBVIOUS
  <2>3. StoreOK(mem, RefsOf(th, leaked), NULL) /\ R \in Refs
    BY <1>1
  <2>4. Undisturbed(mem, mem', RefsOf(th, leaked), R, ilock, None, Idle) /\ StoreOK(mem', R, NULL)
    OBVIOUS
  <2>5. Knows(u, th[u], mem, RefsOf(th, leaked), ilock)
    BY <2>1
  <2> HIDE DEF R
  <2> QED BY <1>1, <2>1, <2>2, <2>3, <2>4, <2>5, FrameStep
<1>4. FewRefs(th, leaked, conf'.ops)
  BY DEF IInv
<1>5. IInv'
  BY <1>1, <1>2, <1>3, <1>4 DEF IInv
<1>6. HeldStep
  BY <1>1, <1>2, HeldKept
<1> QED BY <1>5, <1>6


----------------------------------------------------------------------------
(* The steps of a thread.                                                  *)

\* What the invariant says, in the form the steps use it.
LEMMA Facts ==
  ASSUME IInv
  PROVE  /\ th \in [Threads -> Local] /\ leaked \in Refs /\ RefsOf(th, leaked) \in Refs
         /\ mem \in Memory /\ StoreOK(mem, RefsOf(th, leaked), NULL)
         /\ now \in Nat /\ oldest \in Nat /\ ~conf.expand /\ conf \in Scenario
         /\ Rebalancing(mem, rb) /\ Crawling(mem, cr)
         /\ \A t \in Threads : /\ Shaped(th[t]) /\ th[t] \in Local
                               /\ Knows(t, th[t], mem, RefsOf(th, leaked), ilock)
<1>1. leaked \in Refs
  BY DEF IInv, TypesOK, Refs
<1>2. RefsOf(th, leaked) \in Refs
  BY <1>1, RefsType
<1>3. mem \in Memory
  BY DEF IInv, StoreOK
<1> QED BY <1>1, <1>2, <1>3 DEF IInv, TypesOK, NoGrowth, Steady

\* Two equal counts.
LEMMA SameRefs ==
  ASSUME NEW R \in Refs, NEW Q \in Refs, \A c \in Chunk : Q[c] = R[c]
  PROVE  Q = R
BY DEF Refs

\* Which references a thread's step adds and gives up.
LEMMA RefsAdded ==
  ASSUME NEW f \in [Threads -> Local], NEW l \in Refs, NEW t \in Threads, NEW q \in Local
  PROVE  LET R == RefsOf(f, l)
             Q == RefsOf([f EXCEPT ![t] = q], l)
         IN  /\ R \in Refs /\ Q \in Refs
             /\ q.it = f[t].it /\ q.old = f[t].old => Q = R
             /\ \A c \in Chunk :
                  /\ f[t].it = NULL /\ q.it = c /\ q.old = f[t].old => Q = Plus(R, c)
                  /\ q.it = f[t].it /\ f[t].old = NULL /\ q.old = c => Q = Plus(R, c)
                  /\ f[t].it = c /\ q.it = NULL /\ q.old = f[t].old => Q = Less(R, c)
                  /\ q.it = f[t].it /\ f[t].old = c /\ q.old = NULL => Q = Less(R, c)
<1> DEFINE R == RefsOf(f, l)
           g == [f EXCEPT ![t] = q]
           Q == RefsOf(g, l)
<1>1. R \in Refs /\ Q \in Refs
  BY RefsType
<1>2. \A d \in Chunk : Q[d] = R[d] - Is(f[t].it, d) - Is(f[t].old, d)
                               + Is(q.it, d) + Is(q.old, d)
  <2>1. g[t] = q /\ \A u \in Threads : u # t => g[u] = f[u]
    OBVIOUS
  <2> HIDE DEF g
  <2> QED BY <2>1, RefsMove
<1>3. f[t].it = f[t].it /\ NULL \notin Chunk /\ \A d \in Chunk : R[d] \in Nat
  BY <1>1, Bounds DEF Refs
<1> HIDE DEF R, Q
<1>4. ASSUME q.it = f[t].it, q.old = f[t].old PROVE Q = R
  <2>1. \A d \in Chunk : Q[d] = R[d]
    BY <1>2, <1>3, <1>4 DEF Is
  <2> QED BY <1>1, <2>1, SameRefs
<1>5. ASSUME NEW c \in Chunk, \/ f[t].it = NULL /\ q.it = c /\ q.old = f[t].old
                              \/ q.it = f[t].it /\ f[t].old = NULL /\ q.old = c
      PROVE  Q = Plus(R, c)
  <2>1. \A d \in Chunk : Q[d] = Plus(R, c)[d]
    <3> SUFFICES ASSUME NEW d \in Chunk PROVE Q[d] = Plus(R, c)[d]
      OBVIOUS
    <3>1. Plus(R, c)[d] = R[d] + Is(c, d)
      BY <1>1, <1>3, PlusLess DEF Is
    <3> QED BY <1>2, <1>3, <1>5, <3>1 DEF Is
  <2> QED BY <1>1, <2>1, SameRefs, PlusLess
<1>6. ASSUME NEW c \in Chunk, \/ f[t].it = c /\ q.it = NULL /\ q.old = f[t].old
                              \/ q.it = f[t].it /\ f[t].old = c /\ q.old = NULL
      PROVE  Q = Less(R, c)
  <2>0. R[c] > 0
    BY <1>6, Held DEF R
  <2>1. \A d \in Chunk : Q[d] = Less(R, c)[d]
    <3> SUFFICES ASSUME NEW d \in Chunk PROVE Q[d] = Less(R, c)[d]
      OBVIOUS
    <3>1. Less(R, c)[d] = R[d] - Is(c, d)
      BY <1>1, <1>3, <2>0, PlusLess DEF Is
    <3> QED BY <1>2, <1>3, <1>6, <3>1 DEF Is
  <2> QED BY <1>1, <2>0, <2>1, SameRefs, PlusLess
<1> QED BY <1>1, <1>4, <1>5, <1>6 DEF R, Q

\* A step that leaves the item store alone.
LEMMA StillOK ==
  ASSUME IInv, NEW t \in Threads, NEW q \in Local, th' = [th EXCEPT ![t] = q], Shaped(q),
         q.pc = "idle" \/ th[t].pc # "idle", Quiet, leaked' = leaked, mem' = mem, rb' = rb,
         LocksKept(t), q.it = th[t].it, q.old = th[t].old,
         Knows(t, q, mem, RefsOf(th, leaked), ilock')
  PROVE  IInv' /\ HeldStep
<1> DEFINE R == RefsOf(th, leaked)
<1>1. /\ th \in [Threads -> Local] /\ leaked \in Refs /\ StoreOK(mem, R, NULL)
      /\ Rebalancing(mem, rb)
  BY Facts
<1>2. RefsOf(th', leaked) = R
  BY <1>1, RefsAdded
<1>3. Calm(mem, mem)
  BY CalmMarked
<1>4. Undisturbed(mem, mem, R, R, ilock, t, th[t])
  BY DEF Undisturbed
<1> QED BY <1>1, <1>2, <1>3, <1>4, QuietOK


\* Between commands a thread holds nothing.
LEMMA IdleShape ==
  /\ Idle \in Local /\ Shaped(Idle) /\ Idle.pc = "idle" /\ Idle.it = NULL /\ Idle.old = NULL
  /\ Idle.p = NULL
<1>1. /\ Idle.pc = "idle" /\ Idle.it = NULL /\ Idle.old = NULL /\ Idle.p = NULL
  BY DEF Idle
<1>2. <<>> \in Seq(Nat)
  OBVIOUS
<1>3. Idle \in Local
  BY <1>2 DEF Local, Idle, None, NULL, Private, Results
<1>4. Shaped(Idle)
  BY <1>1 DEF Shaped
<1> QED BY <1>1, <1>3, <1>4

\* The value of a store command has arrived (complete_nread), or never will.
LEMMA UploadedOK ==
  ASSUME IInv, NEW t \in Threads, Uploaded(t)
  PROVE  IInv' /\ HeldStep
<1> DEFINE R == RefsOf(th, leaked)
           z == th[t]
<1>1. /\ th \in [Threads -> Local] /\ z \in Local /\ Shaped(z) /\ Knows(t, z, mem, R, ilock)
  BY Facts
<1>2. z.pc = "upload" /\ LocksKept(t) /\ Quiet /\ leaked' = leaked /\ mem' = mem /\ rb' = rb
      /\ ilock' = ilock
  BY NoLock DEF Uploaded, NoLocks
<1> DEFINE a == [z EXCEPT !.pc = "lookup"]
           b == [z EXCEPT !.pc = "remove", !.res = "failed"]
<1>3. th' = [th EXCEPT ![t] = a] \/ th' = [th EXCEPT ![t] = b]
  BY <1>1 DEF Uploaded, Goto
<1>4. CASE th' = [th EXCEPT ![t] = a]
  <2>1. a \in Local /\ Shaped(a) /\ a.pc = "lookup" /\ a.it = z.it /\ a.old = z.old /\ a.k = z.k
    BY <1>1, <1>2 DEF Local, Shaped, Private
  <2> HIDE DEF a
  <2>2. Knows(t, a, mem, R, ilock')
    BY <1>1, <1>2, <2>1 DEF Knows, Private
  <2> QED BY <1>2, <1>4, <2>1, <2>2, StillOK
<1>5. CASE th' = [th EXCEPT ![t] = b]
  <2>1. b \in Local /\ Shaped(b) /\ b.pc = "remove" /\ b.it = z.it /\ b.old = z.old /\ b.k = z.k
    <3>1. \A x \in Local : [x EXCEPT !.pc = "remove", !.res = "failed"] \in Local
      BY DEF Local, Private, Results
    <3>2. b \in Local
      BY <1>1, <3>1, Zenon
    <3>3. /\ b.pc = "remove" /\ b.it = z.it /\ b.old = z.old /\ b.k = z.k /\ b.p = z.p
          /\ b.cmd = z.cmd
      BY <1>1 DEF Local
    <3> HIDE DEF b
    <3> QED BY <1>1, <1>2, <3>2, <3>3 DEF Shaped
  <2> HIDE DEF b
  <2>2. Knows(t, b, mem, R, ilock')
    BY <1>1, <1>2, <2>1 DEF Knows, Private
  <2> QED BY <1>2, <1>5, <2>1, <2>2, StillOK
<1> QED BY <1>3, <1>4, <1>5

\* The command takes the item lock and looks for its key.
LEMMA LookupOK ==
  ASSUME IInv, NEW t \in Threads, Lookup(t)
  PROVE  IInv' /\ HeldStep
<1> DEFINE R == RefsOf(th, leaked)
           z == th[t]
           p == assoc_find(mem, z.k)
           q == [z EXCEPT !.pc = "count", !.p = p]
<1>1. /\ th \in [Threads -> Local] /\ z \in Local /\ Shaped(z) /\ Knows(t, z, mem, R, ilock)
      /\ z.k \in Nat /\ StoreOK(mem, R, NULL)
  BY Facts DEF Local
<1>2. z.pc = "lookup" /\ Quiet /\ leaked' = leaked /\ mem' = mem /\ rb' = rb /\ item_lock(t, z.k)
  BY DEF Lookup
<1>3. LocksKept(t) /\ ilock'[LockOf(z.k)] = t
  BY <1>1, <1>2, Lock
<1>4. th' = [th EXCEPT ![t] = q]
  BY <1>1 DEF Lookup
<1>5. p \in Chunk \cup {NULL}
  BY <1>1, Finds
<1>6. p = assoc_find(mem, z.k)
  OBVIOUS
<1> HIDE DEF p
<1>7. q \in Local /\ Shaped(q) /\ q.pc = "count" /\ q.it = z.it /\ q.old = z.old /\ q.k = z.k
      /\ q.p = p
  BY <1>1, <1>2, <1>5 DEF Local, Shaped, Private
<1> HIDE DEF q
<1>8. Knows(t, q, mem, R, ilock')
  BY <1>1, <1>2, <1>3, <1>6, <1>7 DEF Knows, Private
<1> QED BY <1>2, <1>3, <1>4, <1>7, <1>8, StillOK

\* The command is over.
LEMMA ReturnOK ==
  ASSUME IInv, NEW t \in Threads, ReturnCmd(t)
  PROVE  IInv' /\ HeldStep
<1> DEFINE R == RefsOf(th, leaked)
           z == th[t]
<1>1. /\ th \in [Threads -> Local] /\ z \in Local /\ Shaped(z) /\ Knows(t, z, mem, R, ilock)
  BY Facts
<1>2. /\ z.pc = "return" /\ LocksKept(t) /\ Quiet /\ leaked' = leaked /\ mem' = mem /\ rb' = rb
      /\ ilock' = ilock /\ th' = [th EXCEPT ![t] = Idle]
  BY NoLock DEF ReturnCmd, NoLocks
<1>3. /\ Idle \in Local /\ Shaped(Idle) /\ Idle.pc = "idle" /\ Idle.it = NULL /\ Idle.old = NULL
  BY IdleShape
<1>4. z.it = NULL /\ z.old = NULL
  BY <1>1, <1>2 DEF Shaped
<1>5. Knows(t, Idle, mem, R, ilock')
  BY <1>3 DEF Knows, Private
<1> QED BY <1>2, <1>3, <1>4, <1>5, StillOK


\* References, busy threads and commands to come trade places, never growing in sum.
LEMMA LoadMoves ==
  ASSUME NEW a \in Nat, NEW b \in Nat, NEW o \in Nat
  PROVE  /\ o > 0 => Load(a, b + 1, o - 1) = Load(a, b, o)
         /\ b > 0 => Load(a + 1, b - 1, o) = Load(a, b, o)
         /\ b > 0 => Load(a, b - 1, o) <= Load(a, b, o)
<1>1. Cardinality(Threads) \in Nat
  BY StoreAssumption, FS_CardinalityType
<1> QED BY <1>1 DEF Load

\* One more thread runs a command.
LEMMA OneMoreBusy ==
  ASSUME NEW f \in [Threads -> Local], NEW t \in Threads, NEW q, f[t].pc = "idle", q.pc # "idle"
  PROVE  /\ Cardinality(Busy([f EXCEPT ![t] = q])) = Cardinality(Busy(f)) + 1
         /\ Cardinality(Busy(f)) \in Nat
<1>1. Busy([f EXCEPT ![t] = q]) = Busy(f) \cup {t} /\ t \notin Busy(f)
  BY DEF Busy
<1>2. IsFiniteSet(Busy(f))
  <2>1. IsFiniteSet(Threads) /\ Busy(f) \subseteq Threads
    BY StoreAssumption DEF Busy
  <2> QED BY <2>1, FS_Subset
<1> QED BY <1>1, <1>2, FS_AddElement, FS_CardinalityType

\* One command fewer is left in the scenario.
LEMMA OneLessOp ==
  ASSUME NEW s \in Scenario, s.ops > 0
  PROVE  LET n == [s EXCEPT !.ops = @ - 1]
         IN  n \in Scenario /\ n.ops = s.ops - 1 /\ n.flush = s.flush /\ n.expand = s.expand
<1>1. s.ops \in Nat /\ s.ops - 1 \in Nat
  BY DEF Scenario
<1>2. \A x \in Scenario, i \in Nat : [x EXCEPT !.ops = i] \in Scenario
  BY DEF Scenario
<1>3. LET n == [s EXCEPT !.ops = @ - 1]
      IN  n.ops = s.ops - 1 /\ n.flush = s.flush /\ n.expand = s.expand
  BY DEF Scenario
<1> QED BY <1>1, <1>2, <1>3

Fresh(pc, cmd, k, v, id, e) ==
  [Idle EXCEPT !.pc = pc, !.cmd = cmd, !.k = k, !.v = v, !.cas = id, !.exp = e]

\* A command starts without references.
LEMMA NewCommand ==
  ASSUME NEW pc \in {"alloc", "lookup"}, NEW cmd \in Commands, NEW k \in Keys, NEW v \in Seq(Nat),
         NEW id \in Nat, NEW e \in Nat, pc = "alloc" <=> cmd \in StoreCmds
  PROVE  LET q == Fresh(pc, cmd, k, v, id, e)
         IN  q \in Local /\ Shaped(q) /\ q.it = NULL /\ q.old = NULL /\ q.pc = pc
<1> DEFINE q == Fresh(pc, cmd, k, v, id, e)
           a == [Idle EXCEPT !.pc = pc, !.cmd = cmd, !.k = k]
<1>1. k \in Nat /\ Idle \in Local
  BY StoreAssumption, IdleShape DEF Keys
<1>2. a \in Local
  <2>1. \A x \in Local : [x EXCEPT !.pc = pc, !.cmd = cmd, !.k = k] \in Local
    BY <1>1 DEF Local, Private
  <2> QED BY <1>1, <2>1, Zenon
<1>3. q \in Local
  <2>1. \A x \in Local : [x EXCEPT !.v = v, !.cas = id, !.exp = e] \in Local
    BY DEF Local
  <2>2. q = [a EXCEPT !.v = v, !.cas = id, !.exp = e]
    BY DEF Fresh
  <2> HIDE DEF q, a
  <2> QED BY <1>2, <2>1, <2>2, Zenon
<1>4. /\ q.pc = pc /\ q.cmd = cmd /\ q.k = k /\ q.it = NULL /\ q.old = NULL /\ q.p = NULL
  BY DEF Fresh, Idle
<1> HIDE DEF q
<1>5. Shaped(q)
  BY <1>4 DEF Shaped
<1> QED BY <1>3, <1>4, <1>5 DEF q

\* A thread starts a command: item_alloc for a store, the lookup for the rest.
LEMMA BeginOK ==
  ASSUME IInv, NEW t \in Threads, Begin(t)
  PROVE  IInv' /\ HeldStep
<1> DEFINE R == RefsOf(th, leaked)
<1>1. /\ th \in [Threads -> Local] /\ Shaped(th[t]) /\ mem \in Memory /\ conf \in Scenario
      /\ now \in Nat /\ leaked \in Refs /\ R \in Refs /\ StoreOK(mem, R, NULL)
      /\ Rebalancing(mem, rb) /\ Crawling(mem, cr)
  BY Facts
<1>2. /\ th[t].pc = "idle" /\ conf.ops > 0 /\ conf' = [conf EXCEPT !.ops = @ - 1]
      /\ mem' = mem /\ rb' = rb /\ cr' = cr /\ leaked' = leaked /\ LocksKept(t) /\ ilock' = ilock
      /\ ltype' = ltype /\ mt' = mt /\ now' = now /\ oldest' = oldest
  BY NoLock DEF Begin, NoLocks
<1>3. /\ conf.ops \in Nat /\ conf.len \in Nat /\ conf.cmds \subseteq Commands /\ conf.exps \subseteq Nat
  BY <1>1 DEF Scenario
<1>4. PICK pc \in {"alloc", "lookup"}, cmd \in Commands, k \in Keys, v \in Seq(Nat), id \in Nat,
           e \in Nat :
        /\ pc = "alloc" <=> cmd \in StoreCmds
        /\ th' = [th EXCEPT ![t] = Fresh(pc, cmd, k, v, id, e)]
  <2>1. PICK cmd \in (IF t \in Testers THEN {"get"} ELSE conf.cmds), k \in Keys :
          \E e \in (IF cmd \in StoreCmds \cup {"touch"} THEN conf.exps ELSE {0}),
             id \in (IF cmd = "cas" THEN {mem.heap[c].cas : c \in Chunk} ELSE {0}) :
            th' = [th EXCEPT ![t] =
              [Idle EXCEPT !.pc = IF cmd \in StoreCmds THEN "alloc" ELSE "lookup",
                           !.cmd = cmd, !.k = k, !.v = [j \in 1 .. conf.len |-> k], !.cas = id,
                           !.exp = realtime(e)]]
    BY Zenon DEF Begin
  <2>2. PICK e \in (IF cmd \in StoreCmds \cup {"touch"} THEN conf.exps ELSE {0}),
             id \in (IF cmd = "cas" THEN {mem.heap[c].cas : c \in Chunk} ELSE {0}) :
            th' = [th EXCEPT ![t] =
              [Idle EXCEPT !.pc = IF cmd \in StoreCmds THEN "alloc" ELSE "lookup",
                           !.cmd = cmd, !.k = k, !.v = [j \in 1 .. conf.len |-> k], !.cas = id,
                           !.exp = realtime(e)]]
    BY <2>1, Zenon
  <2>3. cmd \in Commands
    BY <1>3 DEF Commands
  <2>4. e \in Nat /\ realtime(e) \in Nat
    BY <1>1, <1>3 DEF realtime
  <2>5. id \in Nat
    <3>1. \A c \in Chunk : mem.heap[c] \in Item
      BY <1>1 DEF Memory
    <3>2. \A c \in Chunk : mem.heap[c].cas \in Nat
      BY <3>1 DEF Item
    <3> QED BY <3>2
  <2>6. [j \in 1 .. conf.len |-> k] \in Seq(Nat)
    <3>1. k \in Nat
      BY StoreAssumption DEF Keys
    <3>2. [j \in 1 .. conf.len |-> k] \in [1 .. conf.len -> Nat]
      BY <3>1
    <3> QED BY <1>3, <3>2, SeqDef
  <2> DEFINE pc == IF cmd \in StoreCmds THEN "alloc" ELSE "lookup"
             v == [j \in 1 .. conf.len |-> k]
             i == realtime(e)
  <2>7. pc \in {"alloc", "lookup"} /\ (pc = "alloc" <=> cmd \in StoreCmds)
    OBVIOUS
  <2>8. th' = [th EXCEPT ![t] = Fresh(pc, cmd, k, v, id, i)]
    BY <2>2 DEF Fresh
  <2>9. v \in Seq(Nat) /\ i \in Nat
    BY <2>4, <2>6
  <2> HIDE DEF pc, v, i
  <2>10. cmd \in Commands /\ k \in Keys /\ id \in Nat
    BY <2>3, <2>5
  <2> QED BY ONLY <2>7, <2>8, <2>9, <2>10
<1> DEFINE q == Fresh(pc, cmd, k, v, id, e)
<1>5. q \in Local /\ Shaped(q) /\ q.it = NULL /\ q.old = NULL /\ q.pc \in {"alloc", "lookup"}
  <2>1. /\ pc \in {"alloc", "lookup"} /\ cmd \in Commands /\ k \in Keys /\ v \in Seq(Nat)
        /\ id \in Nat /\ e \in Nat /\ (pc = "alloc" <=> cmd \in StoreCmds)
    BY <1>4
  <2>2. q \in Local /\ Shaped(q) /\ q.it = NULL /\ q.old = NULL /\ q.pc = pc
    BY ONLY <2>1, NewCommand
  <2> QED BY <2>1, <2>2
<1>6. th' = [th EXCEPT ![t] = q]
  BY <1>4
<1> HIDE DEF q
<1>7. th[t].it = NULL /\ th[t].old = NULL
  BY <1>1, <1>2, IdleShape DEF Shaped
<1>8. RefsOf(th', leaked') = R
  <2>1. RefsOf(th', leaked) = R
    <3>1. th \in [Threads -> Local] /\ leaked \in Refs /\ q \in Local
      BY <1>1, <1>5
    <3>2. q.it = th[t].it /\ q.old = th[t].old
      BY <1>5, <1>7
    <3> QED BY <1>6, <3>1, <3>2, RefsAdded
  <2> QED BY <1>2, <2>1
<1>9. NoGrowth'
  <2>1. conf' \in Scenario /\ conf'.flush = conf.flush /\ conf'.expand = conf.expand
    BY <1>1, <1>2, OneLessOp
  <2> QED BY <1>2, <2>1 DEF IInv, NoGrowth, Steady, LocksKept
<1>10. FewRefs(th', leaked', conf'.ops)
  <2>1. conf'.ops = conf.ops - 1
    BY <1>1, <1>2, OneLessOp
  <2>2. Cardinality(Busy(th')) = Cardinality(Busy(th)) + 1 /\ Cardinality(Busy(th)) \in Nat
    BY <1>1, <1>2, <1>5, <1>6, OneMoreBusy
  <2>3. FewRefs(th, leaked, conf.ops)
    BY DEF IInv
  <2>4. Cardinality(Threads) \in Nat /\ \A c \in Chunk : leaked[c] \in Nat
    BY <1>1, StoreAssumption, FS_CardinalityType DEF Refs
  <2>5. ASSUME NEW c \in Chunk
        PROVE  Load(leaked[c], Cardinality(Busy(th')), conf'.ops) < MaxRef
    <3>1. Load(leaked[c], Cardinality(Busy(th)), conf.ops) < MaxRef
      BY <2>3 DEF FewRefs
    <3>2. leaked[c] \in Nat /\ conf.ops \in Nat /\ Cardinality(Busy(th)) \in Nat
      BY <1>3, <2>2, <2>4
    <3> QED BY <1>2, <2>1, <2>2, <3>1, <3>2, LoadMoves
  <2> QED BY <1>2, <2>5 DEF FewRefs
<1>11. Undisturbed(mem, mem', R, R, ilock, t, th[t])
  BY <1>2 DEF Undisturbed
<1>12. Knows(t, q, mem', R, ilock')
  BY <1>5 DEF Knows
<1> QED BY <1>1, <1>2, <1>5, <1>6, <1>8, <1>9, <1>10, <1>11, <1>12, ThreadOK


\* A thread's own item.
LEMMA OwnItem ==
  ASSUME IInv, NEW t \in Threads, th[t].it # NULL
  PROVE  LET c == th[t].it
             R == RefsOf(th, leaked)
         IN  /\ c \in Chunk /\ R[c] \in Nat /\ R[c] > 0 /\ R[c] + 3 < MaxRef
             /\ mem.heap[c].ref > 0 /\ mem.heap[c].key = th[t].k /\ th[t].k \in Nat
<1> DEFINE c == th[t].it
           R == RefsOf(th, leaked)
<1>1. /\ c \in Chunk /\ th[t].k \in Nat /\ Knows(t, th[t], mem, R, ilock) /\ leaked \in Refs
      /\ StoreOK(mem, R, NULL)
  BY Facts DEF Local
<1>2. R[c] > 0
  BY <1>1, Held
<1>3. R[c] \in Nat /\ R[c] + 3 < MaxRef
  BY <1>1, Bounded
<1>4. mem.heap[c].key = th[t].k
  BY <1>1 DEF Knows
<1> HIDE DEF R, c
<1>5. mem.heap[c].ref > 0
  BY <1>1, <1>2, <1>3 DEF StoreOK, Counted
<1> QED BY <1>1, <1>2, <1>3, <1>4, <1>5 DEF R, c

\* A lock that can be taken is nobody's.
LEMMA LockFree ==
  ASSUME IInv, NEW t \in Threads, NEW hv, CanLock(t, hv)
  PROVE  ilock[LockOf(hv)] = None
BY DEF IInv, NoGrowth, CanLock

\* A step that moves nothing in or out of the hash table.
LEMMA Peaceful ==
  ASSUME NEW m, NEW n, NEW R, NEW Q, NEW lk, NEW t, NEW q, \A d \in Chunk : Same(m, n, d),
         \A d \in Chunk : Q[d] # R[d] => d \in {q.it, q.old} \/ R[d] = 0 \/ IsLinked(m, d)
  PROVE  Undisturbed(m, n, R, Q, lk, t, q)
BY DEF Undisturbed, Same

\* item_unlink, for delete and for a set that found no memory.
LEMMA ItemUnlinkOK ==
  ASSUME IInv, NEW t \in Threads, ItemUnlink(t)
  PROVE  IInv' /\ HeldStep
<1> DEFINE R == RefsOf(th, leaked)
           z == th[t]
           c == z.it
           q == [z EXCEPT !.pc = "remove", !.res = IF z.cmd = "delete" THEN "DELETED" ELSE @,
                          !.out = <<>>]
<1>1. /\ th \in [Threads -> Local] /\ z \in Local /\ Shaped(z) /\ Knows(t, z, mem, R, ilock)
      /\ leaked \in Refs /\ R \in Refs /\ StoreOK(mem, R, NULL) /\ Rebalancing(mem, rb)
      /\ mem \in Memory
  BY Facts
<1>2. /\ z.pc = "unlink" /\ LocksKept(t) /\ Quiet /\ leaked' = leaked /\ rb' = rb /\ ilock' = ilock
      /\ mem' = do_item_unlink(mem, c) /\ CanLock(t, z.k)
  BY NoLock DEF ItemUnlink, NoLocks
<1>3. c # NULL
  BY <1>1, <1>2 DEF Shaped
<1>4. /\ c \in Chunk /\ R[c] \in Nat /\ R[c] > 0 /\ R[c] + 2 < MaxRef /\ mem.heap[c].key = z.k
  BY <1>3, OwnItem, Bounds
<1>5. th' = [th EXCEPT ![t] = q]
  BY <1>1 DEF ItemUnlink
<1>6. /\ q \in Local /\ q.pc = "remove" /\ q.it = c /\ q.old = z.old /\ q.k = z.k /\ q.p = z.p
      /\ q.cmd = z.cmd
  <2>1. \A x \in Local, r \in Results : [x EXCEPT !.pc = "remove", !.res = r, !.out = <<>>] \in Local
    <3>1. <<>> \in Seq(Nat)
      OBVIOUS
    <3> QED BY <3>1 DEF Local, Private
  <2>2. (IF z.cmd = "delete" THEN "DELETED" ELSE z.res) \in Results
    BY <1>1 DEF Local, Results
  <2>3. q \in Local
    BY <1>1, <2>1, <2>2, Zenon
  <2> QED BY <1>1, <2>3 DEF Local
<1> HIDE DEF q, c, R
<1>7. Shaped(q)
  BY <1>1, <1>2, <1>3, <1>6 DEF Shaped, c
<1>8. /\ StoreOK(mem', R, NULL) /\ Calm(mem, mem') /\ \A d \in Chunk : d # c => Same(mem, mem', d)
      /\ ~IsLinked(mem', c) /\ mem'.heap[c].key = mem.heap[c].key /\ mem'.heap[c].val = mem.heap[c].val
  BY <1>1, <1>2, <1>4, UnlinkStep
<1>9. RefsOf(th', leaked) = R
  BY <1>1, <1>5, <1>6, RefsAdded DEF R, c
<1>10. Undisturbed(mem, mem', R, R, ilock, t, z)
  <2>1. ilock[LockOf(mem.heap[c].key)] = None
    BY <1>2, <1>4, LockFree
  <2> QED BY <1>8, <2>1 DEF Undisturbed, Same
<1>11. Knows(t, q, mem', R, ilock')
  BY <1>4, <1>6, <1>8 DEF Knows, Private
<1>12. Rebalancing(mem', rb')
  BY <1>1, <1>2, <1>8, RebalKept
<1> QED BY <1>2, <1>5, <1>6, <1>7, <1>8, <1>9, <1>10, <1>11, <1>12, QuietOK DEF R

\* The command drops its reference (item_remove).
LEMMA ItemRemoveOK ==
  ASSUME IInv, NEW t \in Threads, ItemRemove(t)
  PROVE  IInv' /\ HeldStep
<1> DEFINE R == RefsOf(th, leaked)
           z == th[t]
           c == z.it
<1>1. /\ th \in [Threads -> Local] /\ z \in Local /\ Shaped(z) /\ Knows(t, z, mem, R, ilock)
      /\ leaked \in Refs /\ R \in Refs /\ StoreOK(mem, R, NULL) /\ Rebalancing(mem, rb)
      /\ mem \in Memory
  BY Facts
<1>2. /\ z.pc = "remove" /\ LocksKept(t) /\ Quiet /\ leaked' = leaked /\ rb' = rb /\ ilock' = ilock
      /\ mem' = do_item_remove(mem, c) /\ th' = [th EXCEPT ![t] = Idle]
  BY NoLock DEF ItemRemove, NoLocks
<1>3. c # NULL /\ z.old = NULL
  BY <1>1, <1>2 DEF Shaped
<1>4. c \in Chunk /\ R[c] \in Nat /\ R[c] > 0 /\ R[c] + 1 < MaxRef
  BY <1>3, OwnItem, Bounds
<1> HIDE DEF c, R
<1>5. /\ StoreOK(mem', Less(R, c), NULL) /\ Calm(mem, mem') /\ \A d \in Chunk : Same(mem, mem', d)
  BY <1>1, <1>2, <1>4, RemoveStep
<1>6. RefsOf(th', leaked) = Less(R, c)
  <2>1. th \in [Threads -> Local] /\ leaked \in Refs /\ Idle \in Local
    BY <1>1, IdleShape
  <2>2. z.it = c /\ Idle.it = NULL /\ Idle.old = z.old
    BY <1>3, IdleShape DEF c
  <2> QED BY <1>2, <1>4, <2>1, <2>2, RefsAdded DEF R
<1>7. Undisturbed(mem, mem', R, Less(R, c), ilock, t, z)
  <2>1. \A d \in Chunk : Less(R, c)[d] # R[d] => d = z.it
    BY <1>1, <1>4, PlusLess DEF c
  <2> QED BY <1>5, <2>1, Peaceful
<1>8. Knows(t, Idle, mem', Less(R, c), ilock')
  BY IdleShape DEF Knows, Private
<1>9. Rebalancing(mem', rb')
  BY <1>1, <1>2, <1>5, RebalKept
<1> QED BY <1>2, <1>5, <1>6, <1>7, <1>8, <1>9, IdleShape, QuietOK DEF R


\* One thread fewer runs a command.
LEMMA OneLessBusy ==
  ASSUME NEW f \in [Threads -> Local], NEW t \in Threads, f[t].pc # "idle"
  PROVE  /\ Cardinality(Busy([f EXCEPT ![t] = Idle])) = Cardinality(Busy(f)) - 1
         /\ Cardinality(Busy(f)) \in Nat /\ Cardinality(Busy(f)) > 0
<1>1. Busy([f EXCEPT ![t] = Idle]) = Busy(f) \ {t} /\ t \in Busy(f)
  BY IdleShape DEF Busy
<1>2. IsFiniteSet(Busy(f))
  <2>1. IsFiniteSet(Threads) /\ Busy(f) \subseteq Threads
    BY StoreAssumption DEF Busy
  <2> QED BY <2>1, FS_Subset
<1>3. Cardinality(Busy(f)) \in Nat /\ Cardinality(Busy(f)) # 0
  BY <1>1, <1>2, FS_EmptySet, FS_CardinalityType
<1>4. Cardinality(Busy(f) \ {t}) = Cardinality(Busy(f)) - 1
  BY <1>1, <1>2, FS_RemoveElement
<1>5. Cardinality(Busy(f)) > 0
  <2> HIDE DEF Busy
  <2> QED BY <1>3
<1> QED BY <1>1, <1>3, <1>4, <1>5

\* A reference test_zipfian forgets is still counted.
LEMMA Forgotten ==
  ASSUME NEW f \in [Threads -> Local], NEW l \in Refs, NEW t \in Threads, NEW c \in Chunk,
         f[t].it = c, f[t].old = NULL
  PROVE  RefsOf([f EXCEPT ![t] = Idle], Plus(l, c)) = RefsOf(f, l)
<1> DEFINE g == [f EXCEPT ![t] = Idle]
           k == Plus(l, c)
<1>1. k \in Refs /\ k[c] = l[c] + 1 /\ \A d \in Chunk : d # c => k[d] = l[d]
  BY PlusLess
<1>2. RefsOf(g, l) \in Refs /\ RefsOf(f, l) \in Refs /\ RefsOf(g, k) \in Refs
  BY <1>1, RefsType
<1>3. RefsOf(f, l)[c] > 0 /\ RefsOf(g, l) = Less(RefsOf(f, l), c)
  <2>1. Idle.it = NULL /\ Idle.old = NULL /\ Idle \in Local
    BY IdleShape
  <2>2. RefsOf(f, l)[c] > 0
    BY Held
  <2>3. RefsOf(g, l) = Less(RefsOf(f, l), c)
    BY ONLY <2>1, f \in [Threads -> Local], l \in Refs, t \in Threads, c \in Chunk,
       f[t].it = c, Idle.old = f[t].old, RefsAdded
  <2> QED BY <2>2, <2>3
<1> HIDE DEF g, k
<1>4. ASSUME NEW d \in Chunk PROVE RefsOf(g, k)[d] = RefsOf(f, l)[d]
  <2>1. /\ RefsOf(g, k)[d] = k[d] + Cardinality(Its(g, d)) + Cardinality(Olds(g, d))
        /\ RefsOf(g, l)[d] = l[d] + Cardinality(Its(g, d)) + Cardinality(Olds(g, d))
        /\ Cardinality(Its(g, d)) \in Nat /\ Cardinality(Olds(g, d)) \in Nat
        /\ l[d] \in Nat /\ k[d] \in Nat /\ RefsOf(f, l)[d] \in Nat
    BY <1>1, RefsBound
  <2>2. RefsOf(g, l)[d] = IF d = c THEN RefsOf(f, l)[d] - 1 ELSE RefsOf(f, l)[d]
    BY <1>2, <1>3, PlusLess
  <2> QED BY <1>1, <2>1, <2>2
<1> QED BY <1>2, <1>4, SameRefs DEF g, k

\* item_update moves the item to the head of its LRU list.
LEMMA ItemUpdateOK ==
  ASSUME IInv, NEW t \in Threads, ItemUpdate(t)
  PROVE  IInv' /\ HeldStep
<1> DEFINE R == RefsOf(th, leaked)
           z == th[t]
           c == z.it
           q == [z EXCEPT !.pc = "remove"]
<1>1. /\ th \in [Threads -> Local] /\ z \in Local /\ Shaped(z) /\ Knows(t, z, mem, R, ilock)
      /\ leaked \in Refs /\ R \in Refs /\ StoreOK(mem, R, NULL) /\ Rebalancing(mem, rb)
      /\ Crawling(mem, cr) /\ mem \in Memory /\ now \in Nat /\ conf.ops \in Nat
  BY Facts DEF Scenario
<1>2. /\ z.pc = "update" /\ LocksKept(t) /\ Quiet /\ rb' = rb /\ ilock' = ilock
      /\ mem' = do_item_update(mem, c)
  BY NoLock DEF ItemUpdate, NoLocks
<1>3. c # NULL /\ z.old = NULL
  BY <1>1, <1>2 DEF Shaped
<1>4. /\ c \in Chunk /\ mem.heap[c].ref > 0 /\ mem.heap[c].key = z.k
  BY <1>3, OwnItem
<1>5. /\ StoreOK(mem', R, NULL) /\ Calm(mem, mem') /\ \A d \in Chunk : Same(mem, mem', d)
  BY <1>1, <1>2, <1>4, UpdateStep
<1>6. Undisturbed(mem, mem', R, R, ilock, t, z)
  BY <1>5, Peaceful
<1>7. Rebalancing(mem', rb') /\ Crawling(mem', cr')
  BY <1>1, <1>2, <1>5, RebalKept, CrawlKept DEF Quiet
<1>8. CASE t \in Testers
  <2>1. th' = [th EXCEPT ![t] = Idle] /\ leaked' = Plus(leaked, c)
    BY <1>8 DEF ItemUpdate, Plus
  <2>2. RefsOf(th', leaked') = R
    BY <1>1, <1>3, <1>4, <2>1, Forgotten
  <2>3. leaked' \in Refs /\ leaked'[c] = leaked[c] + 1
        /\ \A d \in Chunk : d # c => leaked'[d] = leaked[d]
    BY <1>1, <1>4, <2>1, PlusLess
  <2>4. /\ Cardinality(Busy(th')) = Cardinality(Busy(th)) - 1
        /\ Cardinality(Busy(th)) \in Nat /\ Cardinality(Busy(th)) > 0
    BY <1>1, <1>2, <2>1, OneLessBusy
  <2>5. ASSUME NEW d \in Chunk
        PROVE  Load(leaked'[d], Cardinality(Busy(th')), conf'.ops) < MaxRef
    <3>1. leaked[d] \in Nat /\ conf'.ops = conf.ops
      BY <1>1, <1>2 DEF Refs, Quiet
    <3>2. Load(leaked[d], Cardinality(Busy(th)), conf.ops) < MaxRef
      BY DEF IInv, FewRefs
    <3>3. CASE d = c
      BY <1>1, <2>3, <2>4, <3>1, <3>2, <3>3, LoadMoves
    <3>4. CASE d # c
      <4>1. Load(leaked[d], Cardinality(Busy(th)) - 1, conf.ops)
              <= Load(leaked[d], Cardinality(Busy(th)), conf.ops)
        BY <1>1, <2>4, <3>1, LoadMoves
      <4>2. Cardinality(Threads) \in Nat
        BY StoreAssumption, FS_CardinalityType
      <4>3. /\ Load(leaked[d], Cardinality(Busy(th)) - 1, conf.ops) \in Int
            /\ Load(leaked[d], Cardinality(Busy(th)), conf.ops) \in Int
        BY <1>1, <2>4, <3>1, <4>2 DEF Load
      <4> QED BY <2>3, <2>4, <3>1, <3>2, <3>4, <4>1, <4>3, Bounds
    <3> QED BY <3>3, <3>4
  <2>6. FewRefs(th', leaked', conf'.ops)
    BY <2>5 DEF FewRefs
  <2>7. NoGrowth'
    BY <1>2 DEF IInv, NoGrowth, Quiet, LocksKept, Steady
  <2>8. Knows(t, Idle, mem', R, ilock')
    BY IdleShape DEF Knows, Private
  <2> HIDE DEF R
  <2> QED BY <1>2, <1>5, <1>6, <1>7, <2>1, <2>2, <2>3, <2>6, <2>7, <2>8, IdleShape, ThreadOK DEF R
<1>9. CASE t \notin Testers
  <2>1. th' = [th EXCEPT ![t] = q] /\ leaked' = leaked
    BY <1>1, <1>9 DEF ItemUpdate, Goto
  <2>2. /\ q \in Local /\ Shaped(q) /\ q.pc = "remove" /\ q.it = c /\ q.old = z.old /\ q.k = z.k
    BY <1>1, <1>2, <1>3 DEF Local, Shaped, Private
  <2> HIDE DEF q
  <2>3. RefsOf(th', leaked) = R
    BY <1>1, <2>1, <2>2, RefsAdded
  <2>4. Knows(t, q, mem', R, ilock')
    BY <1>4, <1>5, <2>2 DEF Knows, Private, Same
  <2> HIDE DEF R, c
  <2> QED BY <1>2, <1>5, <1>6, <1>7, <2>1, <2>2, <2>3, <2>4, QuietOK DEF R
<1> QED BY <1>8, <1>9

\* Allocation disturbs nobody.
LEMMA AllocQuiet ==
  ASSUME NEW m, NEW a, NEW R \in Refs, NEW k, NEW v, NEW hv, NEW t, NEW q,
         Allocated(m, a, R, k, v, hv)
  PROVE  Undisturbed(m, a.m, R, IF a.it = NULL THEN R ELSE Plus(R, a.it), ilock, t, q)
<1>1. ASSUME NEW d \in Chunk, d # a.it
      PROVE  Same(m, a.m, d) /\ (IF a.it = NULL THEN R ELSE Plus(R, a.it))[d] = R[d]
  <2>1. Same(m, a.m, d)
    BY <1>1 DEF Allocated
  <2>2. a.it # NULL => a.it \in Chunk
    BY DEF Allocated
  <2> QED BY <1>1, <2>1, <2>2, PlusLess
<1>2. ASSUME a.it \in Chunk
      PROVE  /\ R[a.it] = 0 /\ ~IsLinked(a.m, a.it)
             /\ IsLinked(m, a.it) => ilock[LockOf(m.heap[a.it].key)] = None
  <2>1. a.it # NULL
    BY <1>2, Bounds
  <2> QED BY <2>1 DEF Allocated, item_trylock
<1> QED BY <1>1, <1>2 DEF Undisturbed, Same

\* item_alloc of a storage command: a new item of its own, or none.
LEMMA ItemAllocOK ==
  ASSUME IInv, NEW t \in Threads, ItemAlloc(t)
  PROVE  IInv' /\ HeldStep
<1> DEFINE R == RefsOf(th, leaked)
           z == th[t]
           a == do_item_alloc(mem, z.k, z.v, z.exp, 0)
<1>1. /\ th \in [Threads -> Local] /\ z \in Local /\ Shaped(z) /\ Knows(t, z, mem, R, ilock)
      /\ leaked \in Refs /\ R \in Refs /\ StoreOK(mem, R, NULL) /\ Rebalancing(mem, rb)
      /\ mem \in Memory /\ now \in Nat
  BY Facts
<1>2. /\ z.pc = "alloc" /\ LocksKept(t) /\ Quiet /\ leaked' = leaked /\ ilock' = ilock
      /\ mem' = a.m /\ AfterAlloc(a, slabs_clsid(Len(z.v)))
  BY NoLock DEF ItemAlloc, NoLocks
<1>3. z.it = NULL /\ z.old = NULL /\ z.p = NULL /\ z.cmd \in StoreCmds /\ z.k \in Keys
  BY <1>1, <1>2 DEF Shaped
<1>4. z.k \in Nat /\ z.v \in Seq(Nat) /\ z.exp \in Nat
  BY <1>1 DEF Local
<1>5. Allocated(mem, a, R, z.k, z.v, 0)
  BY <1>1, <1>4, AllocStep
<1>6. Undisturbed(mem, mem', R, IF a.it = NULL THEN R ELSE Plus(R, a.it), ilock, t, z)
  <2> HIDE DEF a
  <2> QED BY <1>1, <1>2, <1>5, AllocQuiet
<1>7. Calm(mem, mem')
  BY <1>2, <1>5 DEF Allocated
<1>8. Rebalancing(mem', rb')
  <2>1. Rebalancing(mem', rb)
    BY <1>1, <1>7, RebalKept
  <2> QED BY <1>1, <1>2, <1>4, <2>1, AfterAllocStep
<1>9. CASE a.it # NULL
  <2> DEFINE c == a.it
             q == [z EXCEPT !.pc = "upload", !.it = c]
  <2>1. th' = [th EXCEPT ![t] = q]
    BY <1>1, <1>9, ZenonT(30) DEF ItemAlloc
  <2>2. /\ c \in Chunk /\ R[c] = 0 /\ StoreOK(mem', Plus(R, c), NULL) /\ ~IsLinked(mem', c)
        /\ mem'.heap[c].key = z.k
    BY <1>2, <1>5, <1>9, Zenon DEF Allocated
  <2> HIDE DEF a, c
  <2>3. /\ q \in Local /\ q.pc = "upload" /\ q.it = c /\ q.old = z.old /\ q.k = z.k /\ q.p = z.p
        /\ q.cmd = z.cmd
    BY <1>1, <2>2 DEF Local, Private
  <2> HIDE DEF q
  <2>4. Shaped(q)
    BY <1>3, <1>9, <2>3 DEF Shaped, c
  <2>5. RefsOf(th', leaked) = Plus(R, c)
    BY <1>1, <1>3, <2>1, <2>2, <2>3, RefsAdded
  <2>6. Plus(R, c)[c] = 1
    BY <1>1, <2>2, PlusLess
  <2>7. Knows(t, q, mem', Plus(R, c), ilock')
    BY <2>2, <2>3, <2>6 DEF Knows
  <2>8. Undisturbed(mem, mem', R, Plus(R, c), ilock, t, z)
    BY <1>6, <1>9 DEF c
  <2>9. z.pc # "idle"
    BY <1>2
  <2> HIDE DEF R
  <2> QED BY <1>2, <1>7, <1>8, <2>1, <2>2, <2>3, <2>4, <2>5, <2>7, <2>8, <2>9, QuietOK DEF R
<1>10. CASE a.it = NULL
  <2> DEFINE q == [z EXCEPT !.pc = IF z.cmd = "set" THEN "lookup" ELSE "return",
                            !.cmd = IF z.cmd = "set" THEN "purge" ELSE @, !.res = "failed"]
  <2>1. th' = [th EXCEPT ![t] = q]
    BY <1>1, <1>10 DEF ItemAlloc
  <2>2. StoreOK(mem', R, NULL)
    BY <1>2, <1>5, <1>10 DEF Allocated
  <2>3. q \in Local
    <3>1. CASE z.cmd = "set"
      BY <1>1, <3>1 DEF Local, Private, Results
    <3>2. CASE z.cmd # "set"
      BY <1>1, <3>2, ZenonT(30) DEF Local, Private, Results
    <3> QED BY <3>1, <3>2
  <2>4. /\ q.it = NULL /\ q.old = NULL /\ q.k = z.k /\ q.p = NULL
        /\ \/ q.pc = "lookup" /\ q.cmd = "purge"
           \/ q.pc = "return"
    BY <1>1, <1>3 DEF Local
  <2> HIDE DEF q, a
  <2>5. Shaped(q)
    BY <1>3, <2>4 DEF Shaped, StoreCmds
  <2>6. RefsOf(th', leaked) = R
    <3>1. q.it = z.it /\ q.old = z.old
      BY <1>3, <2>4
    <3> QED BY <1>1, <2>1, <2>3, <3>1, RefsAdded
  <2>7. Knows(t, q, mem', R, ilock')
    BY <2>4 DEF Knows
  <2>8. Undisturbed(mem, mem', R, R, ilock, t, z)
    BY <1>6, <1>10
  <2>9. z.pc # "idle"
    BY <1>2
  <2> HIDE DEF R
  <2> QED BY <1>2, <1>7, <1>8, <2>1, <2>2, <2>3, <2>5, <2>6, <2>7, <2>8, <2>9, QuietOK DEF R
<1> QED BY <1>9, <1>10

\* The second half of do_item_get, with the item lock held since the lookup.
Got(g, z, R, Q) ==
  /\ Q \in Refs /\ StoreOK(g.m, Q, NULL) /\ Calm(mem, g.m)
  /\ g.it = NULL => Q = R
  /\ g.it # NULL => g.it \in Chunk /\ Q = Plus(R, g.it) /\ g.m.heap[g.it].key = z.k
                    /\ mem.heap[g.it] \in Item /\ R[g.it] + 3 < MaxRef
  /\ g.it = assoc_find(g.m, z.k)
  /\ z.it # NULL => g.m.heap[z.it].key = z.k /\ ~IsLinked(g.m, z.it) /\ Q[z.it] = 1

\* do_item_get after the lookup: the item it found is still the one linked under the
\* key, because the item lock is held, and gets one reference.
LEMMA GetQuiet ==
  ASSUME IInv, NEW t \in Threads, th[t].pc = "count", NEW g, g = do_item_get(mem, th[t].p)
  PROVE  \E Q : /\ Got(g, th[t], RefsOf(th, leaked), Q)
                /\ Undisturbed(mem, g.m, RefsOf(th, leaked), Q, ilock, t, th[t])
<1> DEFINE R == RefsOf(th, leaked)
           z == th[t]
           p == z.p
           Q == IF g.it = NULL THEN R ELSE Plus(R, g.it)
<1>1. /\ z \in Local /\ Shaped(z) /\ Knows(t, z, mem, R, ilock) /\ R \in Refs
      /\ StoreOK(mem, R, NULL) /\ mem \in Memory
  BY Facts
<1>2. /\ z.k \in Nat /\ p = assoc_find(mem, z.k) /\ ilock[LockOf(z.k)] = t
      /\ z.it \in Chunk \cup {NULL}
  BY <1>1 DEF Knows, Local
<1>3. /\ p # NULL => p \in Chunk /\ IsLinked(mem, p) /\ mem.heap[p].key = z.k
      /\ \A c \in Chunk : IsLinked(mem, c) /\ mem.heap[c].key = z.k => p = c
  BY <1>1, <1>2, Finds
<1>4. p # NULL => R[p] + 3 < MaxRef
  BY <1>3, Bounded
<1> HIDE DEF R, p
<1>5. /\ Calm(mem, g.m) /\ (\A d \in Chunk : d # p => Same(mem, g.m, d))
      /\ g.it = NULL => StoreOK(g.m, R, NULL) /\ (p # NULL => ~IsLinked(g.m, p))
      /\ g.it # NULL => /\ g.it = p /\ p \in Chunk /\ StoreOK(g.m, Plus(R, p), NULL)
                        /\ IsLinked(g.m, p)
      /\ p # NULL => g.m.heap[p].key = mem.heap[p].key /\ g.m.heap[p].val = mem.heap[p].val
  <2>1. g = do_item_get(mem, p)
    BY DEF p
  <2> QED BY <1>1, <1>3, <1>4, <2>1, GetStep
<1>6. Q \in Refs /\ StoreOK(g.m, Q, NULL)
  BY <1>1, <1>5, PlusLess
<1>7. \A d \in Chunk : d # p => Q[d] = R[d]
  BY <1>1, <1>5, PlusLess
<1>8. g.it = assoc_find(g.m, z.k)
  <2>1. CASE g.it # NULL
    <3>1. p \in Chunk /\ IsLinked(g.m, p) /\ g.m.heap[p].key = z.k
      BY <1>3, <1>5, <2>1
    <3> QED BY <1>2, <1>5, <1>6, <2>1, <3>1, Finds
  <2>2. CASE g.it = NULL
    <3>1. \A c \in Chunk : ~(IsLinked(g.m, c) /\ g.m.heap[c].key = z.k)
      BY <1>3, <1>5, <2>2, Bounds DEF Same
    <3> QED BY <1>2, <1>6, <2>2, <3>1, Finds
  <2> QED BY <2>1, <2>2
<1>9. ASSUME z.it # NULL
      PROVE  g.m.heap[z.it].key = z.k /\ ~IsLinked(g.m, z.it) /\ Q[z.it] = 1
  <2>1. z.it \in Chunk /\ mem.heap[z.it].key = z.k /\ ~IsLinked(mem, z.it) /\ R[z.it] = 1
    BY <1>1, <1>2, <1>9 DEF Knows, Private
  <2>2. z.it # p
    BY <1>3, <1>9, <2>1
  <2> QED BY <1>5, <1>7, <2>1, <2>2 DEF Same
<1>10. mem.heap[g.it] \in Item \/ g.it = NULL
  BY <1>1, <1>5 DEF Memory
<1> HIDE DEF Q
<1>11. Undisturbed(mem, g.m, R, Q, ilock, t, z)
  BY <1>2, <1>3, <1>5, <1>7, Bounds, SMTT(30) DEF Undisturbed, Same
<1>12. Got(g, z, R, Q)
  BY <1>3, <1>4, <1>5, <1>6, <1>8, <1>9, <1>10 DEF Got, Q
<1> QED BY <1>11, <1>12 DEF R

\* A new expiry time.
LEMMA TouchStep ==
  ASSUME NEW m, NEW R \in Refs, NEW c \in Chunk, StoreOK(m, R, NULL), NEW e \in Nat
  PROVE  LET n == [m EXCEPT !.heap[c].exp = e]
         IN  StoreOK(n, R, NULL) /\ Calm(m, n) /\ \A d \in Chunk : Same(m, n, d)
<1> DEFINE y == [m.heap[c] EXCEPT !.exp = e]
           n == [m EXCEPT !.heap[c] = y]
<1>1. m \in Memory /\ Counted(m, R)
  BY DEF StoreOK
<1>2. m.heap[c] \in Item
  BY <1>1 DEF Memory
<1>3. /\ y \in Item /\ SameRole(m.heap[c], y) /\ y.ref = m.heap[c].ref /\ y.fl = m.heap[c].fl
      /\ y.key = m.heap[c].key /\ y.val = m.heap[c].val
  BY <1>2 DEF Item, SameRole
<1> HIDE DEF y
<1>4. /\ n \in Memory /\ n.heap[c] = y /\ Rest(m, n)
      /\ \A d \in Chunk : d # c => n.heap[d] = m.heap[d]
  BY <1>1, <1>3, SetHeader
<1> HIDE DEF n
<1>5. n.heap[c].ref = (IF IsLinked(m, c) THEN 1 ELSE 0) + R[c]
  BY <1>1, <1>3, <1>4 DEF Counted
<1>6. StoreOK(n, R, NULL) /\ Calm(m, n) /\ \A d \in Chunk : d # c => Same(m, n, d)
  BY <1>3, <1>4, <1>5, HeaderStep
<1>7. Same(m, n, c)
  BY <1>3, <1>4, SMTT(30) DEF Same, IsLinked
<1> QED BY <1>6, <1>7 DEF n, y

\* item_get and item_touch.
LEMMA ItemGetOK ==
  ASSUME IInv, NEW t \in Threads, ItemGet(t)
  PROVE  IInv' /\ HeldStep
<1> DEFINE R == RefsOf(th, leaked)
           z == th[t]
           g == do_item_get(mem, z.p)
           del == z.cmd \in {"delete", "purge"}
           ans == CASE z.cmd = "purge" -> z.out [] z.cmd = "delete" -> <<mem.heap[g.it].cas>>
                    [] OTHER -> mem.heap[g.it].val
           q == IF g.it = NULL
                THEN [z EXCEPT !.pc = "return", !.p = NULL,
                               !.res = IF z.cmd = "purge" THEN @ ELSE "NOT_FOUND"]
                ELSE [z EXCEPT !.pc = IF del THEN "unlink" ELSE "update", !.p = NULL,
                               !.it = g.it, !.res = IF del THEN @ ELSE "VALUE", !.out = ans]
<1>1. /\ th \in [Threads -> Local] /\ z \in Local /\ Shaped(z) /\ Knows(t, z, mem, R, ilock)
      /\ leaked \in Refs /\ R \in Refs /\ Rebalancing(mem, rb) /\ mem \in Memory
  BY Facts
<1>2. /\ z.pc = "count" /\ z.cmd \in {"get", "touch", "delete", "purge"} /\ Quiet
      /\ leaked' = leaked /\ rb' = rb /\ item_unlock(t, z.k) /\ th' = [th EXCEPT ![t] = q]
      /\ mem' = IF z.cmd = "touch" /\ g.it # NULL
                THEN [g.m EXCEPT !.heap[g.it].exp = z.exp] ELSE g.m
  BY Zenon DEF ItemGet
<1>3. /\ z.k \in Keys /\ z.k \in Nat /\ z.exp \in Nat /\ z.it = NULL /\ z.old = NULL
      /\ ilock[LockOf(z.k)] = t
  BY <1>1, <1>2, Zenon DEF Shaped, Local, Knows, StoreCmds
<1>4. LocksKept(t)
  BY <1>2, <1>3, Unlock, ZenonT(30)
<1>5. PICK Q : Got(g, z, R, Q) /\ Undisturbed(mem, g.m, R, Q, ilock, t, z)
  <2> HIDE DEF g
  <2> QED BY <1>2, GetQuiet, Zenon DEF g
<1>6. /\ Q \in Refs /\ StoreOK(mem', Q, NULL) /\ Calm(mem, mem')
      /\ \A d \in Chunk : Same(g.m, mem', d)
  <2>1. CASE z.cmd = "touch" /\ g.it # NULL
    <3> HIDE DEF g
    <3>1. /\ StoreOK(mem', Q, NULL) /\ Calm(g.m, mem') /\ \A d \in Chunk : Same(g.m, mem', d)
          /\ Calm(mem, g.m)
      BY <1>2, <1>3, <1>5, <2>1, TouchStep DEF Got
    <3> QED BY <1>5, <3>1, CalmMarked, SMTT(30) DEF Got
  <2>2. CASE ~(z.cmd = "touch" /\ g.it # NULL)
    <3>1. mem' = g.m
      BY <1>2, <2>2, Zenon
    <3> QED BY <1>5, <3>1 DEF Got, Same
  <2> QED BY <2>1, <2>2
<1>7. /\ q \in Local /\ q.p = NULL /\ q.old = z.old /\ q.it = g.it /\ q.k = z.k
      /\ q.pc \notin Private \cup {"idle", "alloc"}
      /\ q.pc = "return" <=> g.it = NULL
  <2> HIDE DEF g
  <2>1. CASE g.it = NULL
    <3>1. \A x \in Local, r \in Results :
            [x EXCEPT !.pc = "return", !.p = NULL, !.res = r] \in Local
      BY DEF Local, Private
    <3>2. (IF z.cmd = "purge" THEN z.res ELSE "NOT_FOUND") \in Results
      BY <1>1 DEF Local, Results
    <3>3. q = [z EXCEPT !.pc = "return", !.p = NULL,
                        !.res = IF z.cmd = "purge" THEN z.res ELSE "NOT_FOUND"]
      BY <1>1, <2>1
    <3> HIDE DEF q
    <3>4. q \in Local
      BY <1>1, <3>1, <3>2, <3>3, Zenon
    <3>5. /\ q.p = NULL /\ q.old = z.old /\ q.it = z.it /\ q.k = z.k /\ q.pc = "return"
      BY <1>1, <3>3 DEF Local
    <3> QED BY <1>3, <2>1, <3>4, <3>5 DEF Private
  <2>2. CASE g.it # NULL
    <3>1. g.it \in Chunk /\ mem.heap[g.it].cas \in Nat /\ mem.heap[g.it].val \in Seq(Nat)
      BY <1>5, <2>2 DEF Got, Item
    <3>2. ans \in Seq(Nat)
      <4>1. \A n \in Nat : <<n>> \in Seq(Nat)
        OBVIOUS
      <4>2. z.out \in Seq(Nat)
        BY <1>1 DEF Local
      <4> QED BY <1>2, <3>1, <4>1, <4>2
    <3> HIDE DEF ans
    <3>3. \A x \in Local, s \in Seq(Nat), r \in Results, c \in Chunk, pc \in {"unlink", "update"} :
            [x EXCEPT !.pc = pc, !.p = NULL, !.it = c, !.res = r, !.out = s] \in Local
      <4>1. \A x \in Local, pc \in {"unlink", "update"}, c \in Chunk :
              [x EXCEPT !.pc = pc, !.p = NULL, !.it = c] \in Local
        BY DEF Local, Private
      <4>2. \A x \in Local, s \in Seq(Nat), r \in Results :
              [x EXCEPT !.res = r, !.out = s] \in Local
        BY DEF Local
      <4>3. \A x \in Local, s \in Seq(Nat), r \in Results, c \in Chunk, pc \in {"unlink", "update"} :
              [x EXCEPT !.pc = pc, !.p = NULL, !.it = c, !.res = r, !.out = s]
                = [[x EXCEPT !.pc = pc, !.p = NULL, !.it = c] EXCEPT !.res = r, !.out = s]
        BY DEF Local
      <4> QED BY <4>1, <4>2, <4>3, Zenon
    <3>4. /\ (IF del THEN z.res ELSE "VALUE") \in Results
          /\ (IF del THEN "unlink" ELSE "update") \in {"unlink", "update"}
      BY <1>1, SMTT(30) DEF Local, Results
    <3>5. q \in Local
      BY <1>1, <2>2, <3>1, <3>2, <3>3, <3>4, Zenon
    <3>6. /\ q.p = NULL /\ q.old = z.old /\ q.it = g.it /\ q.k = z.k
          /\ q.pc \in {"unlink", "update"}
      BY <1>1, <2>2 DEF Local
    <3> QED BY <2>2, <3>5, <3>6 DEF Private
  <2> QED BY <2>1, <2>2
<1> HIDE DEF q
<1>8. Shaped(q)
  <2> HIDE DEF g
  <2> QED BY <1>3, <1>7 DEF Shaped, Private
<1>9. RefsOf(th', leaked) = Q
  <2> HIDE DEF g
  <2>1. CASE g.it = NULL
    <3>1. q.it = z.it /\ q.old = z.old /\ Q = R
      BY <1>3, <1>5, <1>7, <2>1 DEF Got
    <3> QED BY <1>1, <1>2, <1>7, <3>1, RefsAdded
  <2>2. CASE g.it # NULL
    <3>1. g.it \in Chunk /\ Q = Plus(R, g.it)
      BY <1>5, <2>2 DEF Got
    <3> QED BY <1>1, <1>2, <1>3, <1>7, <3>1, RefsAdded, ZenonT(30)
  <2> QED BY <2>1, <2>2
<1> HIDE DEF g, R
<1>10. Knows(t, q, mem', Q, ilock')
  <2>1. q.it # NULL => mem'.heap[q.it].key = q.k
    BY <1>5, <1>6, <1>7 DEF Got, Same
  <2> QED BY <1>7, <2>1 DEF Knows, Private
<1>11. Undisturbed(mem, mem', R, Q, ilock, t, z)
  BY <1>5, <1>6 DEF Undisturbed, Same
<1>12. Rebalancing(mem', rb')
  BY <1>1, <1>2, <1>6, RebalKept
<1> QED BY <1>2, <1>4, <1>6, <1>7, <1>8, <1>9, <1>10, <1>11, <1>12, QuietOK DEF R

\* do_item_get of do_store_item and do_add_delta.
LEMMA GetOldOK ==
  ASSUME IInv, NEW t \in Threads, GetOld(t)
  PROVE  IInv' /\ HeldStep
<1> DEFINE R == RefsOf(th, leaked)
           z == th[t]
           g == do_item_get(mem, z.p)
           q == [z EXCEPT !.p = NULL, !.old = g.it, !.pc = "apply"]
<1>1. /\ th \in [Threads -> Local] /\ z \in Local /\ Shaped(z) /\ Knows(t, z, mem, R, ilock)
      /\ leaked \in Refs /\ R \in Refs /\ Rebalancing(mem, rb) /\ mem \in Memory
  BY Facts
<1>2. /\ z.pc = "count" /\ Quiet /\ LocksKept(t) /\ ilock' = ilock
      /\ leaked' = leaked /\ rb' = rb /\ th' = [th EXCEPT ![t] = q] /\ mem' = g.m
  BY <1>1, NoLock DEF GetOld, NoLocks
<1>3. /\ z.k \in Keys /\ z.old = NULL /\ ilock[LockOf(z.k)] = t
      /\ z.it # NULL <=> z.cmd \in StoreCmds
  BY <1>1, <1>2 DEF Shaped, Knows
<1> HIDE DEF g
<1>4. PICK Q : Got(g, z, R, Q) /\ Undisturbed(mem, g.m, R, Q, ilock, t, z)
  BY <1>2, GetQuiet DEF g
<1>5. StoreOK(mem', Q, NULL) /\ Calm(mem, mem') /\ g.it \in Chunk \cup {NULL}
  BY <1>2, <1>4 DEF Got
<1>6. /\ q \in Local /\ q.p = NULL /\ q.old = g.it /\ q.it = z.it /\ q.k = z.k /\ q.pc = "apply"
      /\ q.cmd = z.cmd
  BY <1>1, <1>5 DEF Local, Private
<1> HIDE DEF q
<1>7. Shaped(q)
  BY <1>3, <1>6 DEF Shaped
<1>8. RefsOf(th', leaked) = Q
  <2>1. CASE g.it = NULL
    <3>1. q.it = z.it /\ q.old = z.old /\ Q = R
      BY <1>3, <1>4, <1>6, <2>1 DEF Got
    <3> QED BY <1>1, <1>2, <1>6, <3>1, RefsAdded
  <2>2. CASE g.it # NULL
    <3>1. g.it \in Chunk /\ Q = Plus(R, g.it)
      BY <1>4, <2>2 DEF Got
    <3> QED BY <1>1, <1>2, <1>3, <1>6, <3>1, RefsAdded
  <2> QED BY <2>1, <2>2
<1>9. Knows(t, q, mem', Q, ilock')
  BY <1>2, <1>3, <1>4, <1>6 DEF Knows, Got
<1>10. Rebalancing(mem', rb')
  BY <1>1, <1>2, <1>5, RebalKept
<1>11. Undisturbed(mem, mem', R, Q, ilock, t, z)
  BY <1>2, <1>4
<1> HIDE DEF R
<1> QED BY <1>2, <1>5, <1>6, <1>7, <1>8, <1>9, <1>10, <1>11, QuietOK DEF R

\* do_item_get finds an item of the page being moved away, and counts its reference.
LEMMA GetMovingOK ==
  ASSUME IInv, NEW t \in Threads, GetMoving(t)
  PROVE  IInv' /\ HeldStep
<1> DEFINE R == RefsOf(th, leaked)
           z == th[t]
           c == z.p
           q == [z EXCEPT !.pc = "drop", !.p = NULL, !.old = c]
<1>1. /\ th \in [Threads -> Local] /\ z \in Local /\ Shaped(z) /\ Knows(t, z, mem, R, ilock)
      /\ leaked \in Refs /\ R \in Refs /\ Rebalancing(mem, rb) /\ mem \in Memory
      /\ StoreOK(mem, R, NULL)
  BY Facts
<1>2. /\ z.pc = "count" /\ c # NULL /\ Quiet /\ LocksKept(t) /\ ilock' = ilock
      /\ leaked' = leaked /\ rb' = rb /\ th' = [th EXCEPT ![t] = q]
      /\ mem' = refcount_incr(mem, c)
  BY <1>1, NoLock DEF GetMoving, NoLocks
<1>3. /\ z.k \in Keys /\ z.k \in Nat /\ z.old = NULL /\ ilock[LockOf(z.k)] = t
      /\ z.it # NULL <=> z.cmd \in StoreCmds
      /\ c = assoc_find(mem, z.k) /\ z.it \in Chunk \cup {NULL}
  BY <1>1, <1>2 DEF Shaped, Knows, Local
<1>4. c \in Chunk /\ IsLinked(mem, c) /\ mem.heap[c].key = z.k
  BY <1>1, <1>2, <1>3, Finds
<1>5. R[c] \in Nat /\ R[c] + 2 < MaxRef /\ mem.heap[c].ref > 0
  <2>1. R[c] \in Nat /\ R[c] + 3 < MaxRef
    BY <1>4, Bounded
  <2>2. mem.heap[c].ref = (IF IsLinked(mem, c) THEN 1 ELSE 0) + R[c]
    BY <1>1, <1>4 DEF StoreOK, Counted
  <2> HIDE DEF R
  <2> QED BY <1>4, <2>1, <2>2, Bounds
<1>6. /\ q \in Local /\ q.p = NULL /\ q.old = c /\ q.it = z.it /\ q.k = z.k /\ q.pc = "drop"
      /\ q.cmd = z.cmd
  BY <1>1, <1>4 DEF Local, Private
<1> HIDE DEF q, c, R
<1>7. StoreOK(mem', Plus(R, c), NULL) /\ Calm(mem, mem') /\ \A d \in Chunk : Same(mem, mem', d)
  BY <1>1, <1>2, <1>4, <1>5, IncrStep
<1>8. Shaped(q)
  BY <1>2, <1>3, <1>6 DEF Shaped
<1>9. RefsOf(th', leaked) = Plus(R, c)
  BY <1>1, <1>2, <1>3, <1>4, <1>6, RefsAdded DEF R
<1>10. \A d \in Chunk : d # c => Plus(R, c)[d] = R[d]
  BY <1>1, <1>4, PlusLess
<1>11. Knows(t, q, mem', Plus(R, c), ilock')
  <2>1. z.it # NULL => /\ z.it \in Chunk /\ z.it # c /\ mem.heap[z.it].key = z.k
                       /\ ~IsLinked(mem, z.it) /\ R[z.it] = 1
    BY <1>1, <1>2, <1>3, <1>4 DEF Knows, Private
  <2>2. z.it # NULL => /\ mem'.heap[z.it].key = z.k /\ ~IsLinked(mem', z.it)
                       /\ Plus(R, c)[z.it] = 1
    BY <1>7, <1>10, <2>1 DEF Same
  <2>3. assoc_find(mem', z.k) = c
    BY <1>3, <1>4, <1>7, Finds DEF Same
  <2> QED BY <1>2, <1>3, <1>6, <2>2, <2>3 DEF Knows
<1>12. Undisturbed(mem, mem', R, Plus(R, c), ilock, t, z)
  BY <1>4, <1>7, <1>10 DEF Undisturbed, Same
<1>13. Rebalancing(mem', rb')
  BY <1>1, <1>2, <1>7, RebalKept
<1>14. StoreOK(mem', RefsOf(th', leaked), NULL)
  BY <1>7, <1>9
<1> QED BY <1>2, <1>6, <1>7, <1>8, <1>9, <1>11, <1>12, <1>13, <1>14, QuietOK DEF R

----------------------------------------------------------------------------
(* do_store_item and do_add_delta.                                         *)

\* What they do under the lock before they release the old item.
Applied(m, t) ==
  /\ StoreOK(m, RefsOf(th, leaked), NULL) /\ Calm(mem, m)
  /\ Undisturbed(mem, m, RefsOf(th, leaked), RefsOf(th, leaked), ilock, t, th[t])

\* What follows a step and changes no item leaves it undisturbed.
LEMMA StillUndisturbed ==
  ASSUME NEW m, NEW n, NEW o, NEW R, NEW Q, NEW lk, NEW t, NEW q, Undisturbed(m, n, R, Q, lk, t, q),
         \A d \in Chunk : Same(n, o, d)
  PROVE  Undisturbed(m, o, R, Q, lk, t, q)
BY DEF Undisturbed, Same

\* A thread that applies its command, or is about to: the item it stores and the
\* one it found.
LEMMA Applying ==
  ASSUME IInv, NEW t \in Threads, th[t].pc \in {"drop", "apply"}
  PROVE  LET z == th[t]
             R == RefsOf(th, leaked)
         IN  /\ z.k \in Nat /\ ilock[LockOf(z.k)] = t /\ z.old = assoc_find(mem, z.k)
             /\ z.old # NULL => /\ z.old \in Chunk /\ IsLinked(mem, z.old)
                                /\ mem.heap[z.old].key = z.k /\ R[z.old] \in Nat
                                /\ R[z.old] > 0 /\ R[z.old] + 3 < MaxRef
             /\ z.it # NULL <=> z.cmd \in StoreCmds
             /\ z.it # NULL => /\ z.it \in Chunk /\ ~IsLinked(mem, z.it) /\ R[z.it] = 1
                               /\ mem.heap[z.it].key = z.k
<1> DEFINE z == th[t]
           R == RefsOf(th, leaked)
<1>1. /\ z \in Local /\ Shaped(z) /\ Knows(t, z, mem, R, ilock) /\ StoreOK(mem, R, NULL)
      /\ leaked \in Refs
  BY Facts
<1>2. z.k \in Nat /\ z.old \in Chunk \cup {NULL} /\ z.it \in Chunk \cup {NULL}
  BY <1>1 DEF Local
<1>3. ilock[LockOf(z.k)] = t /\ z.old = assoc_find(mem, z.k)
  BY <1>1 DEF Knows
<1>4. z.old # NULL => /\ z.old \in Chunk /\ IsLinked(mem, z.old) /\ mem.heap[z.old].key = z.k
  BY <1>1, <1>2, <1>3, Finds
<1>5. z.old # NULL => R[z.old] \in Nat /\ R[z.old] > 0 /\ R[z.old] + 3 < MaxRef
  BY <1>1, <1>4, Held, Bounded
<1>6. z.it # NULL <=> z.cmd \in StoreCmds
  BY <1>1 DEF Shaped
<1>7. z.it # NULL => /\ z.it \in Chunk /\ ~IsLinked(mem, z.it) /\ R[z.it] = 1
                     /\ mem.heap[z.it].key = z.k
  BY <1>1, <1>2 DEF Knows, Private
<1> QED BY <1>2, <1>3, <1>4, <1>5, <1>6, <1>7

\* The item of the page being moved away is unlinked, and do_item_get returns NULL.
LEMMA DropMovedOK ==
  ASSUME IInv, NEW t \in Threads, DropMoved(t)
  PROVE  IInv' /\ HeldStep
<1> DEFINE R == RefsOf(th, leaked)
           z == th[t]
           c == z.old
           o == do_item_unlink(mem, c)
           keep == z.cmd \in StoreCmds \cup {"incr"}
           q == IF keep THEN [z EXCEPT !.pc = "apply", !.old = NULL]
                ELSE [z EXCEPT !.pc = "return", !.old = NULL,
                               !.res = IF z.cmd = "purge" THEN @ ELSE "NOT_FOUND"]
<1>1. /\ th \in [Threads -> Local] /\ z \in Local /\ Shaped(z) /\ Knows(t, z, mem, R, ilock)
      /\ leaked \in Refs /\ R \in Refs /\ Rebalancing(mem, rb) /\ mem \in Memory
      /\ StoreOK(mem, R, NULL)
  BY Facts
<1>2. /\ z.pc = "drop" /\ Quiet /\ leaked' = leaked /\ rb' = rb
      /\ mem' = do_item_remove(o, c) /\ th' = [th EXCEPT ![t] = q]
      /\ IF keep THEN NoLocks ELSE item_unlock(t, z.k)
  BY <1>1, Zenon DEF DropMoved
<1>3. /\ z.k \in Keys /\ z.k \in Nat /\ z.p = NULL /\ ilock[LockOf(z.k)] = t
      /\ z.it # NULL <=> z.cmd \in StoreCmds
      /\ c # NULL /\ c = assoc_find(mem, z.k) /\ z.it \in Chunk \cup {NULL}
  BY <1>1, <1>2 DEF Shaped, Knows, Local
<1>4. c \in Chunk /\ IsLinked(mem, c) /\ mem.heap[c].key = z.k
  BY <1>1, <1>3, Finds
<1>5. R[c] \in Nat /\ R[c] > 0 /\ R[c] + 2 < MaxRef /\ R[c] + 1 < MaxRef
  BY <1>2, <1>3, Applying, Bounds
<1>6. LocksKept(t) /\ (keep => ilock' = ilock)
  <2>1. CASE keep
    BY <1>2, <2>1, NoLock DEF NoLocks
  <2>2. CASE ~keep
    BY <1>2, <1>3, <2>2, Unlock
  <2> QED BY <2>1, <2>2
<1>7. /\ q \in Local /\ q.p = NULL /\ q.old = NULL /\ q.it = z.it /\ q.k = z.k /\ q.cmd = z.cmd
      /\ q.pc = IF keep THEN "apply" ELSE "return"
  <2>1. CASE keep
    <3>1. q = [z EXCEPT !.pc = "apply", !.old = NULL]
      BY <2>1
    <3> QED BY <1>1, <1>3, <2>1, <3>1 DEF Local, Private
  <2>2. CASE ~keep
    <3>1. (IF z.cmd = "purge" THEN z.res ELSE "NOT_FOUND") \in Results
      BY <1>1 DEF Local, Results
    <3>2. q = [z EXCEPT !.pc = "return", !.old = NULL,
                        !.res = IF z.cmd = "purge" THEN z.res ELSE "NOT_FOUND"]
      BY <1>1, <2>2
    <3> HIDE DEF q
    <3>3. \A x \in Results : [z EXCEPT !.pc = "return", !.old = NULL, !.res = x] \in Local
      BY <1>1 DEF Local
    <3>4. q \in Local
      BY <3>1, <3>2, <3>3, Zenon
    <3> QED BY <1>1, <1>3, <2>2, <3>2, <3>4 DEF Local
  <2> QED BY <2>1, <2>2
<1> HIDE DEF q, c, R
<1>8. /\ StoreOK(o, R, NULL) /\ Calm(mem, o) /\ \A d \in Chunk : d # c => Same(mem, o, d)
      /\ ~IsLinked(o, c) /\ o.heap[c].key = mem.heap[c].key /\ o.heap[c].val = mem.heap[c].val
  BY <1>1, <1>4, <1>5, UnlinkStep
<1> HIDE DEF o
<1>9. StoreOK(mem', Less(R, c), NULL) /\ Calm(o, mem') /\ \A d \in Chunk : Same(o, mem', d)
  BY <1>1, <1>2, <1>4, <1>5, <1>8, RemoveStep
<1>10. /\ Calm(mem, mem') /\ \A d \in Chunk : d # c => Same(mem, mem', d)
       /\ ~IsLinked(mem', c) /\ mem'.heap[c].key = mem.heap[c].key
       /\ mem'.heap[c].val = mem.heap[c].val
  BY <1>4, <1>8, <1>9, CalmMarked DEF Same
<1>11. Shaped(q)
  BY <1>3, <1>7 DEF Shaped
<1>12. RefsOf(th', leaked) = Less(R, c)
  <2>1. q.it = z.it /\ z.old = c /\ q.old = NULL
    BY <1>7 DEF c
  <2> QED BY ONLY t \in Threads, <1>1, <1>2, <1>4, <1>7, <2>1, RefsAdded, ZenonT(30) DEF R
<1>13. \A d \in Chunk : d # c => Less(R, c)[d] = R[d]
  BY <1>1, <1>4, <1>5, PlusLess
<1>14. Knows(t, q, mem', Less(R, c), ilock')
  <2>1. z.it # NULL => /\ z.it \in Chunk /\ z.it # c /\ mem.heap[z.it].key = z.k
                       /\ ~IsLinked(mem, z.it) /\ R[z.it] = 1
    BY <1>1, <1>2, <1>3, <1>4 DEF Knows, Private
  <2>2. z.it # NULL => /\ mem'.heap[z.it].key = z.k /\ ~IsLinked(mem', z.it)
                       /\ Less(R, c)[z.it] = 1
    BY <1>10, <1>13, <2>1 DEF Same
  <2>3. assoc_find(mem', z.k) = NULL
    <3>1. \A d \in Chunk : ~(IsLinked(mem', d) /\ mem'.heap[d].key = z.k)
      <4>1. \A d \in Chunk : IsLinked(mem, d) /\ mem.heap[d].key = z.k => c = d
        BY <1>1, <1>3, Finds
      <4> QED BY <1>10, <4>1 DEF Same
    <3> QED BY <1>3, <1>9, <3>1, Finds
  <2> QED BY <1>3, <1>6, <1>7, <2>2, <2>3 DEF Knows, Private
<1>15. Undisturbed(mem, mem', R, Less(R, c), ilock, t, z)
  BY <1>3, <1>4, <1>10, <1>13 DEF Undisturbed, Same, c
<1>16. Rebalancing(mem', rb')
  BY <1>1, <1>2, <1>10, RebalKept
<1>17. StoreOK(mem', RefsOf(th', leaked), NULL)
  BY <1>9, <1>12
<1>18. z.pc # "idle"
  BY <1>2
<1> QED BY <1>2, <1>6, <1>7, <1>10, <1>11, <1>12, <1>14, <1>15, <1>16, <1>17, <1>18, QuietOK DEF R

\* The old item is released, the lock too, and the command goes on.
LEMMA ReleaseOK ==
  ASSUME IInv, NEW t \in Threads, th[t].pc = "apply", NEW m, Applied(m, t),
         NEW pc \in {"remove", "return"}, pc = "remove" <=> th[t].cmd \in StoreCmds,
         NEW r \in Results, mem' = ReleaseOld(m, th[t].old),
         th' = [th EXCEPT ![t] = [th[t] EXCEPT !.pc = pc, !.old = NULL, !.res = r]],
         item_unlock(t, th[t].k), Rebalancing(m, rb'), leaked' = leaked, Quiet
  PROVE  IInv' /\ HeldStep
<1> DEFINE R == RefsOf(th, leaked)
           z == th[t]
           c == z.old
           q == [z EXCEPT !.pc = pc, !.old = NULL, !.res = r]
           Q == IF c = NULL THEN R ELSE Less(R, c)
<1>1. /\ th \in [Threads -> Local] /\ z \in Local /\ Shaped(z) /\ leaked \in Refs /\ R \in Refs
  BY Facts
<1>2. LocksKept(t)
  BY Applying, Unlock
<1>3. q \in Local
  BY <1>1 DEF Local
<1>4. /\ q.pc = pc /\ q.old = NULL /\ q.it = z.it /\ q.k = z.k /\ q.p = z.p /\ q.cmd = z.cmd
  BY <1>1 DEF Local
<1>5. th' = [th EXCEPT ![t] = q] /\ z.pc = "apply"
  OBVIOUS
<1> HIDE DEF q
<1>6. Shaped(q)
  BY <1>1, <1>4, <1>5 DEF Shaped
<1>7. c # NULL => c \in Chunk /\ R[c] \in Nat /\ R[c] > 0 /\ R[c] + 1 < MaxRef
  BY Applying, Bounds
<1> HIDE DEF c, R
<1>8. StoreOK(mem', Q, NULL) /\ Calm(m, mem') /\ \A d \in Chunk : Same(m, mem', d)
  <2>1. CASE c = NULL
    <3>1. mem' = m
      BY <2>1 DEF ReleaseOld, c
    <3> QED BY <2>1, <3>1, CalmMarked DEF Applied, Same, R
  <2>2. CASE c # NULL
    <3>1. mem' = do_item_remove(m, c)
      BY <2>2 DEF ReleaseOld, c
    <3>2. StoreOK(m, R, NULL)
      BY DEF Applied, R
    <3> QED BY <1>1, <1>7, <2>2, <3>1, <3>2, RemoveStep
  <2> QED BY <2>1, <2>2
<1>9. \A d \in Chunk : Q[d] # R[d] => d = c
  BY <1>1, <1>7, PlusLess
<1>10. RefsOf(th', leaked) = Q
  <2>1. CASE c = NULL
    <3>1. q.it = z.it /\ q.old = z.old
      BY <1>4, <2>1 DEF c
    <3> HIDE DEF Q
    <3>2. RefsOf(th', leaked) = R
      BY ONLY t \in Threads, <1>1, <1>3, <1>5, <3>1, RefsAdded DEF R
    <3> QED BY <2>1, <3>2 DEF Q
  <2>2. CASE c # NULL
    <3>1. q.it = z.it /\ z.old = c /\ q.old = NULL /\ c \in Chunk
      BY <1>4, <1>7, <2>2 DEF c
    <3> HIDE DEF Q
    <3>2. RefsOf(th', leaked) = Less(R, c)
      BY ONLY t \in Threads, <1>1, <1>3, <1>5, <3>1, RefsAdded, ZenonT(30) DEF R
    <3> QED BY <2>2, <3>2 DEF Q
  <2> QED BY <2>1, <2>2
<1> HIDE DEF Q
<1>11. Undisturbed(mem, mem', R, Q, ilock, t, z)
  <2>1. Undisturbed(mem, mem', R, R, ilock, t, z)
    BY <1>8, StillUndisturbed DEF Applied, R
  <2> QED BY <1>9, <2>1 DEF Undisturbed, c
<1>12. Knows(t, q, mem', Q, ilock')
  <2>1. z.it # NULL => z.it \in Chunk /\ R[z.it] = 1 /\ mem.heap[z.it].key = z.k
    BY <1>5, Applying DEF R
  <2>2. z.it # NULL => mem'.heap[z.it].key = z.k
    BY <1>11, <2>1 DEF Undisturbed
  <2> QED BY <1>4, <2>2 DEF Knows, Private
<1>13. Calm(mem, mem')
  BY <1>8, CalmMarked DEF Applied
<1>14. Rebalancing(mem', rb')
  <2>1. m \in Memory
    BY DEF Applied, StoreOK
  <2> QED BY <1>8, <2>1, RebalKept
<1>15. z.pc # "idle"
  BY <1>5
<1> QED BY <1>2, <1>3, <1>5, <1>6, <1>8, <1>10, <1>11, <1>12, <1>13, <1>14, <1>15, QuietOK DEF R

Put(m, old, new) == IF old # NULL THEN do_item_replace(m, old, new) ELSE do_item_link(m, new)

\* The item of the command takes the place of the old one.
LEMMA PutOwn ==
  ASSUME IInv, NEW t \in Threads, th[t].pc = "apply", th[t].it # NULL
  PROVE  Applied(Put(mem, th[t].old, th[t].it), t)
<1> DEFINE R == RefsOf(th, leaked)
           z == th[t]
           c == z.it
           old == z.old
           n == Put(mem, old, c)
<1>1. /\ StoreOK(mem, R, NULL) /\ R \in Refs /\ now \in Nat /\ ~conf.expand
  BY Facts
<1>2. /\ z.k \in Nat /\ ilock[LockOf(z.k)] = t /\ old = assoc_find(mem, z.k)
      /\ old # NULL => /\ old \in Chunk /\ IsLinked(mem, old) /\ mem.heap[old].key = z.k
                       /\ R[old] \in Nat /\ R[old] > 0 /\ R[old] + 3 < MaxRef
      /\ c \in Chunk /\ ~IsLinked(mem, c) /\ R[c] = 1 /\ mem.heap[c].key = z.k
  BY Applying
<1> HIDE DEF R, c, old
<1>3. /\ StoreOK(n, R, NULL) /\ Calm(mem, n)
      /\ \A d \in Chunk : /\ d \notin {old, c} => Same(mem, n, d)
                          /\ n.heap[d].key = mem.heap[d].key /\ n.heap[d].val = mem.heap[d].val
      /\ IsLinked(n, c) /\ (old # NULL => ~IsLinked(n, old))
  <2>1. old = assoc_find(mem, mem.heap[c].key)
    BY <1>2
  <2>2. R[c] > 0 /\ R[c] + 2 < MaxRef /\ (old # NULL => R[old] + 2 < MaxRef)
    BY <1>2, Bounds
  <2> QED BY <1>1, <1>2, <2>1, <2>2, PutStep DEF Put
<1> HIDE DEF n
<1>4. Undisturbed(mem, n, R, R, ilock, t, z)
  BY <1>2, <1>3, Bounds DEF Undisturbed, Same, c
<1> QED BY <1>3, <1>4 DEF Applied, R, n, old, c

\* A new item of the same key takes the place of the old one.
LEMMA PutNew ==
  ASSUME IInv, NEW t \in Threads, th[t].pc = "apply", NEW a, NEW v,
         Allocated(mem, a, RefsOf(th, leaked), th[t].k, v, th[t].k), a.it # NULL,
         NEW n, n = Put(a.m, th[t].old, a.it)
  PROVE  LET R == RefsOf(th, leaked)
         IN  /\ StoreOK(n, Plus(R, a.it), NULL) /\ Calm(mem, n) /\ Calm(a.m, n) /\ a.it \in Chunk
             /\ R \in Refs /\ R[a.it] = 0
             /\ Undisturbed(mem, n, R, R, ilock, t, th[t])
<1> DEFINE R == RefsOf(th, leaked)
           z == th[t]
           c == a.it
           old == z.old
           Q == Plus(R, c)
<1>1. /\ StoreOK(mem, R, NULL) /\ R \in Refs /\ now \in Nat /\ ~conf.expand
  BY Facts
<1>2. /\ z.k \in Nat /\ ilock[LockOf(z.k)] = t /\ old = assoc_find(mem, z.k)
      /\ old # NULL => /\ old \in Chunk /\ IsLinked(mem, old) /\ mem.heap[old].key = z.k
                       /\ R[old] \in Nat /\ R[old] > 0 /\ R[old] + 3 < MaxRef
  BY Applying
<1>3. /\ Calm(mem, a.m) /\ \A d \in Chunk : d # c => Same(mem, a.m, d)
      /\ c \in Chunk /\ R[c] = 0 /\ StoreOK(a.m, Q, NULL) /\ ~IsLinked(a.m, c)
      /\ a.m.heap[c].key = z.k
      /\ IsLinked(mem, c) => ilock[LockOf(mem.heap[c].key)] = None /\ mem.heap[c].key # z.k
  BY DEF Allocated, item_trylock
<1> HIDE DEF R, c, old
<1>4. /\ Q \in Refs /\ Q[c] = 1 /\ \A d \in Chunk : d # c => Q[d] = R[d]
  BY <1>1, <1>3, PlusLess
<1> HIDE DEF Q
<1>5. old # NULL => old # c /\ Q[old] > 0 /\ Q[old] + 2 < MaxRef
  BY <1>2, <1>3, <1>4, Bounds
<1>6. assoc_find(a.m, z.k) = assoc_find(mem, z.k)
  <2>1. \A d \in Chunk : IsLinked(mem, d) /\ mem.heap[d].key = z.k
                           <=> IsLinked(a.m, d) /\ a.m.heap[d].key = z.k
    BY <1>3 DEF Same
  <2> QED BY <1>1, <1>2, <1>3, <2>1, FoundSame
<1>7. /\ StoreOK(n, Q, NULL) /\ Calm(a.m, n)
      /\ \A d \in Chunk : /\ d \notin {old, c} => Same(a.m, n, d)
                          /\ n.heap[d].key = a.m.heap[d].key /\ n.heap[d].val = a.m.heap[d].val
      /\ IsLinked(n, c) /\ (old # NULL => ~IsLinked(n, old))
  <2>1. old = assoc_find(a.m, a.m.heap[c].key)
    BY <1>2, <1>3, <1>6
  <2>2. Q[c] > 0 /\ Q[c] + 2 < MaxRef
    BY <1>4, Bounds
  <2>3. n = Put(a.m, old, c)
    BY SMTT(30) DEF old, c
  <2> QED BY <1>1, <1>3, <1>4, <1>5, <2>1, <2>2, <2>3, PutStep DEF Put
<1>8. Undisturbed(mem, n, R, R, ilock, t, z)
  <2> SUFFICES ASSUME NEW d \in Chunk
               PROVE  /\ R[d] > 0 => n.heap[d].key = mem.heap[d].key
                      /\ R[d] > 0 => n.heap[d].val = mem.heap[d].val \/ (d = z.old /\ R[d] = 1)
                      /\ \/ /\ IsLinked(n, d) <=> IsLinked(mem, d)
                            /\ IsLinked(mem, d) => n.heap[d].key = mem.heap[d].key
                         \/ /\ IsLinked(mem, d) => ilock[LockOf(mem.heap[d].key)] \in {None, t}
                            /\ IsLinked(n, d) => ilock[LockOf(n.heap[d].key)] \in {None, t}
                      /\ IsLinked(n, d) /\ ~IsLinked(mem, d) => d = z.it \/ R[d] = 0
    BY DEF Undisturbed
  <2>1. CASE d = c
    BY <1>2, <1>3, <1>7, <2>1, SMTT(30)
  <2>2. CASE d = old /\ d # c
    BY <1>2, <1>3, <1>7, <2>2, Bounds DEF Same
  <2>3. CASE d \notin {old, c}
    BY <1>3, <1>7, <2>3 DEF Same
  <2> QED BY <2>1, <2>2, <2>3
<1>9. Calm(mem, n)
  BY <1>3, <1>7, CalmMarked
<1> QED BY <1>1, <1>3, <1>7, <1>8, <1>9 DEF R, Q, c

\* ... and its own reference goes.
LEMMA DropNew ==
  ASSUME NEW t, NEW n, NEW c \in Chunk, RefsOf(th, leaked) \in Refs, RefsOf(th, leaked)[c] = 0,
         StoreOK(n, Plus(RefsOf(th, leaked), c), NULL), Calm(mem, n),
         Undisturbed(mem, n, RefsOf(th, leaked), RefsOf(th, leaked), ilock, t, th[t])
  PROVE  Applied(do_item_remove(n, c), t) /\ Calm(n, do_item_remove(n, c))
<1> DEFINE R == RefsOf(th, leaked)
           Q == Plus(R, c)
           m == do_item_remove(n, c)
<1>1. Q \in Refs /\ Q[c] > 0 /\ Q[c] + 1 < MaxRef /\ Less(Q, c) = R
  BY PlusLess, Bounds
<1> HIDE DEF R, Q
<1>2. StoreOK(m, Less(Q, c), NULL) /\ Calm(n, m) /\ \A d \in Chunk : Same(n, m, d)
  BY <1>1, RemoveStep DEF R, Q
<1>3. Calm(mem, m)
  BY <1>2, CalmMarked
<1> HIDE DEF m
<1>4. Undisturbed(mem, m, R, R, ilock, t, th[t])
  BY <1>2, StillUndisturbed DEF R
<1> QED BY <1>1, <1>2, <1>3, <1>4 DEF Applied, R, m

\* What was allocated, when the command can do without the rest.
LEMMA AllocApplied ==
  ASSUME IInv, NEW t \in Threads, NEW a, NEW k, NEW v, NEW hv,
         Allocated(mem, a, RefsOf(th, leaked), k, v, hv), a.it = NULL
  PROVE  Applied(a.m, t)
<1>1. RefsOf(th, leaked) \in Refs
  BY Facts
<1>2. Undisturbed(mem, a.m, RefsOf(th, leaked), RefsOf(th, leaked), ilock, t, th[t])
  BY <1>1, AllocQuiet, Zenon
<1> QED BY <1>2 DEF Applied, Allocated

\* do_store_item: set, add, replace, append, prepend and cas.
LEMMA DoStoreItemOK ==
  ASSUME IInv, NEW t \in Threads, DoStoreItem(t)
  PROVE  IInv' /\ HeldStep
<1> DEFINE R == RefsOf(th, leaked)
           z == th[t]
           old == z.old
           x == mem.heap[old]
           v == Combine(z.cmd, x.val, z.v)
           a == do_item_alloc(mem, z.k, v, x.exp, z.k)
           Answer(m, r) ==
             /\ mem' = ReleaseOld(m, old)
             /\ th' = [th EXCEPT ![t] = [z EXCEPT !.pc = "remove", !.old = NULL, !.res = r]]
<1>1. /\ th \in [Threads -> Local] /\ z \in Local /\ StoreOK(mem, R, NULL) /\ Rebalancing(mem, rb)
      /\ mem \in Memory /\ now \in Nat /\ R \in Refs
  BY Facts, Zenon
<1>2. /\ z.pc = "apply" /\ z.cmd \in StoreCmds /\ item_unlock(t, z.k) /\ Quiet /\ leaked' = leaked
  BY Zenon DEF DoStoreItem
<1>3. /\ z.k \in Nat /\ z.it # NULL
      /\ old # NULL => old \in Chunk /\ IsLinked(mem, old)
  BY <1>2, Applying
<1>4. ASSUME NEW m, Applied(m, t), NEW r \in Results, Answer(m, r), Rebalancing(m, rb')
      PROVE  IInv' /\ HeldStep
  BY <1>2, <1>4, ReleaseOK, Zenon
<1>5. ASSUME NEW m, Applied(m, t), rb' = rb PROVE Rebalancing(m, rb')
  BY <1>1, <1>5, RebalKept DEF Applied
<1>6. Applied(mem, t)
  <2>1. Undisturbed(mem, mem, R, R, ilock, t, z)
    BY Peaceful DEF Same
  <2> QED BY <1>1, <2>1, CalmMarked DEF Applied
<1>7. Applied(Put(mem, old, z.it), t)
  BY <1>2, <1>3, PutOwn
<1>8. {"NOT_STORED", "NOT_FOUND", "STORED", "EXISTS", "failed"} \subseteq Results
  BY DEF Results
<1>9. CASE /\ old # NULL /\ Answer(do_item_update(mem, old), "NOT_STORED") /\ rb' = rb
  <2>1. mem.heap[old].ref > 0
    <3>1. R[old] \in Nat
      BY <1>1, <1>3, <1>9 DEF Refs
    <3> QED BY <1>1, <1>3, <1>9, <3>1 DEF StoreOK, Counted
  <2> DEFINE n == do_item_update(mem, old)
  <2>2. /\ StoreOK(n, R, NULL) /\ Calm(mem, n) /\ \A d \in Chunk : Same(mem, n, d)
    BY <1>1, <1>3, <1>9, <2>1, UpdateStep
  <2> HIDE DEF n
  <2>3. Undisturbed(mem, n, R, R, ilock, t, z)
    BY <2>2, Peaceful
  <2>4. Applied(n, t)
    BY <2>2, <2>3 DEF Applied
  <2>5. Answer(n, "NOT_STORED")
    BY <1>9 DEF n
  <2> QED BY <1>4, <1>5, <1>8, <1>9, <2>4, <2>5, Zenon
<1>10. CASE /\ \E r \in {"NOT_STORED", "NOT_FOUND", "EXISTS"} : Answer(mem, r)
            /\ rb' = rb
  BY <1>4, <1>5, <1>6, <1>8, <1>10, Zenon
<1>11. CASE Answer(Put(mem, old, z.it), "STORED") /\ rb' = rb
  BY <1>4, <1>5, <1>7, <1>8, <1>11, Zenon
<1>12. CASE /\ old # NULL /\ z.cmd \in {"append", "prepend"}
            /\ AfterAlloc(a, slabs_clsid(Len(x.val) + Len(z.v)))
            /\ IF a.it = NULL THEN Answer(a.m, "failed")
               ELSE Answer(do_item_remove(Put(a.m, old, a.it), a.it), "STORED")
  <2>1. /\ x.val \in Seq(Nat) /\ x.exp \in Nat /\ z.v \in Seq(Nat)
    BY <1>1, <1>3, <1>12 DEF Memory, Item, Local
  <2>2. v \in Seq(Nat) /\ Len(v) = Len(x.val) + Len(z.v)
    <3>1. \A r, s \in Seq(Nat) : r \o s \in Seq(Nat) /\ Len(r \o s) = Len(r) + Len(s)
      BY ConcatProperties
    <3>2. Len(x.val) \in Nat /\ Len(z.v) \in Nat
      BY <2>1, LenProperties
    <3>3. v = (IF z.cmd = "append" THEN x.val \o z.v ELSE z.v \o x.val)
      BY DEF Combine
    <3> HIDE DEF x, v
    <3>4. CASE z.cmd = "append"
      BY <2>1, <3>1, <3>3, <3>4
    <3>5. CASE z.cmd # "append"
      <4>1. v = z.v \o x.val
        BY <3>3, <3>5
      <4>2. v \in Seq(Nat) /\ Len(v) = Len(z.v) + Len(x.val)
        BY <2>1, <3>1, <4>1
      <4>3. \A i, j \in Nat : i + j = j + i
        OBVIOUS
      <4> QED BY <3>2, <4>2, <4>3, Zenon
    <3> QED BY <3>4, <3>5
  <2> HIDE DEF v, x
  <2>3. Allocated(mem, a, R, z.k, v, z.k)
    BY <1>1, <1>3, <2>1, <2>2, AllocStep, SMTT(30)
  <2>4. Calm(mem, a.m)
    BY <2>3 DEF Allocated
  <2>5. Rebalancing(a.m, rb')
    <3>1. Rebalancing(a.m, rb)
      BY <1>1, <2>4, RebalKept
    <3>2. AfterAlloc(a, slabs_clsid(Len(x.val) + Len(z.v)))
      BY <1>12
    <3> QED BY <1>1, <2>2, <3>1, <3>2, AfterAllocStep
  <2>6. CASE a.it = NULL
    <3> HIDE DEF a
    <3>1. Applied(a.m, t)
      BY <2>3, <2>6, AllocApplied
    <3> QED BY <1>4, <1>8, <1>12, <2>5, <2>6, <3>1, Zenon
  <2>7. CASE a.it # NULL
    <3> DEFINE n == Put(a.m, old, a.it)
               m == do_item_remove(n, a.it)
    <3> HIDE DEF a
    <3>1. /\ StoreOK(n, Plus(R, a.it), NULL) /\ Calm(mem, n) /\ a.it \in Chunk /\ R[a.it] = 0
          /\ Calm(a.m, n) /\ Undisturbed(mem, n, R, R, ilock, t, z)
      BY <1>2, <2>3, <2>7, PutNew
    <3>2. Applied(m, t)
      <4> HIDE DEF n
      <4> QED BY <1>1, <3>1, DropNew
    <3>3. Calm(a.m, m)
      <4>1. Calm(n, m)
        <5> HIDE DEF n
        <5> QED BY <1>1, <3>1, DropNew
      <4> QED BY <3>1, <4>1, CalmMarked
    <3>4. Rebalancing(m, rb')
      <4>1. a.m \in Memory
        BY <2>3, <2>7 DEF Allocated, StoreOK
      <4> QED BY <2>5, <3>3, <4>1, RebalKept
    <3>5. Answer(m, "STORED")
      BY <1>12, <2>7
    <3> QED BY <1>4, <1>8, <3>2, <3>4, <3>5, Zenon
  <2> QED BY <2>6, <2>7, SMTT(30)
<1>13. ASSUME NEW m, NEW r,
              mem' = ReleaseOld(m, old)
                /\ th' = [th EXCEPT ![t].pc = "remove", ![t].old = NULL, ![t].res = r]
       PROVE  Answer(m, r)
  BY <1>1, <1>13
<1> HIDE DEF Answer
<1> QED BY <1>9, <1>10, <1>11, <1>12, <1>13, Zenon DEF DoStoreItem, Put

\* A new value and a new cas id.
Overwritten(m, c, v) ==
  [m EXCEPT !.heap[c].val = v, !.heap[c].cas = m.casid + 1, !.casid = @ + 1]

\* incr in place keeps the item in its chain, list and class.
LEMMA OverwriteStep ==
  ASSUME NEW m, NEW R \in Refs, NEW c \in Chunk, StoreOK(m, R, NULL), NEW v \in Seq(Nat)
  PROVE  LET n == Overwritten(m, c, v)
         IN  /\ StoreOK(n, R, NULL) /\ Calm(m, n) /\ \A d \in Chunk : d # c => Same(m, n, d)
             /\ IsLinked(n, c) <=> IsLinked(m, c)
             /\ n.heap[c].key = m.heap[c].key /\ n.heap[c].ref = m.heap[c].ref
<1> DEFINE i == m.casid + 1
           y == [m.heap[c] EXCEPT !.val = v, !.cas = i]
           n == [m EXCEPT !.heap[c] = y, !.casid = i]
<1>1. m \in Memory
  BY DEF StoreOK
<1>2. m.heap[c] \in Item /\ i \in Nat
  BY <1>1 DEF Memory
<1>3. Overwritten(m, c, v) = n
  BY <1>1, <1>2 DEF Memory, Item, Overwritten
<1>4. /\ y \in Item /\ SameRole(m.heap[c], y) /\ y.ref = m.heap[c].ref
      /\ y.key = m.heap[c].key
  <2> HIDE DEF i
  <2> QED BY <1>2 DEF Item, SameRole
<1> HIDE DEF y, i
<1>5. /\ StoreOK(n, R, NULL) /\ Calm(m, n) /\ n.heap[c] = y /\ n.casid = i
      /\ \A d \in Chunk : d # c => Same(m, n, d)
      /\ IsLinked(n, c) <=> IsLinked(m, c)
  BY ONLY R \in Refs, c \in Chunk, StoreOK(m, R, NULL), <1>2, <1>4, EditStep, Zenon
<1> HIDE DEF n
<1> QED BY <1>3, <1>4, <1>5

\* incr in place: only while the hash table and this command alone refer to the item.
LEMMA InPlace ==
  ASSUME IInv, NEW t \in Threads, th[t].pc = "apply", th[t].old # NULL,
         mem.heap[th[t].old].ref = 2, NEW v \in Seq(Nat)
  PROVE  Applied(do_item_update(Overwritten(mem, th[t].old, v), th[t].old), t)
<1> DEFINE R == RefsOf(th, leaked)
           z == th[t]
           c == z.old
           n == Overwritten(mem, c, v)
           m == do_item_update(n, c)
<1>1. /\ StoreOK(mem, R, NULL) /\ R \in Refs /\ now \in Nat /\ mem \in Memory
  BY Facts
<1>2. /\ c \in Chunk /\ IsLinked(mem, c) /\ mem.heap[c].key = z.k /\ R[c] \in Nat
  BY Applying
<1>3. R[c] = 1
  BY <1>1, <1>2 DEF StoreOK, Counted
<1>4. mem.heap[c].ref = 2
  OBVIOUS
<1> HIDE DEF c, R
<1>5. /\ StoreOK(n, R, NULL) /\ Calm(mem, n) /\ \A d \in Chunk : d # c => Same(mem, n, d)
      /\ IsLinked(n, c) <=> IsLinked(mem, c)
      /\ n.heap[c].key = mem.heap[c].key /\ n.heap[c].ref = 2
  BY <1>1, <1>2, <1>4, OverwriteStep
<1> HIDE DEF n
<1>6. StoreOK(m, R, NULL) /\ Calm(n, m) /\ \A d \in Chunk : Same(n, m, d)
  BY <1>1, <1>2, <1>5, UpdateStep
<1> HIDE DEF m
<1>7. Undisturbed(mem, n, R, R, ilock, t, z)
  BY <1>2, <1>3, <1>5 DEF Undisturbed, Same, c
<1>8. Undisturbed(mem, m, R, R, ilock, t, z)
  BY <1>6, <1>7, StillUndisturbed
<1>9. Calm(mem, m)
  BY <1>5, <1>6, CalmMarked
<1> QED BY <1>6, <1>8, <1>9 DEF Applied, R, m, n, c

\* The old item takes the cas id of the new one before it is released.
LEMMA CasCopied ==
  ASSUME NEW m, NEW R \in Refs, NEW c \in Chunk, StoreOK(m, R, NULL), NEW e \in Nat
  PROVE  LET n == [m EXCEPT !.heap[c].cas = e]
         IN  StoreOK(n, R, NULL) /\ Calm(m, n) /\ \A d \in Chunk : Same(m, n, d)
<1> DEFINE y == [m.heap[c] EXCEPT !.cas = e]
           n == [m EXCEPT !.heap[c] = y]
<1>1. m \in Memory /\ Counted(m, R)
  BY DEF StoreOK
<1>2. m.heap[c] \in Item
  BY <1>1 DEF Memory
<1>3. /\ y \in Item /\ SameRole(m.heap[c], y) /\ y.ref = m.heap[c].ref /\ y.fl = m.heap[c].fl
      /\ y.key = m.heap[c].key /\ y.val = m.heap[c].val
  BY <1>2 DEF Item, SameRole
<1> HIDE DEF y
<1>4. /\ n \in Memory /\ n.heap[c] = y /\ Rest(m, n)
      /\ \A d \in Chunk : d # c => n.heap[d] = m.heap[d]
  BY <1>1, <1>3, SetHeader
<1> HIDE DEF n
<1>5. n.heap[c].ref = (IF IsLinked(m, c) THEN 1 ELSE 0) + R[c]
  BY <1>1, <1>3, <1>4 DEF Counted
<1>6. StoreOK(n, R, NULL) /\ Calm(m, n) /\ \A d \in Chunk : d # c => Same(m, n, d)
  BY <1>3, <1>4, <1>5, HeaderStep
<1>7. Same(m, n, c)
  BY <1>3, <1>4, Zenon DEF Same, IsLinked
<1> QED BY <1>6, <1>7 DEF n, y

\* do_add_delta: incr, in place or with a new item.
LEMMA DoAddDeltaOK ==
  ASSUME IInv, NEW t \in Threads, DoAddDelta(t)
  PROVE  IInv' /\ HeldStep
<1> DEFINE R == RefsOf(th, leaked)
           z == th[t]
           c == z.old
           x == mem.heap[c]
           v == <<(x.val[1] + 1) % Wrap>>
           a == do_item_alloc(mem, z.k, v, x.exp, z.k)
           Answer(m, r) ==
             /\ mem' = m
             /\ th' = [th EXCEPT ![t] = [z EXCEPT !.pc = "return", !.old = NULL, !.res = r]]
<1>1. /\ th \in [Threads -> Local] /\ z \in Local /\ StoreOK(mem, R, NULL) /\ Rebalancing(mem, rb)
      /\ mem \in Memory /\ now \in Nat /\ R \in Refs
  BY Facts, Zenon
<1>2. /\ z.pc = "apply" /\ z.cmd \notin StoreCmds /\ item_unlock(t, z.k) /\ Quiet /\ leaked' = leaked
  BY Zenon DEF DoAddDelta, StoreCmds
<1>3. /\ z.k \in Nat
      /\ c # NULL => c \in Chunk /\ IsLinked(mem, c)
  BY <1>2, Applying
<1>4. ASSUME NEW m, Applied(m, t), NEW r \in Results, Answer(ReleaseOld(m, c), r),
             Rebalancing(m, rb')
      PROVE  IInv' /\ HeldStep
  <2>1. "return" = "remove" <=> z.cmd \in StoreCmds
    BY <1>2
  <2> QED BY <1>2, <1>4, <2>1, ReleaseOK, Zenon
<1>5. ASSUME NEW m, Applied(m, t), rb' = rb PROVE Rebalancing(m, rb')
  BY <1>1, <1>5, RebalKept DEF Applied
<1>6. Applied(mem, t)
  <2>1. Undisturbed(mem, mem, R, R, ilock, t, z)
    BY Peaceful DEF Same
  <2> QED BY <1>1, <2>1, CalmMarked DEF Applied
<1>7. {"NOT_FOUND", "NON_NUMERIC", "OK", "failed"} \subseteq Results
  BY DEF Results
<1>8. CASE c = NULL /\ Answer(mem, "NOT_FOUND") /\ rb' = rb
  BY <1>4, <1>5, <1>6, <1>7, <1>8, Zenon DEF ReleaseOld
<1>9. CASE c # NULL /\ Answer(do_item_remove(mem, c), "NON_NUMERIC") /\ rb' = rb
  BY <1>4, <1>5, <1>6, <1>7, <1>9, Zenon DEF ReleaseOld
<1>10. ASSUME c # NULL, Len(x.val) = 1
       PROVE  /\ v \in Seq(Nat) /\ Len(v) = 1 /\ x.exp \in Nat /\ slabs_clsid(Len(v)) = 1
  <2>1. x \in Item
    BY <1>1, <1>3, <1>10 DEF Memory
  <2>2. x.val \in Seq(Nat) /\ x.exp \in Nat
    BY <2>1 DEF Item
  <2>3. x.val[1] \in Nat
    BY <1>10, <2>2
  <2>4. (x.val[1] + 1) % Wrap \in Nat
    BY <2>3, StoreAssumption, SMTT(30)
  <2>5. v \in Seq(Nat) /\ Len(v) = 1
    BY <2>4
  <2>6. x.cls \in Class
    <3>1. R[c] \in Nat
      BY <1>1, <1>3, <1>10 DEF Refs
    <3>2. x.ref > 0
      BY <1>1, <1>3, <1>10, <3>1 DEF StoreOK, Counted
    <3> QED BY <1>1, <1>3, <1>10, <3>2 DEF StoreOK, HomeOK
  <2>7. 1 \in Class
    <3>1. Len(Perslab) \in Nat
      BY StoreAssumption, LenProperties
    <3> QED BY <2>6, <3>1 DEF Class
  <2> QED BY <2>2, <2>5, <2>7 DEF slabs_clsid
<1>11. CASE /\ c # NULL /\ Len(x.val) = 1 /\ x.ref = 2 /\ rb' = rb
            /\ Answer(do_item_remove(do_item_update(
                        [mem EXCEPT !.heap[c].val = v, !.heap[c].cas = mem.casid + 1,
                                    !.casid = @ + 1], c), c), "OK")
  <2> DEFINE m == do_item_update([mem EXCEPT !.heap[c].val = v, !.heap[c].cas = mem.casid + 1,
                                             !.casid = @ + 1], c)
  <2>1. v \in Seq(Nat)
    BY <1>10, <1>11, Zenon
  <2>2. Applied(m, t)
    <3> HIDE DEF v
    <3>1. Applied(do_item_update(Overwritten(mem, c, v), c), t)
      BY <1>2, <1>11, <2>1, InPlace, SMTT(30)
    <3> QED BY <3>1 DEF Overwritten
  <2>3. Answer(do_item_remove(m, c), "OK")
    BY <1>11
  <2> HIDE DEF m, v
  <2>4. Answer(ReleaseOld(m, c), "OK")
    BY <1>11, <2>3 DEF ReleaseOld
  <2> QED BY <1>4, <1>5, <1>7, <1>11, <2>2, <2>4, ZenonT(30)
<1>12. CASE /\ c # NULL /\ Len(x.val) = 1 /\ AfterAlloc(a, 1)
            /\ LET new == do_item_replace(a.m, c, a.it)
               IN  IF a.it = NULL THEN Answer(do_item_remove(a.m, c), "failed")
                   ELSE Answer(do_item_remove(do_item_remove(
                          [new EXCEPT !.heap[c].cas = new.heap[a.it].cas], a.it), c), "OK")
  <2>1. /\ v \in Seq(Nat) /\ Len(v) = 1 /\ x.exp \in Nat /\ slabs_clsid(Len(v)) = 1
    BY <1>10, <1>12, Zenon
  <2> HIDE DEF v, x
  <2>2. Allocated(mem, a, R, z.k, v, z.k)
    BY <1>1, <1>3, <2>1, AllocStep
  <2>3. Calm(mem, a.m)
    BY <2>2 DEF Allocated
  <2>4. Rebalancing(a.m, rb')
    <3>1. Rebalancing(a.m, rb)
      BY <1>1, <2>3, RebalKept
    <3>2. AfterAlloc(a, slabs_clsid(Len(v)))
      BY <1>12, <2>1, Zenon
    <3> QED BY <1>1, <2>1, <3>1, <3>2, AfterAllocStep
  <2>5. CASE a.it = NULL
    <3>1. Answer(ReleaseOld(a.m, c), "failed")
      BY <1>12, <2>5 DEF ReleaseOld
    <3> HIDE DEF a, Answer
    <3>2. Applied(a.m, t)
      BY <2>2, <2>5, AllocApplied
    <3> QED BY <1>4, <1>7, <2>4, <3>1, <3>2
  <2>6. CASE a.it # NULL
    <3> DEFINE n == do_item_replace(a.m, c, a.it)
               o == [n EXCEPT !.heap[c].cas = n.heap[a.it].cas]
               m == do_item_remove(o, a.it)
    <3>1. Answer(ReleaseOld(m, c), "OK")
      BY <1>12, <2>6, Zenon DEF ReleaseOld
    <3> HIDE DEF a, Answer
    <3>2. /\ StoreOK(n, Plus(R, a.it), NULL) /\ Calm(mem, n) /\ Calm(a.m, n) /\ a.it \in Chunk
          /\ R[a.it] = 0 /\ Undisturbed(mem, n, R, R, ilock, t, z)
      <4>1. n = Put(a.m, c, a.it)
        BY <1>12 DEF Put
      <4> HIDE DEF n
      <4> QED BY <1>2, <2>2, <2>6, <4>1, PutNew
    <3> HIDE DEF n
    <3>3. Plus(R, a.it) \in Refs /\ n.heap[a.it].cas \in Nat
      <4>1. n \in Memory
        BY <3>2 DEF StoreOK
      <4> QED BY <1>1, <3>2, <4>1, PlusLess DEF Memory, Item
    <3> HIDE DEF R
    <3>4. /\ StoreOK(o, Plus(R, a.it), NULL) /\ Calm(n, o) /\ \A d \in Chunk : Same(n, o, d)
      <4> DEFINE e == n.heap[a.it].cas
      <4> HIDE DEF e
      <4>1. e \in Nat
        BY <3>3 DEF e
      <4> QED BY <1>3, <1>12, <3>2, <3>3, <4>1, CasCopied DEF e
    <3> HIDE DEF o
    <3>5. Calm(mem, o) /\ Undisturbed(mem, o, R, R, ilock, t, z)
      BY <3>2, <3>4, CalmMarked, StillUndisturbed
    <3>6. Applied(m, t) /\ Calm(o, m)
      BY <1>1, <3>2, <3>4, <3>5, DropNew DEF R
    <3> HIDE DEF m
    <3>7. Calm(a.m, m)
      BY <3>2, <3>4, <3>6, CalmMarked
    <3>8. Rebalancing(m, rb')
      <4>1. a.m \in Memory
        BY <2>2, <2>6 DEF Allocated, StoreOK
      <4> QED BY <2>4, <3>7, <4>1, RebalKept
    <3> QED BY <1>4, <1>7, <3>1, <3>6, <3>8, Zenon
  <2> QED BY <2>5, <2>6, Zenon
<1>13. ASSUME NEW m, NEW r,
              mem' = m /\ th' = [th EXCEPT ![t].pc = "return", ![t].old = NULL, ![t].res = r]
       PROVE  Answer(m, r)
  BY <1>1, <1>13
<1> HIDE DEF Answer
<1> QED BY <1>8, <1>9, <1>11, <1>12, <1>13, Zenon DEF DoAddDelta

----------------------------------------------------------------------------
(* The clock, the rebalancer and the crawler.                              *)

\* A step that leaves the memory alone.
LEMMA MemSame ==
  ASSUME IInv, UNCHANGED <<mem, th, leaked, ilock>>, NoGrowth', conf'.ops = conf.ops,
         Rebalancing(mem, rb'), Crawling(mem, cr')
  PROVE  IInv' /\ HeldStep
<1>1. StoreOK(mem, RefsOf(th, leaked), NULL)
  BY Facts
<1>2. Undisturbed(mem, mem, RefsOf(th, leaked), RefsOf(th, leaked), ilock, None, Idle)
  BY Peaceful DEF Same
<1> QED BY <1>1, <1>2, BackgroundOK

\* The clock touches no item.
LEMMA ClockOK ==
  ASSUME IInv, clock_handler
  PROVE  IInv' /\ HeldStep
<1>1. /\ UNCHANGED <<conf, mem, th, ltype, mt, rb, cr, oldest, leaked, ilock, glock>>
      /\ now' = now + 1
  BY DEF clock_handler, NoLocks
<1>2. NoGrowth'
  BY <1>1 DEF IInv, NoGrowth, Steady
<1> QED BY <1>1, <1>2, Facts, MemSame

\* One page move fewer is left in the scenario,
LEMMA OneLessMove ==
  ASSUME NEW s \in Scenario, s.moves > 0
  PROVE  LET n == [s EXCEPT !.moves = @ - 1]
         IN  n \in Scenario /\ n.ops = s.ops /\ n.flush = s.flush /\ n.expand = s.expand
<1>1. s.moves \in Nat /\ s.moves - 1 \in Nat
  BY DEF Scenario
<1>2. \A x \in Scenario, i \in Nat : [x EXCEPT !.moves = i] \in Scenario
  BY DEF Scenario
<1>3. LET n == [s EXCEPT !.moves = @ - 1]
      IN  n.ops = s.ops /\ n.flush = s.flush /\ n.expand = s.expand
  BY DEF Scenario
<1> QED BY <1>1, <1>2, <1>3

\* and one crawl fewer.
LEMMA OneLessCrawl ==
  ASSUME NEW s \in Scenario, s.crawls > 0
  PROVE  LET n == [s EXCEPT !.crawls = @ - 1]
         IN  n \in Scenario /\ n.ops = s.ops /\ n.flush = s.flush /\ n.expand = s.expand
<1>1. s.crawls \in Nat /\ s.crawls - 1 \in Nat
  BY DEF Scenario
<1>2. \A x \in Scenario, i \in Nat : [x EXCEPT !.crawls = i] \in Scenario
  BY DEF Scenario
<1>3. LET n == [s EXCEPT !.crawls = @ - 1]
      IN  n.ops = s.ops /\ n.flush = s.flush /\ n.expand = s.expand
  BY DEF Scenario
<1> QED BY <1>1, <1>2, <1>3

\* The command slabs reassign.
LEMMA ReassignOK ==
  ASSUME IInv, Reassign
  PROVE  IInv' /\ HeldStep
<1>1. /\ conf.moves > 0 /\ conf' = [conf EXCEPT !.moves = @ - 1]
      /\ UNCHANGED <<mem, th, ltype, mt, cr, oldest, leaked, ilock, glock, now>>
  BY DEF Reassign, RebalQuiet
<1>2. PICK src \in Class \cup {-1}, dst \in Class : rb' = slabs_reassign(mem, rb, src, dst)
  BY DEF Reassign
<1>3. Rebalancing(mem, rb')
  BY <1>2, Facts, Reassigned
<1>4. NoGrowth' /\ conf'.ops = conf.ops
  BY <1>1, OneLessMove DEF IInv, NoGrowth, Steady
<1> QED BY <1>1, <1>3, <1>4, Facts, MemSame

\* A page has one chunk or two.
LEMMA PerslabRange ==
  \A id \in Class : Perslab[id] \in 1 .. 2
BY StoreAssumption, ElementOfSeq DEF Class, MaxPer

\* slab_rebalance_start: the page to empty is the first of its class.
LEMMA RebalStartOK ==
  ASSUME IInv, slab_rebalance_start
  PROVE  IInv' /\ HeldStep
<1> DEFINE s == rb.s
           off == [rb EXCEPT !.signal = 0]
           go == [rb EXCEPT !.lock = "rebal", !.signal = 2, !.pos = 1, !.busy = 0,
                            !.done = FALSE, !.page = mem.pages[s][1]]
<1>1. /\ UNCHANGED <<conf, mem, th, ltype, mt, cr, oldest, leaked, ilock, glock, now>>
      /\ rb.signal = 1 /\ rb.lock = None
  BY DEF slab_rebalance_start, RebalQuiet
<1>2. Rebalancing(mem, rb) /\ rb \in Rebal /\ mem \in Memory
  BY Facts DEF Rebalancing
<1>3. /\ rb' = off \/ (rb' = go /\ s # rb.d /\ Len(mem.pages[s]) >= 2)
  <2>1. s \in Class /\ mem.pages[s] \in Seq(1 .. NPages)
    BY <1>1, <1>2 DEF Rebalancing, Memory
  <2>2. Len(mem.pages[s]) \in Nat
    BY <2>1, LenProperties
  <2> QED BY <2>2 DEF slab_rebalance_start
<1>4. ~rb.done /\ s \in Class /\ rb.d \in Class /\ s # rb.d
  BY <1>1, <1>2 DEF Rebalancing
<1>5. Rebalancing(mem, off)
  <2>1. off \in Rebal /\ off.signal = 0 /\ off.lock = None /\ ~off.done
    BY <1>1, <1>2, <1>4 DEF Rebal
  <2> HIDE DEF off
  <2> QED BY <2>1 DEF Rebalancing, None
<1>6. ASSUME Len(mem.pages[s]) >= 2 PROVE Rebalancing(mem, go)
  <2>1. mem.pages[s] \in Seq(1 .. NPages) /\ Perslab[s] \in 1 .. 2
    <3>1. mem.pages[s] \in Seq(1 .. NPages)
      BY <1>2, <1>4 DEF Memory
    <3> QED BY <1>4, <3>1, PerslabRange
  <2>2. 1 \in DOMAIN mem.pages[s] /\ mem.pages[s][1] \in Nat
    <3> DEFINE ps == mem.pages[s]
    <3>1. ps \in Seq(1 .. NPages) /\ Len(ps) >= 2
      BY <1>6, <2>1
    <3> HIDE DEF ps
    <3>2. 1 \in 1 .. Len(ps) /\ DOMAIN ps = 1 .. Len(ps)
      BY <3>1, LenProperties
    <3>3. ps[1] \in 1 .. NPages
      BY <3>1, <3>2, ElementOfSeq
    <3> QED BY <3>2, <3>3 DEF ps
  <2>3. go \in Rebal
    <3> DEFINE p == mem.pages[s][1]
    <3> HIDE DEF p
    <3>1. \A x \in Rebal : [x EXCEPT !.lock = "rebal", !.signal = 2, !.pos = 1] \in Rebal
      <4>1. \A x \in Rebal, l \in {None, "rebal"} : [x EXCEPT !.lock = l] \in Rebal
        BY DEF Rebal
      <4>2. \A x \in Rebal, j \in 0 .. 2 : [x EXCEPT !.signal = j] \in Rebal
        BY DEF Rebal
      <4>3. \A x \in Rebal, j \in Nat : [x EXCEPT !.pos = j] \in Rebal
        BY DEF Rebal
      <4>4. \A x : [x EXCEPT !.lock = "rebal", !.signal = 2, !.pos = 1]
                     = [[[x EXCEPT !.lock = "rebal"] EXCEPT !.signal = 2] EXCEPT !.pos = 1]
        OBVIOUS
      <4>5. 2 \in 0 .. 2 /\ 1 \in Nat /\ "rebal" \in {None, "rebal"}
        OBVIOUS
      <4> QED BY <4>1, <4>2, <4>3, <4>4, <4>5
    <3>2. \A x \in Rebal, i \in Nat : [x EXCEPT !.busy = 0, !.done = FALSE, !.page = i] \in Rebal
      BY DEF Rebal
    <3>3. p \in Nat
      BY <2>2 DEF p
    <3>4. go = [[rb EXCEPT !.lock = "rebal", !.signal = 2, !.pos = 1]
                  EXCEPT !.busy = 0, !.done = FALSE, !.page = p]
      BY DEF p
    <3> QED BY <1>2, <3>1, <3>2, <3>3, <3>4, Zenon
  <2>4. /\ go.lock = "rebal" /\ go.signal = 2 /\ go.pos = 1 /\ go.busy = 0 /\ ~go.done
        /\ go.page = mem.pages[s][1] /\ go.s = s /\ go.d = rb.d
    BY <1>2 DEF Rebal
  <2> HIDE DEF go
  <2>5. 1 \in 1 .. Perslab[s] /\ \A j \in 1 .. Perslab[s] : ~(j < 1)
    BY <2>1
  <2> QED BY <1>4, <2>2, <2>3, <2>4, <2>5 DEF Rebalancing
<1>7. Rebalancing(mem, rb')
  BY <1>3, <1>5, <1>6
<1>8. NoGrowth'
  BY <1>1 DEF IInv, NoGrowth, Steady
<1> QED BY <1>1, <1>7, <1>8, Facts, MemSame

\* The next chunk of the page.
LEMMA RebalMoveOK ==
  ASSUME IInv, slab_rebalance_move
  PROVE  IInv' /\ HeldStep
<1> DEFINE R == RefsOf(th, leaked)
           s == rb.s
           n == Perslab[s]
           c == Page(rb.page)[rb.pos]
           x == MoveChunk(mem, c)
           busy == rb.busy + x.busy
           next == [rb EXCEPT !.pos = @ + 1, !.busy = busy]
           again == [rb EXCEPT !.pos = 1, !.busy = 0]
           over == [rb EXCEPT !.done = TRUE, !.busy = 0]
<1>1. /\ StoreOK(mem, R, NULL) /\ R \in Refs /\ mem \in Memory /\ Rebalancing(mem, rb)
      /\ Crawling(mem, cr) /\ rb \in Rebal
  BY Facts DEF Rebalancing
<1>2. /\ UNCHANGED <<conf, th, ltype, mt, cr, oldest, leaked, ilock, glock, now>>
      /\ rb.lock = "rebal" /\ ~rb.done /\ mem' = x.m
      /\ rb' = IF ~(rb.pos = n) THEN next ELSE IF busy > 0 THEN again ELSE over
  BY DEF slab_rebalance_move, RebalQuiet
<1>3. /\ rb.signal = 2 /\ s \in Class /\ rb.d \in Class /\ s # rb.d /\ 1 \in DOMAIN mem.pages[s]
      /\ rb.page = mem.pages[s][1] /\ rb.pos \in 1 .. n
      /\ \A j \in 1 .. n : rb.busy = 0 /\ j < rb.pos => mem.heap[Page(rb.page)[j]].cls = 255
  BY <1>1, <1>2 DEF Rebalancing
<1>4. /\ \A j \in 1 .. n : Page(rb.page)[j] \in Chunk /\ Page(rb.page)[j] \in Home(mem, s)
  BY <1>1, <1>3, OnPage
<1>5. c \in Chunk /\ c \in Home(mem, s)
  BY <1>3, <1>4
<1>6. R[c] + 3 < MaxRef
  BY <1>5, Bounded
<1> HIDE DEF R, c
<1>7. /\ StoreOK(mem', R, NULL) /\ Calm(mem, mem') /\ \A d \in Chunk : d # c => Same(mem, mem', d)
      /\ \/ Same(mem, mem', c)
         \/ /\ R[c] = 0 /\ ~IsLinked(mem', c)
            /\ IsLinked(mem, c) => item_trylock(mem.heap[c].key)
      /\ x.busy \in {0, 1} /\ (x.busy = 0 => mem'.heap[c].cls = 255)
  BY <1>1, <1>2, <1>3, <1>5, <1>6, MoveStep
<1> HIDE DEF x
<1>8. Undisturbed(mem, mem', R, R, ilock, None, Idle)
  BY <1>5, <1>7 DEF Undisturbed, Same, item_trylock
<1>9. n \in 1 .. 2 /\ rb.pos \in Nat /\ rb.busy \in Nat /\ busy \in Nat
  BY <1>1, <1>3, <1>7, PerslabRange, SMTT(30) DEF Rebal
<1>10. /\ 1 \in DOMAIN mem'.pages[s] /\ rb.page = mem'.pages[s][1]
       /\ \A j \in 1 .. n : rb.busy = 0 /\ j < rb.pos => mem'.heap[Page(rb.page)[j]].cls = 255
       /\ x.busy = 0 => mem'.heap[Page(rb.page)[rb.pos]].cls = 255
  <2>1. 1 \in DOMAIN mem'.pages[s] /\ rb.page = mem'.pages[s][1]
    BY <1>3, <1>7, PageOf, SMTT(30)
  <2>2. \A j \in 1 .. n : rb.busy = 0 /\ j < rb.pos => mem'.heap[Page(rb.page)[j]].cls = 255
    BY <1>3, <1>4, <1>7, SMTT(30) DEF Calm
  <2> QED BY <1>7, <2>1, <2>2, Zenon DEF c
<1> DEFINE Part(r) == /\ r.lock = "rebal" /\ r.signal = 2 /\ r.s = s /\ r.d = rb.d
                      /\ r.page = rb.page
<1>11. ASSUME rb.pos # n PROVE Rebalancing(mem', rb')
  <2>1. next \in Rebal
    <3>1. \A y \in Rebal, i, j \in Nat : [y EXCEPT !.pos = i, !.busy = j] \in Rebal
      BY DEF Rebal
    <3>2. rb.pos + 1 \in Nat
      BY <1>9
    <3> QED BY <1>1, <1>9, <3>1, <3>2, Zenon
  <2>2. Part(next) /\ next.pos = rb.pos + 1 /\ next.busy = busy /\ ~next.done
    BY <1>1, <1>2, <1>3 DEF Rebal
  <2>3. rb' = next
    BY <1>2, <1>11
  <2> HIDE DEF next
  <2>4. rb.pos + 1 \in 1 .. n
    BY <1>3, <1>9, <1>11, SMTT(30)
  <2>5. ASSUME NEW j \in 1 .. n, busy = 0, j < rb.pos + 1
        PROVE  mem'.heap[Page(rb.page)[j]].cls = 255
    <3>1. rb.busy = 0 /\ x.busy = 0
      BY <1>7, <1>9, <2>5
    <3>2. j < rb.pos \/ j = rb.pos
      BY <1>9, <2>5
    <3> QED BY <1>10, <3>1, <3>2
  <2> HIDE DEF busy
  <2>6. \A j \in 1 .. Perslab[rb'.s] :
          rb'.done \/ (rb'.busy = 0 /\ j < rb'.pos) => mem'.heap[Page(rb'.page)[j]].cls = 255
    BY <2>2, <2>3, <2>5, SMTT(30)
  <2>7. /\ rb' \in Rebal /\ rb'.lock = "rebal" /\ rb'.signal = 2 /\ rb'.s \in Class
        /\ rb'.d \in Class /\ rb'.s # rb'.d /\ 1 \in DOMAIN mem'.pages[rb'.s]
        /\ rb'.page = mem'.pages[rb'.s][1] /\ rb'.pos \in 1 .. Perslab[rb'.s]
    <3>1. /\ rb'.lock = "rebal" /\ rb'.signal = 2 /\ rb'.s = s /\ rb'.d = rb.d
          /\ rb'.page = rb.page /\ rb'.pos = rb.pos + 1
      BY <2>2, <2>3, Zenon
    <3>2. s \in Class /\ rb.d \in Class /\ s # rb.d
      BY <1>3
    <3>3. 1 \in DOMAIN mem'.pages[rb'.s] /\ rb'.page = mem'.pages[rb'.s][1]
      BY <1>10, <3>1, Zenon
    <3>4. rb'.pos \in 1 .. Perslab[rb'.s]
      BY <2>4, <3>1, Zenon
    <3>5. rb' \in Rebal
      BY <2>1, <2>3, Zenon
    <3> QED BY <3>1, <3>2, <3>3, <3>4, <3>5, Zenon
  <2> QED BY <2>6, <2>7 DEF Rebalancing
<1>12. ASSUME rb.pos = n /\ busy > 0 PROVE Rebalancing(mem', rb')
  <2>1. again \in Rebal
    <3>1. \A y \in Rebal, i, j \in Nat : [y EXCEPT !.pos = i, !.busy = j] \in Rebal
      BY DEF Rebal
    <3> QED BY <1>1, <3>1, Zenon
  <2>2. Part(again) /\ again.pos = 1 /\ again.busy = 0 /\ ~again.done
    BY <1>1, <1>2, <1>3 DEF Rebal
  <2>3. rb' = again
    BY <1>2, <1>12
  <2> HIDE DEF again
  <2>4. 1 \in 1 .. n /\ \A j \in 1 .. n : ~(j < 1)
    BY <1>9
  <2>5. \A j \in 1 .. Perslab[rb'.s] :
          rb'.done \/ (rb'.busy = 0 /\ j < rb'.pos) => mem'.heap[Page(rb'.page)[j]].cls = 255
    BY <2>2, <2>3, <2>4, SMTT(30)
  <2>6. /\ rb' \in Rebal /\ rb'.lock = "rebal" /\ rb'.signal = 2 /\ rb'.s \in Class
        /\ rb'.d \in Class /\ rb'.s # rb'.d /\ 1 \in DOMAIN mem'.pages[rb'.s]
        /\ rb'.page = mem'.pages[rb'.s][1] /\ rb'.pos \in 1 .. Perslab[rb'.s]
    <3>1. /\ rb'.lock = "rebal" /\ rb'.signal = 2 /\ rb'.s = s /\ rb'.d = rb.d
          /\ rb'.page = rb.page /\ rb'.pos = 1
      BY <2>2, <2>3, Zenon
    <3>2. s \in Class /\ rb.d \in Class /\ s # rb.d
      BY <1>3
    <3>3. 1 \in DOMAIN mem'.pages[rb'.s] /\ rb'.page = mem'.pages[rb'.s][1]
      BY <1>10, <3>1, Zenon
    <3>4. rb'.pos \in 1 .. Perslab[rb'.s]
      BY <2>4, <3>1, Zenon
    <3>5. rb' \in Rebal
      BY <2>1, <2>3, Zenon
    <3> QED BY <3>1, <3>2, <3>3, <3>4, <3>5, Zenon
  <2> QED BY <2>5, <2>6 DEF Rebalancing
<1>13. ASSUME rb.pos = n /\ ~(busy > 0) PROVE Rebalancing(mem', rb')
  <2>1. over \in Rebal
    <3>1. \A y \in Rebal, b \in BOOLEAN, j \in Nat : [y EXCEPT !.done = b, !.busy = j] \in Rebal
      BY DEF Rebal
    <3> QED BY <1>1, <3>1, Zenon
  <2>2. Part(over) /\ over.pos = n /\ over.busy = 0
    BY <1>1, <1>2, <1>3, <1>13 DEF Rebal
  <2>3. rb' = over
    BY <1>2, <1>13
  <2> HIDE DEF over
  <2>4. rb.busy = 0 /\ x.busy = 0
    BY <1>7, <1>9, <1>13, SMTT(30)
  <2>5. \A j \in 1 .. n : mem'.heap[Page(rb.page)[j]].cls = 255
    <3> TAKE j \in 1 .. n
    <3>1. j < rb.pos \/ j = rb.pos
      BY <1>9, <1>13
    <3> QED BY <1>10, <2>4, <3>1
  <2>6. \A j \in 1 .. Perslab[rb'.s] : mem'.heap[Page(rb'.page)[j]].cls = 255
    BY <2>2, <2>3, <2>5
  <2>7. n \in 1 .. n
    BY <1>9, SMTT(30)
  <2>8. /\ rb' \in Rebal /\ rb'.lock = "rebal" /\ rb'.signal = 2 /\ rb'.s \in Class
        /\ rb'.d \in Class /\ rb'.s # rb'.d /\ 1 \in DOMAIN mem'.pages[rb'.s]
        /\ rb'.page = mem'.pages[rb'.s][1] /\ rb'.pos \in 1 .. Perslab[rb'.s]
    BY <1>3, <1>10, <2>1, <2>2, <2>3, <2>7, SMTT(30)
  <2> QED BY <2>6, <2>8 DEF Rebalancing
<1>14. Rebalancing(mem', rb')
  BY <1>11, <1>12, <1>13
<1>15. Crawling(mem', cr') /\ NoGrowth'
  BY <1>1, <1>2, <1>7, CrawlKept DEF IInv, NoGrowth, Steady
<1> QED BY <1>2, <1>7, <1>8, <1>14, <1>15, BackgroundOK DEF R

\* The last page takes the place of the first.
FirstGone(q) == [j \in 1 .. Len(q) - 1 |-> IF j = 1 THEN q[Len(q)] ELSE q[j]]

\* A list without its first element.
LEMMA FirstGoneList ==
  ASSUME NEW S, NEW q \in Seq(S), IsInjective(q), 1 \in DOMAIN q
  PROVE  /\ FirstGone(q) \in Seq(S) /\ IsInjective(FirstGone(q))
         /\ Range(FirstGone(q)) = Range(q) \ {q[1]}
<1> DEFINE r == FirstGone(q)
           n == Len(q)
<1>1. n \in Nat /\ n >= 1 /\ DOMAIN q = 1 .. n /\ \A j \in 1 .. n : q[j] \in S
  BY LenProperties, ElementOfSeq
<1>2. \A i, j \in 1 .. n : q[i] = q[j] => i = j
  BY <1>1 DEF IsInjective
<1> HIDE DEF n
<1>3. /\ DOMAIN r = 1 .. n - 1
      /\ \A j \in 1 .. n - 1 : r[j] = (IF j = 1 THEN q[n] ELSE q[j])
  BY DEF FirstGone, n
<1>4. r \in Seq(S)
  <2>1. \A j \in 1 .. n - 1 : (IF j = 1 THEN q[n] ELSE q[j]) \in S
    BY <1>1
  <2>2. r = [j \in 1 .. n - 1 |-> IF j = 1 THEN q[n] ELSE q[j]]
    BY DEF FirstGone, n
  <2>3. n - 1 \in Nat
    BY <1>1
  <2> HIDE DEF r
  <2>4. r \in [1 .. n - 1 -> S]
    BY <2>1, <2>2
  <2> QED BY <2>3, <2>4, SeqDef
<1> HIDE DEF r
<1>5. IsInjective(r)
  <2> SUFFICES ASSUME NEW i \in 1 .. n - 1, NEW j \in 1 .. n - 1, r[i] = r[j] PROVE i = j
    BY <1>3 DEF IsInjective
  <2>1. i \in 1 .. n /\ j \in 1 .. n /\ i # n /\ j # n /\ n \in 1 .. n
    BY <1>1
  <2> QED BY <1>2, <1>3, <2>1
<1>6. Range(r) = Range(q) \ {q[1]}
  <2>1. ASSUME NEW x \in Range(r) PROVE x \in Range(q) /\ x # q[1]
    <3>1. PICK j \in 1 .. n - 1 : x = r[j]
      BY <1>3 DEF Range
    <3>2. j \in 1 .. n /\ n \in 1 .. n /\ 1 \in 1 .. n /\ n # 1
      BY <1>1
    <3> QED BY <1>1, <1>2, <1>3, <3>1, <3>2 DEF Range
  <2>2. ASSUME NEW x \in Range(q), x # q[1] PROVE x \in Range(r)
    <3>1. PICK j \in 1 .. n : x = q[j]
      BY <1>1 DEF Range
    <3>2. CASE j = n
      <4>1. 1 \in 1 .. n - 1 /\ r[1] = x
        BY <1>1, <1>3, <2>2, <3>1, <3>2
      <4> QED BY <1>3, <4>1 DEF Range
    <3>3. CASE j # n
      <4>1. j \in 1 .. n - 1 /\ r[j] = x
        BY <1>1, <1>3, <2>2, <3>1, <3>3
      <4> QED BY <1>3, <4>1 DEF Range
    <3> QED BY <3>2, <3>3
  <2> QED BY <2>1, <2>2
<1> QED BY <1>4, <1>5, <1>6 DEF r

\* Pages have no chunk in common.
LEMMA PagesApart ==
  ASSUME NEW p \in 1 .. NPages, NEW s \in Class
  PROVE  /\ Range(Page(p)) \subseteq Chunk
         /\ \A a \in Class : Used(p, a) \subseteq Range(Page(p))
         /\ \A b \in 1 .. NPages : b # p => Range(Page(p)) \cap Range(Page(b)) = {}
BY PageList

\* Nothing on a page that has been dealt with is in use.
LEMMA PageIdle ==
  ASSUME NEW m, NEW R \in Refs, StoreOK(m, R, NULL), NEW s \in Class, NEW p \in Range(m.pages[s]),
         \A j \in 1 .. Perslab[s] : m.heap[Page(p)[j]].cls = 255
  PROVE  /\ p \in 1 .. NPages
         /\ \A c \in Range(Page(p)) : /\ c \in Chunk /\ m.heap[c].ref = 0 /\ ~IsLinked(m, c)
                                      /\ R[c] = 0 /\ \A id \in Class : c \notin Range(m.slots[id])
<1>1. m \in Memory /\ \A a \in Class : m.pages[a] \in Seq(1 .. NPages)
  BY DEF StoreOK, Memory
<1>2. ASSUME NEW a \in Class PROVE Range(m.pages[a]) \subseteq 1 .. NPages
  <2> DEFINE q == m.pages[a]
  <2>1. q \in Seq(1 .. NPages)
    BY <1>1
  <2> HIDE DEF q
  <2>2. Range(q) \subseteq 1 .. NPages
    BY <2>1, ElementsOf
  <2> QED BY <2>2 DEF q
<1>3. p \in 1 .. NPages
  BY <1>2
<1>p. ASSUME NEW b \in 1 .. NPages
      PROVE  /\ Range(Page(b)) \subseteq Chunk
             /\ \A a \in Class : Used(b, a) \subseteq Range(Page(b))
             /\ b # p => Range(Page(p)) \cap Range(Page(b)) = {}
  BY <1>3, PagesApart
<1>4. ASSUME NEW c \in Range(Page(p))
      PROVE  /\ c \in Chunk /\ m.heap[c].ref = 0 /\ ~IsLinked(m, c) /\ R[c] = 0
             /\ \A id \in Class : c \notin Range(m.slots[id])
  <2>1. c \in Chunk
    BY <1>3, <1>p
  <2>2. ASSUME NEW a \in Class, c \in Home(m, a) PROVE c \in Used(p, s)
    <3>1. PICK b \in Range(m.pages[a]) : c \in Used(b, a)
      BY <2>2 DEF Home
    <3>2. b \in 1 .. NPages /\ c \in Range(Page(b))
      BY <1>2, <1>p, <3>1
    <3>3. b = p
      BY <1>p, <3>2
    <3>4. a = s
      BY <3>3 DEF StoreOK, PagesOK
    <3> QED BY <3>1, <3>3, <3>4
  <2> DEFINE gone == 255
  <2> HIDE DEF gone
  <2>3. c \in Used(p, s) => m.heap[c].cls = gone
    BY DEF Used, gone
  <2>4. m.heap[c].ref \in Nat /\ m.heap[c].cls \in Nat /\ R[c] \in Nat
    BY <1>1, <2>1 DEF Memory, Item, Refs
  <2>5. m.heap[c].cls = gone => m.heap[c].ref = 0
    BY <2>1 DEF StoreOK, HomeOK, gone
  <2>6. m.heap[c].ref = 0
    BY <2>1, <2>2, <2>3, <2>4, <2>5 DEF StoreOK, HomeOK
  <2>7. m.heap[c].ref = (IF IsLinked(m, c) THEN 1 ELSE 0) + R[c]
    BY <2>1 DEF StoreOK, Counted
  <2>8. ~IsLinked(m, c) /\ R[c] = 0
    BY <2>4, <2>6, <2>7
  <2>9. ASSUME NEW id \in Class, c \in Range(m.slots[id]) PROVE FALSE
    <3>1. m.heap[c].cls = 0 /\ c \in Home(m, id)
      BY <2>9 DEF StoreOK, SlotsOK
    <3> QED BY <2>2, <2>3, <3>1 DEF gone
  <2> QED BY <2>1, <2>6, <2>8, <2>9
<1> QED BY <1>3, <1>4

Paged(m, id, q) == [m EXCEPT !.pages[id] = q]

\* Replacing the pages of one class leaves the rest of the memory alone.
LEMMA SetPages ==
  ASSUME NEW m \in Memory, NEW id \in Class, NEW q \in Seq(1 .. NPages)
  PROVE  LET o == Paged(m, id, q)
         IN  /\ o \in Memory /\ o.pages[id] = q /\ o.heap = m.heap /\ o.tab = m.tab
             /\ o.slots = m.slots /\ o.lru = m.lru /\ o.malloced = m.malloced
             /\ o.items = m.items /\ \A a \in Class : a # id => o.pages[a] = m.pages[a]
BY DEF Memory, Paged

\* The memory after slab_rebalance_finish has moved page p from class s to class g.
Given(m, p, s, g) ==
  split_slab_page_into_freelist(
    [m EXCEPT !.heap = [c \in Chunk |-> IF c \in Range(Page(p)) THEN NoItem ELSE @[c]],
              !.pages[s] = FirstGone(m.pages[s]), !.pages[g] = Append(@, p)], p, g)

\* The page that has been dealt with becomes free chunks of another class.
LEMMA FinishStep ==
  ASSUME NEW m, NEW R \in Refs, StoreOK(m, R, NULL), NEW s \in Class, NEW g \in Class, s # g,
         1 \in DOMAIN m.pages[s], NEW p, p = m.pages[s][1],
         \A j \in 1 .. Perslab[s] : m.heap[Page(p)[j]].cls = 255
  PROVE  LET n == Given(m, p, s, g)
         IN  /\ StoreOK(n, R, NULL) /\ n.lru = m.lru
             /\ \A d \in Chunk : Same(m, n, d) \/ (R[d] = 0 /\ ~IsLinked(m, d) /\ ~IsLinked(n, d))
<1> DEFINE n == Given(m, p, s, g)
           P == Range(Page(p))
           U == Used(p, g)
           h1 == [c \in Chunk |-> IF c \in P THEN NoItem ELSE m.heap[c]]
           h2 == [c \in Chunk |-> IF c \in U THEN [h1[c] EXCEPT !.fl = @ \cup {"SLABBED"}] ELSE h1[c]]
           a == FirstGone(m.pages[s])
           b == Append(m.pages[g], p)
           w == [m EXCEPT !.heap = h1, !.pages[s] = a, !.pages[g] = b]
           r == [j \in 1 .. Perslab[g] |-> Page(p)[Perslab[g] + 1 - j]]
           l == r \o m.slots[g]
           u == [w EXCEPT !.heap = h2, !.slots[g] = l]
<1>1. /\ m \in Memory /\ \A c \in Chunk : m.heap[c] \in Item
      /\ \A i \in Class : m.pages[i] \in Seq(1 .. NPages) /\ IsInjective(m.pages[i])
      /\ m.slots[g] \in Seq(Chunk)
  <2>1. m \in Memory
    BY DEF StoreOK
  <2>2. \A i \in Class : IsInjective(m.pages[i])
    BY DEF StoreOK, PagesOK
  <2>3. /\ \A c \in Chunk : m.heap[c] \in Item
        /\ \A i \in Class : m.pages[i] \in Seq(1 .. NPages)
        /\ m.slots[g] \in Seq(Chunk)
    BY <2>1 DEF Memory
  <2> QED BY <2>1, <2>2, <2>3
<1>2. p \in Range(m.pages[s])
  BY DEF Range
<1>3. /\ p \in 1 .. NPages
      /\ \A c \in P : /\ c \in Chunk /\ m.heap[c].ref = 0 /\ ~IsLinked(m, c)
                      /\ R[c] = 0 /\ \A id \in Class : c \notin Range(m.slots[id])
  BY <1>2, PageIdle
<1>4. \A i \in Class : i # s => p \notin Range(m.pages[i])
  BY <1>2 DEF StoreOK, PagesOK
<1>5. p \in 1 .. m.malloced
  BY <1>2 DEF StoreOK, PagesOK
<1>6. r \in Seq(Chunk) /\ U \subseteq P /\ P \subseteq Chunk
  BY <1>3, PageList
<1> HIDE DEF P, U
<1>7. a \in Seq(1 .. NPages) /\ IsInjective(a) /\ Range(a) = Range(m.pages[s]) \ {p}
  BY <1>1, FirstGoneList
<1>8. b \in Seq(1 .. NPages) /\ IsInjective(b) /\ Range(b) = Range(m.pages[g]) \cup {p}
  BY <1>1, <1>3, <1>4, BackList
<1>9. l \in Seq(Chunk)
  <2> HIDE DEF r
  <2> QED BY <1>1, <1>6, ConcatProperties
<1>10. NoItem \in Item /\ NoItem.ref = 0 /\ NoItem.cls = 0 /\ NoItem.fl = {}
  <2>1. <<>> \in Seq(Nat)
    OBVIOUS
  <2> QED BY <2>1 DEF NoItem, Item
<1>11. /\ \A x \in Item : LET y == [x EXCEPT !.fl = @ \cup {"SLABBED"}]
            IN  /\ y \in Item /\ y.cls = x.cls /\ y.ref = x.ref
                /\ "LINKED" \in y.fl <=> "LINKED" \in x.fl
                /\ "SLABBED" \in y.fl
  BY SMTT(30) DEF Item, Flags
<1>12. \A c \in Chunk : /\ h1[c] \in Item /\ (c \in P => h1[c] = NoItem)
                        /\ (c \notin P => h1[c] = m.heap[c])
  BY <1>1, <1>10
<1> HIDE DEF h1
<1>13. h1 \in [Chunk -> Item]
  BY <1>12 DEF h1
<1>14. \A c \in Chunk :
         /\ h2[c] \in Item
         /\ c \in P => h2[c].ref = 0 /\ h2[c].cls = 0 /\ "LINKED" \notin h2[c].fl
         /\ c \in U => "SLABBED" \in h2[c].fl
         /\ c \notin P => h2[c] = m.heap[c]
  <2> SUFFICES ASSUME NEW c \in Chunk
               PROVE  /\ h2[c] \in Item
                      /\ c \in P => h2[c].ref = 0 /\ h2[c].cls = 0 /\ "LINKED" \notin h2[c].fl
                      /\ c \in U => "SLABBED" \in h2[c].fl
                      /\ c \notin P => h2[c] = m.heap[c]
    OBVIOUS
  <2>1. CASE c \in U
    <3>1. h2[c] = [NoItem EXCEPT !.fl = @ \cup {"SLABBED"}] /\ c \in P
      BY <1>6, <1>12, <2>1
    <3> HIDE DEF h2
    <3> QED BY <1>10, <1>11, <3>1
  <2>2. CASE c \notin U
    <3>1. h2[c] = h1[c]
      BY <2>2
    <3> HIDE DEF h2
    <3> QED BY <1>10, <1>12, <2>2, <3>1
  <2> QED BY <2>1, <2>2
<1>15. h2 \in [Chunk -> Item]
  <2>1. \A c \in Chunk : h2[c] \in Item
    BY <1>14
  <2> QED BY <2>1
<1> HIDE DEF h2, a, b, l, r
<1>16. /\ w \in Memory /\ w.pages[s] = a /\ w.pages[g] = b /\ w.malloced = m.malloced
       /\ w.slots = m.slots /\ w.lru = m.lru /\ w.tab = m.tab /\ w.items = m.items
       /\ w.heap = h1 /\ \A i \in Class : i # s /\ i # g => w.pages[i] = m.pages[i]
  <2> DEFINE w1 == [m EXCEPT !.heap = h1]
             w2 == Paged(w1, s, a)
             w3 == Paged(w2, g, b)
  <2>1. w1 \in Memory /\ w1.pages = m.pages /\ w1.heap = h1 /\ Rest(m, w1)
    BY <1>1, <1>13 DEF Memory, Rest
  <2>2. w = [[w1 EXCEPT !.pages[s] = a] EXCEPT !.pages[g] = b]
    OBVIOUS
  <2> HIDE DEF w1, w
  <2>3. /\ w2 \in Memory /\ w2.pages[s] = a /\ w2.heap = h1
        /\ w2.malloced = w1.malloced /\ w2.slots = w1.slots /\ w2.lru = w1.lru
        /\ w2.tab = w1.tab /\ w2.items = w1.items
        /\ \A i \in Class : i # s => w2.pages[i] = w1.pages[i]
    BY <1>7, <2>1, SetPages
  <2>4. w = w3
    BY <2>2 DEF Paged
  <2> HIDE DEF w2
  <2>5. /\ w3 \in Memory /\ w3.pages[g] = b /\ w3.heap = h1
        /\ w3.malloced = w2.malloced /\ w3.slots = w2.slots /\ w3.lru = w2.lru
        /\ w3.tab = w2.tab /\ w3.items = w2.items
        /\ \A i \in Class : i # g => w3.pages[i] = w2.pages[i]
    BY <1>8, <2>3, SetPages
  <2> HIDE DEF w3
  <2> QED BY <2>1, <2>3, <2>4, <2>5 DEF Rest
<1>w. w = [m EXCEPT !.heap = [c \in Chunk |-> IF c \in P THEN NoItem ELSE @[c]],
                    !.pages[s] = FirstGone(m.pages[s]), !.pages[g] = Append(@, p)]
  BY <1>1 DEF Memory, h1, a, b
<1>17. n = split_slab_page_into_freelist(w, p, g)
  BY <1>w DEF Given, P
<1> HIDE DEF w
<1>18. /\ u \in Memory /\ u.pages = w.pages /\ u.malloced = m.malloced /\ u.heap = h2
       /\ u.lru = m.lru /\ u.tab = m.tab /\ u.items = m.items /\ u.slots[g] = l
       /\ \A i \in Class : i # g => u.slots[i] = m.slots[i]
  BY <1>9, <1>15, <1>16, ZenonT(30) DEF Memory
<1>19. n = u
  <2>1. u = [w EXCEPT !.heap = h2, !.slots[g] = r \o @]
    BY <1>16 DEF l
  <2> QED BY <1>16, <1>17, <2>1 DEF split_slab_page_into_freelist, h2, r, U
<1> HIDE DEF u, n
<1>20. PageGiven(m, u, g, p)
  <2>1. /\ p \notin Range(m.pages[g]) /\ IsInjective(u.pages[g])
        /\ Range(u.pages[g]) = Range(m.pages[g]) \cup {p}
    BY <1>4, <1>8, <1>16, <1>18
  <2>2. \A i \in Class : i # g => /\ IsInjective(u.pages[i]) /\ u.slots[i] = m.slots[i]
                                  /\ Range(u.pages[i]) = Range(m.pages[i]) \ {p}
    BY <1>1, <1>4, <1>7, <1>16, <1>18
  <2>3. m.malloced <= u.malloced /\ p <= u.malloced
    BY <1>1, <1>5, <1>18, Bounds DEF Memory
  <2>4. \A c \in P :
          /\ m.heap[c].ref = 0 /\ \A i \in Class : c \notin Range(m.slots[i])
          /\ u.heap[c].ref = 0 /\ u.heap[c].cls = 0 /\ ~IsLinked(u, c)
    BY <1>3, <1>14, <1>18 DEF IsLinked
  <2>5. \A c \in U : "SLABBED" \in u.heap[c].fl
    BY <1>6, <1>14, <1>18
  <2>6. \A c \in Chunk : c \notin P => u.heap[c] = m.heap[c]
    BY <1>14, <1>18
  <2>7. u.slots[g] = r \o m.slots[g]
    BY <1>18 DEF l
  <2>8. u.lru = m.lru /\ u.tab = m.tab /\ u.items = m.items
    BY <1>18
  <2> QED BY <2>1, <2>2, <2>3, <2>4, <2>5, <2>6, <2>7, <2>8 DEF PageGiven, P, U, r
<1>21. StoreOK(u, R, NULL)
  BY <1>3, <1>18, <1>20, GivePage
<1>22. \A d \in Chunk : Same(m, u, d) \/ (R[d] = 0 /\ ~IsLinked(m, d) /\ ~IsLinked(u, d))
  BY <1>3, <1>14, <1>18 DEF Same, IsLinked
<1> QED BY <1>18, <1>19, <1>21, <1>22 DEF n

\* slab_rebalance_finish: an empty page changes class.
LEMMA RebalFinishOK ==
  ASSUME IInv, slab_rebalance_finish
  PROVE  IInv' /\ HeldStep
<1> DEFINE R == RefsOf(th, leaked)
           s == rb.s
           g == rb.d
           p == rb.page
           n == Given(mem, p, s, g)
           rest == [rb EXCEPT !.lock = None, !.signal = 0, !.s = 0, !.d = 0, !.page = 0,
                              !.pos = 0, !.done = FALSE]
<1>1. /\ StoreOK(mem, R, NULL) /\ R \in Refs /\ mem \in Memory /\ Rebalancing(mem, rb)
      /\ Crawling(mem, cr) /\ rb \in Rebal
  BY Facts DEF Rebalancing
<1>2. /\ UNCHANGED <<conf, th, ltype, mt, cr, oldest, leaked, ilock, glock, now>>
      /\ rb.done /\ mem' = n /\ rb' = rest
  BY DEF slab_rebalance_finish, RebalQuiet, Given, FirstGone
<1>3. /\ s \in Class /\ g \in Class /\ s # g /\ 1 \in DOMAIN mem.pages[s]
      /\ p = mem.pages[s][1]
      /\ \A j \in 1 .. Perslab[s] : mem.heap[Page(p)[j]].cls = 255
  <2>1. rb.signal = 2
    BY <1>1, <1>2 DEF Rebalancing
  <2> QED BY <1>1, <1>2, <2>1 DEF Rebalancing
<1> HIDE DEF R, s, g, p
<1>4. /\ StoreOK(n, R, NULL) /\ n.lru = mem.lru
      /\ \A d \in Chunk : \/ Same(mem, n, d)
                          \/ R[d] = 0 /\ ~IsLinked(mem, d) /\ ~IsLinked(n, d)
  BY <1>1, <1>3, FinishStep
<1> HIDE DEF n
<1>5. Undisturbed(mem, mem', R, R, ilock, None, Idle)
  BY <1>2, <1>4 DEF Undisturbed, Same
<1>6. Rebalancing(mem', rb')
  <2>1. rest \in Rebal
    <3>1. \A x \in Rebal, y \in {None, "rebal"}, i \in 0 .. 2, j \in Nat :
            [x EXCEPT !.lock = y, !.signal = i, !.s = j] \in Rebal
      BY DEF Rebal
    <3>2. \A x \in Rebal, i, j, k \in Nat : [x EXCEPT !.d = i, !.page = j, !.pos = k] \in Rebal
      BY DEF Rebal
    <3>3. \A x \in Rebal, b \in BOOLEAN : [x EXCEPT !.done = b] \in Rebal
      BY DEF Rebal
    <3>4. rest = [[[rb EXCEPT !.lock = None, !.signal = 0, !.s = 0]
                       EXCEPT !.d = 0, !.page = 0, !.pos = 0] EXCEPT !.done = FALSE]
      OBVIOUS
    <3>5. None \in {None, "rebal"} /\ 0 \in 0 .. 2 /\ 0 \in Nat /\ FALSE \in BOOLEAN
      OBVIOUS
    <3> HIDE DEF rest
    <3>6. [rb EXCEPT !.lock = None, !.signal = 0, !.s = 0] \in Rebal
      BY <1>1, <3>1, <3>5, Zenon
    <3> QED BY <3>2, <3>3, <3>4, <3>5, <3>6, Zenon
  <2>2. rest.signal = 0 /\ rest.lock = None /\ ~rest.done
    BY <1>1 DEF Rebal
  <2> HIDE DEF rest
  <2> QED BY <1>2, <2>1, <2>2 DEF Rebalancing, None
<1>7. Crawling(mem', cr') /\ NoGrowth'
  BY <1>1, <1>2, <1>4 DEF IInv, NoGrowth, Steady, Crawling
<1> QED BY <1>2, <1>4, <1>5, <1>6, <1>7, BackgroundOK DEF R

\* Other LRU lists.
Listed(m, f) == [m EXCEPT !.lru = f]

\* Replacing the LRU lists leaves the rest of the memory alone.
LEMMA SetLists ==
  ASSUME NEW m \in Memory, NEW f \in [Class -> Seq(Int)]
  PROVE  LET o == Listed(m, f)
         IN  /\ o \in Memory /\ o.lru = f /\ o.heap = m.heap /\ o.tab = m.tab /\ o.casid = m.casid
             /\ o.slots = m.slots /\ o.pages = m.pages /\ o.malloced = m.malloced
             /\ o.items = m.items
BY DEF Memory, Listed

\* A crawler's pseudo item is no chunk.
LEMMA NoChunk ==
  ASSUME NEW id \in Class
  PROVE  Crawler(id) \in Int /\ Crawler(id) \notin Chunk /\ Crawler(id) < 0
<1>1. id \in Nat /\ id > 0
  BY StoreAssumption, LenProperties DEF Class
<1>2. \A c \in Chunk : c \in Nat
  BY Bounds DEF Chunk, MaxPer
<1> QED BY <1>1, <1>2 DEF Crawler

\* A crawler comes, goes or changes places with an item.
LEMMA Reordered ==
  ASSUME NEW m, NEW R \in Refs, StoreOK(m, R, NULL), NEW f \in [Class -> Seq(Int)],
         \A id \in Class :
           /\ IsInjective(f[id]) /\ Range(f[id]) \subseteq Range(m.lru[id]) \cup {Crawler(id)}
           /\ Range(m.lru[id]) \subseteq Range(f[id]) \cup {Crawler(id)}
  PROVE  LET n == Listed(m, f)
         IN  /\ StoreOK(n, R, NULL) /\ n.lru = f /\ n.pages = m.pages /\ n.heap = m.heap
             /\ \A d \in Chunk : Same(m, n, d)
<1> DEFINE n == Listed(m, f)
<1>1. /\ n \in Memory /\ n.lru = f /\ n.heap = m.heap /\ n.tab = m.tab
      /\ n.slots = m.slots /\ n.pages = m.pages /\ n.malloced = m.malloced /\ n.items = m.items
  <2>1. m \in Memory
    BY DEF StoreOK
  <2> QED BY <2>1, SetLists
<1> HIDE DEF n
<1>2. \A d \in Chunk : IsLinked(n, d) <=> IsLinked(m, d)
  BY <1>1 DEF IsLinked
<1>3. \A id \in Class : Home(n, id) = Home(m, id)
  BY <1>1 DEF Home
<1>4. LruOK(n)
  <2>1. LruOK(m)
    BY DEF StoreOK
  <2> SUFFICES ASSUME NEW id \in Class
               PROVE  /\ IsInjective(n.lru[id])
                      /\ Range(n.lru[id]) \subseteq Chunk \cup {Crawler(id)}
                      /\ \A c \in Chunk :
                           c \in Range(n.lru[id]) <=> IsLinked(n, c) /\ n.heap[c].cls = id
    BY DEF LruOK
  <2>2. /\ Range(m.lru[id]) \subseteq Chunk \cup {Crawler(id)}
        /\ \A c \in Chunk : c \in Range(m.lru[id]) <=> IsLinked(m, c) /\ m.heap[c].cls = id
    BY <2>1 DEF LruOK
  <2>3. \A c \in Chunk : c # Crawler(id)
    BY NoChunk
  <2>4. \A c \in Chunk : c \in Range(n.lru[id]) <=> c \in Range(m.lru[id])
    BY <1>1, <2>3
  <2>5. \A c \in Chunk : c \in Range(n.lru[id]) <=> IsLinked(n, c) /\ n.heap[c].cls = id
    BY <1>1, <1>2, <2>2, <2>4
  <2>6. Range(n.lru[id]) \subseteq Chunk \cup {Crawler(id)}
    BY <1>1, <2>2
  <2> QED BY <1>1, <2>5, <2>6
<1>5. Counted(n, R)
  BY <1>1, <1>2 DEF StoreOK, Counted
<1>6. SlotsOK(n, NULL) /\ NoneLost(n, NULL)
  BY <1>1, <1>3 DEF StoreOK, SlotsOK, NoneLost
<1>7. TabOK(n)
  BY <1>1, <1>2 DEF StoreOK, TabOK
<1>8. HomeOK(n)
  BY <1>1, <1>3 DEF StoreOK, HomeOK
<1>9. PagesOK(n)
  BY <1>1 DEF StoreOK, PagesOK
<1>10. ItemsOK(n)
  <2>1. Linked(n) = Linked(m)
    BY <1>2 DEF Linked
  <2> QED BY <1>1, <2>1 DEF StoreOK, ItemsOK
<1>11. \A d \in Chunk : Same(m, n, d)
  BY <1>1, <1>2 DEF Same
<1> QED BY <1>1, <1>4, <1>5, <1>6, <1>7, <1>8, <1>9, <1>10, <1>11 DEF StoreOK, n

\* Pages and discarded chunks stay, the crawlers need not.
LEMMA RebalSteady ==
  ASSUME NEW m, NEW n, NEW r, Rebalancing(m, r), n.pages = m.pages, n.heap = m.heap
  PROVE  Rebalancing(n, r)
BY DEF Rebalancing

\* lru_crawler_crawl puts pseudo items at the tails.
LEMMA CrawlStartOK ==
  ASSUME IInv, lru_crawler_crawl
  PROVE  IInv' /\ HeldStep
<1> DEFINE R == RefsOf(th, leaked)
<1>1. /\ StoreOK(mem, R, NULL) /\ R \in Refs /\ mem \in Memory /\ Rebalancing(mem, rb)
      /\ Crawling(mem, cr) /\ conf \in Scenario
  BY Facts
<1>2. /\ UNCHANGED <<th, ltype, mt, rb, oldest, leaked, ilock, glock, now>> /\ cr.on = {}
      /\ conf.crawls > 0 /\ conf' = [conf EXCEPT !.crawls = @ - 1]
  BY DEF lru_crawler_crawl, CrawlQuiet
<1>3. PICK S \in SUBSET Class :
        LET on == {id \in S : mem.lru[id] # <<>>}
        IN  /\ cr' = [on |-> on, left |-> [id \in Class |-> conf.tocrawl]]
            /\ mem' = [mem EXCEPT !.lru = [id \in Class |->
                         IF id \in on THEN Append(@[id], Crawler(id)) ELSE @[id]]]
  BY DEF lru_crawler_crawl
<1> DEFINE on == {id \in S : mem.lru[id] # <<>>}
           f == [id \in Class |-> IF id \in on THEN Append(mem.lru[id], Crawler(id)) ELSE mem.lru[id]]
<1>4. mem' = Listed(mem, f) /\ cr' = [on |-> on, left |-> [id \in Class |-> conf.tocrawl]]
  BY <1>3 DEF Listed
<1>5. on \subseteq Class
  OBVIOUS
<1> HIDE DEF on
<1>6. ASSUME NEW id \in Class
      PROVE  /\ mem.lru[id] \in Seq(Int) /\ IsInjective(mem.lru[id])
             /\ Crawler(id) \notin Range(mem.lru[id])
  BY <1>1, <1>2 DEF Memory, StoreOK, LruOK, Crawling
<1>7. ASSUME NEW id \in Class
      PROVE  LET z == IF id \in on THEN Append(mem.lru[id], Crawler(id)) ELSE mem.lru[id]
             IN  /\ z \in Seq(Int) /\ IsInjective(z)
                 /\ Range(z) = Range(mem.lru[id]) \cup (IF id \in on THEN {Crawler(id)} ELSE {})
  <2> DEFINE q == mem.lru[id]
             c == Crawler(id)
  <2>1. q \in Seq(Int) /\ IsInjective(q) /\ c \in Int /\ c \notin Range(q)
    BY <1>6, NoChunk
  <2> HIDE DEF q, c
  <2>2. /\ Append(q, c) \in Seq(Int) /\ IsInjective(Append(q, c))
        /\ Range(Append(q, c)) = Range(q) \cup {c}
    BY <2>1, BackList
  <2> QED BY <2>1, <2>2 DEF q, c
<1>8. /\ f \in [Class -> Seq(Int)]
      /\ \A id \in Class :
           /\ IsInjective(f[id])
           /\ Range(f[id]) = Range(mem.lru[id]) \cup (IF id \in on THEN {Crawler(id)} ELSE {})
  BY <1>7
<1> HIDE DEF f, R
<1>9. /\ StoreOK(mem', R, NULL) /\ mem'.lru = f /\ mem'.pages = mem.pages /\ mem'.heap = mem.heap
      /\ \A d \in Chunk : Same(mem, mem', d)
  <2>1. \A id \in Class :
          /\ IsInjective(f[id]) /\ Range(f[id]) \subseteq Range(mem.lru[id]) \cup {Crawler(id)}
          /\ Range(mem.lru[id]) \subseteq Range(f[id]) \cup {Crawler(id)}
    BY <1>8
  <2> QED BY <1>1, <1>4, <1>8, <2>1, Reordered
<1>10. Undisturbed(mem, mem', R, R, ilock, None, Idle)
  BY <1>9, Peaceful
<1>11. Crawling(mem', cr')
  <2>1. conf.tocrawl \in Nat
    BY <1>1 DEF Scenario
  <2>2. cr' \in [on : SUBSET Class, left : [Class -> Nat]] /\ cr'.on = on
    BY <1>4, <1>5, <2>1
  <2>3. \A id \in Class : Crawler(id) \in Range(mem'.lru[id]) <=> id \in on
    BY <1>6, <1>8, <1>9
  <2> QED BY <2>2, <2>3 DEF Crawling
<1>12. Rebalancing(mem', rb')
  <2>1. rb' = rb
    BY <1>2
  <2> QED BY <1>1, <1>9, <2>1, RebalSteady
<1>13. NoGrowth' /\ conf'.ops = conf.ops
  BY <1>1, <1>2, OneLessCrawl DEF IInv, NoGrowth, Steady
<1> QED BY <1>2, <1>9, <1>10, <1>11, <1>12, <1>13, BackgroundOK DEF R

\* Two neighbours of a list change places.
Swapped(q, i) == [q EXCEPT ![i - 1] = q[i], ![i] = q[i - 1]]

\* Swapping two neighbours of a list without repetition.
LEMMA SwapList ==
  ASSUME NEW S, NEW q \in Seq(S), IsInjective(q), NEW i \in 2 .. Len(q)
  PROVE  /\ Swapped(q, i) \in Seq(S) /\ IsInjective(Swapped(q, i))
         /\ Range(Swapped(q, i)) = Range(q) /\ q[i - 1] # q[i] /\ q[i - 1] \in Range(q)
<1> DEFINE r == Swapped(q, i)
           n == Len(q)
           h == i - 1
<1>1. n \in Nat /\ DOMAIN q = 1 .. n /\ \A j \in 1 .. n : q[j] \in S
  BY LenProperties, ElementOfSeq
<1>2. \A j, k \in 1 .. n : q[j] = q[k] => j = k
  BY <1>1 DEF IsInjective
<1>3. i \in 1 .. n /\ h \in 1 .. n /\ h # i
  BY <1>1
<1>4. r = [q EXCEPT ![h] = q[i], ![i] = q[h]]
  BY DEF Swapped
<1> HIDE DEF n, r, h
<1>5. /\ DOMAIN r = 1 .. n
      /\ \A j \in 1 .. n : r[j] = (IF j = i THEN q[h] ELSE IF j = h THEN q[i] ELSE q[j])
  BY <1>1, <1>3, <1>4
<1>6. r \in Seq(S)
  <2>1. q \in [1 .. n -> S]
    BY <1>1 DEF n
  <2>2. r \in [1 .. n -> S]
    BY <1>1, <1>3, <1>4, <2>1
  <2> QED BY <1>1, <2>2, SeqDef
<1>7. IsInjective(r)
  <2> SUFFICES ASSUME NEW j \in 1 .. n, NEW k \in 1 .. n, r[j] = r[k] PROVE j = k
    BY <1>5 DEF IsInjective
  <2> QED BY <1>2, <1>3, <1>5
<1>8. Range(r) = Range(q)
  <2>1. ASSUME NEW x \in Range(r) PROVE x \in Range(q)
    BY <1>1, <1>3, <1>5 DEF Range
  <2>2. ASSUME NEW x \in Range(q) PROVE x \in Range(r)
    <3>1. PICK j \in 1 .. n : x = q[j]
      BY <1>1 DEF Range
    <3>2. \E k \in 1 .. n : r[k] = x
      BY <1>3, <1>5, <3>1
    <3> QED BY <1>5, <3>2 DEF Range
  <2> QED BY <2>1, <2>2
<1>9. q[h] # q[i] /\ q[h] \in Range(q)
  BY <1>1, <1>2, <1>3 DEF Range
<1> QED BY <1>6, <1>7, <1>8, <1>9 DEF r, h

\* The crawler steps over the item before it, or is at the head.
LEMMA CrawlQ ==
  ASSUME NEW id \in Class, NEW q \in Seq(Int), IsInjective(q), Crawler(id) \in Range(q),
         Range(q) \subseteq Chunk \cup {Crawler(id)}
  PROVE  LET x == crawler_crawl_q(q, id)
         IN  /\ x.q \in Seq(Int) /\ IsInjective(x.q) /\ Range(x.q) = Range(q)
             /\ x.search # NULL => x.search \in Chunk /\ x.search \in Range(q)
<1> DEFINE a == Crawler(id)
           i == CHOOSE j \in DOMAIN q : q[j] = a
           x == crawler_crawl_q(q, id)
<1>1. DOMAIN q = 1 .. Len(q) /\ Len(q) \in Nat
  BY LenProperties
<1>2. i \in 1 .. Len(q) /\ q[i] = a
  BY <1>1 DEF Range
<1>3. x = IF i = 1 THEN [q |-> q, search |-> NULL]
          ELSE [q |-> [q EXCEPT ![i - 1] = a, ![i] = q[i - 1]], search |-> q[i - 1]]
  BY DEF crawler_crawl_q
<1> HIDE DEF i, x, a
<1>4. CASE i = 1
  BY <1>3, <1>4 DEF x
<1>5. CASE i # 1
  <2>1. i \in 2 .. Len(q)
    BY <1>1, <1>2, <1>5
  <2>2. /\ Swapped(q, i) \in Seq(Int) /\ IsInjective(Swapped(q, i))
        /\ Range(Swapped(q, i)) = Range(q) /\ q[i - 1] # q[i] /\ q[i - 1] \in Range(q)
    BY <2>1, SwapList
  <2>3. x.q = Swapped(q, i) /\ x.search = q[i - 1]
    BY <1>2, <1>3, <1>5 DEF Swapped
  <2>4. q[i - 1] \in Chunk
    BY <1>2, <2>2 DEF a
  <2> QED BY <2>2, <2>3, <2>4 DEF x
<1> QED BY <1>4, <1>5

\* A step of the crawler: past one item, which it frees when it has expired.
LEMMA CrawlItemOK ==
  ASSUME IInv, NEW id \in Class, CrawlItem(id)
  PROVE  IInv' /\ HeldStep
<1> DEFINE R == RefsOf(th, leaked)
           a == Crawler(id)
           x == crawler_crawl_q(mem.lru[id], id)
           c == x.search
           m == [mem EXCEPT !.lru[id] = x.q]
           left == IF cr.left[id] = 0 THEN 0 ELSE cr.left[id] - 1
           stop == c = NULL \/ (cr.left[id] # 0 /\ left < 1)
           f == [mem.lru EXCEPT ![id] = x.q]
           g == [mem.lru EXCEPT ![id] = Without(x.q, a)]
<1>1. /\ StoreOK(mem, R, NULL) /\ R \in Refs /\ mem \in Memory /\ Rebalancing(mem, rb)
      /\ Crawling(mem, cr)
  BY Facts
<1>2. /\ UNCHANGED <<conf, th, ltype, mt, rb, oldest, leaked, ilock, glock, now>> /\ id \in cr.on
      /\ mem' = IF stop THEN crawler_unlink_q(m, id)
                ELSE IF item_trylock(m.heap[c].key) /\ m.heap[c].ref = 1
                THEN item_crawler_evaluate(m, c) ELSE m
      /\ cr' = [on |-> IF stop THEN cr.on \ {id} ELSE cr.on,
                left |-> [cr.left EXCEPT ![id] = left]]
  BY DEF CrawlItem, CrawlQuiet
<1>3. \A i \in Class : /\ mem.lru[i] \in Seq(Int) /\ IsInjective(mem.lru[i])
                       /\ Range(mem.lru[i]) \subseteq Chunk \cup {Crawler(i)}
  BY <1>1 DEF Memory, StoreOK, LruOK
<1>4. mem.lru \in [Class -> Seq(Int)] /\ a \in Range(mem.lru[id])
  BY <1>1, <1>2 DEF Memory, Crawling
<1>5. /\ x.q \in Seq(Int) /\ IsInjective(x.q) /\ Range(x.q) = Range(mem.lru[id])
      /\ c # NULL => c \in Chunk /\ c \in Range(mem.lru[id])
  <2> DEFINE q == mem.lru[id]
  <2>1. /\ q \in Seq(Int) /\ IsInjective(q) /\ a \in Range(q) /\ Range(q) \subseteq Chunk \cup {a}
    BY <1>3, <1>4
  <2> HIDE DEF q
  <2> QED BY <2>1, CrawlQ DEF q
<1>6. /\ Without(x.q, a) \in Seq(Int) /\ IsInjective(Without(x.q, a))
      /\ Range(Without(x.q, a)) = Range(x.q) \ {a}
  <2> HIDE DEF x, a
  <2> QED BY <1>5, WithoutList
<1>7. m = Listed(mem, f) /\ crawler_unlink_q(m, id) = Listed(mem, g)
  <2>1. m = Listed(mem, f)
    BY DEF Listed
  <2>2. crawler_unlink_q(m, id) = [m EXCEPT !.lru[id] = Without(x.q, a)]
    <3>1. m.lru[id] = x.q
      BY <1>1, <1>4 DEF Memory
    <3> HIDE DEF m, x
    <3> QED BY <3>1 DEF crawler_unlink_q
  <2> HIDE DEF x
  <2>3. [m EXCEPT !.lru[id] = Without(x.q, a)] = Listed(mem, g)
    BY <1>1, <1>4 DEF Listed, Memory
  <2> QED BY <2>1, <2>2, <2>3
<1>8. /\ f \in [Class -> Seq(Int)] /\ f[id] = x.q /\ g \in [Class -> Seq(Int)]
      /\ g[id] = Without(x.q, a)
      /\ \A i \in Class : i # id => f[i] = mem.lru[i] /\ g[i] = mem.lru[i]
  <2> HIDE DEF x
  <2> QED BY <1>4, <1>5, <1>6
<1> HIDE DEF f, g, x, a, R
<1>9. /\ StoreOK(m, R, NULL) /\ m.lru = f /\ m.pages = mem.pages /\ m.heap = mem.heap
      /\ \A d \in Chunk : Same(mem, m, d)
  <2>1. \A i \in Class :
          /\ IsInjective(f[i]) /\ Range(f[i]) \subseteq Range(mem.lru[i]) \cup {Crawler(i)}
          /\ Range(mem.lru[i]) \subseteq Range(f[i]) \cup {Crawler(i)}
    BY <1>3, <1>5, <1>8
  <2> HIDE DEF m
  <2> QED BY <1>1, <1>7, <1>8, <2>1, Reordered
<1> HIDE DEF m
<1>10. \A i \in Class : i # id => (Crawler(i) \in Range(mem.lru[i]) <=> i \in cr.on)
  BY <1>1 DEF Crawling
<1>11. cr'.left \in [Class -> Nat] /\ cr'.on \subseteq Class
       /\ cr' = [on |-> cr'.on, left |-> cr'.left]
  <2>1. cr.left \in [Class -> Nat] /\ cr.on \subseteq Class
    BY <1>1 DEF Crawling
  <2>2. left \in Nat
    BY <2>1
  <2> HIDE DEF left
  <2> QED BY <1>2, <2>1, <2>2
<1>12. cr' \in [on : SUBSET Class, left : [Class -> Nat]]
  BY <1>11, SMTT(30)
<1>13. CASE stop
  <2>1. mem' = Listed(mem, g) /\ cr'.on = cr.on \ {id}
    BY <1>2, <1>7, <1>13
  <2>2. \A i \in Class :
          /\ IsInjective(g[i]) /\ Range(g[i]) \subseteq Range(mem.lru[i]) \cup {Crawler(i)}
          /\ Range(mem.lru[i]) \subseteq Range(g[i]) \cup {Crawler(i)}
    BY <1>3, <1>5, <1>6, <1>8 DEF a
  <2>3. /\ StoreOK(mem', R, NULL) /\ mem'.lru = g /\ mem'.pages = mem.pages /\ mem'.heap = mem.heap
        /\ \A d \in Chunk : Same(mem, mem', d)
    BY <1>1, <1>8, <2>1, <2>2, Reordered
  <2>4. Undisturbed(mem, mem', R, R, ilock, None, Idle)
    BY <2>3, Peaceful
  <2>5. \A i \in Class : Crawler(i) \in Range(mem'.lru[i]) <=> i \in cr'.on
    <3> TAKE i \in Class
    <3>1. CASE i = id
      <4>1. a \notin Range(g[id])
        BY <1>6, <1>8
      <4> QED BY <2>1, <2>3, <3>1, <4>1 DEF a
    <3>2. CASE i # id
      BY <1>8, <1>10, <2>1, <2>3, <3>2
    <3> QED BY <3>1, <3>2
  <2>6. Crawling(mem', cr')
    BY <1>12, <2>5 DEF Crawling
  <2>7. Rebalancing(mem', rb')
    <3>1. rb' = rb
      BY <1>2
    <3> QED BY <1>1, <2>3, <3>1, RebalSteady
  <2>8. NoGrowth' /\ conf'.ops = conf.ops
    BY <1>2 DEF IInv, NoGrowth, Steady
  <2> QED BY <1>2, <2>3, <2>4, <2>6, <2>7, <2>8, BackgroundOK DEF R
<1>14. CASE ~stop
  <2> DEFINE n == do_item_remove(do_item_unlink(refcount_incr(m, c), c), c)
  <2>1. c \in Chunk /\ c \in Range(mem.lru[id]) /\ cr'.on = cr.on
    BY <1>2, <1>5, <1>14
  <2>2. IsLinked(m, c)
    BY <1>1, <1>9, <2>1 DEF StoreOK, LruOK, Same
  <2>3. \/ mem' = m
        \/ mem' = n /\ item_trylock(m.heap[c].key) /\ m.heap[c].ref = 1
    BY <1>2, <1>14 DEF item_crawler_evaluate
  <2> HIDE DEF n, c, stop, left
  <2>4. R[c] \in Nat /\ R[c] + 3 < MaxRef
    BY <2>1, Bounded DEF R
  <2>5. ASSUME m.heap[c].ref = 1
        PROVE  /\ StoreOK(n, R, NULL) /\ Calm(m, n) /\ ~IsLinked(n, c) /\ R[c] = 0
               /\ \A d \in Chunk : d # c => Same(m, n, d)
    <3>1. m.heap[c].ref = (IF IsLinked(m, c) THEN 1 ELSE 0) + R[c]
      BY <1>9, <2>1 DEF StoreOK, Counted
    <3>2. R[c] = 0 /\ m.heap[c].ref > 0
      BY <2>2, <2>4, <2>5, <3>1
    <3> QED BY <1>1, <1>9, <2>1, <2>4, <3>2, DropStep DEF n
  <2>6. /\ StoreOK(mem', R, NULL) /\ Calm(m, mem')
        /\ \A d \in Chunk : \/ Same(m, mem', d)
                            \/ R[d] = 0 /\ ~IsLinked(mem', d) /\ item_trylock(m.heap[d].key)
    <3>1. CASE mem' = m
      BY <1>9, <3>1, CalmMarked DEF Same
    <3>2. CASE mem' = n /\ item_trylock(m.heap[c].key) /\ m.heap[c].ref = 1
      BY <2>5, <3>2
    <3> QED BY <2>3, <3>1, <3>2
  <2>7. Undisturbed(mem, mem', R, R, ilock, None, Idle)
    BY <1>9, <2>6 DEF Undisturbed, Same, item_trylock
  <2>8. Rebalancing(mem', rb')
    <3>1. rb' = rb /\ m \in Memory
      BY <1>2, <1>9 DEF StoreOK
    <3>2. Rebalancing(m, rb)
      BY <1>1, <1>9, RebalSteady
    <3> QED BY <2>6, <3>1, <3>2, RebalKept
  <2>9. \A i \in Class : Crawler(i) \in Range(mem'.lru[i]) <=> i \in cr'.on
    <3> TAKE i \in Class
    <3>1. Crawler(i) \in Range(mem'.lru[i]) <=> Crawler(i) \in Range(f[i])
      BY <1>9, <2>6 DEF Calm
    <3>2. CASE i = id
      BY <1>2, <1>4, <1>5, <1>8, <2>1, <3>1, <3>2 DEF a
    <3>3. CASE i # id
      BY <1>8, <1>10, <2>1, <3>1, <3>3
    <3> QED BY <3>2, <3>3
  <2>10. Crawling(mem', cr')
    BY <1>12, <2>9 DEF Crawling
  <2>11. NoGrowth' /\ conf'.ops = conf.ops
    BY <1>2 DEF IInv, NoGrowth, Steady
  <2> QED BY <1>2, <2>6, <2>7, <2>8, <2>10, <2>11, BackgroundOK DEF R
<1> QED BY <1>13, <1>14

----------------------------------------------------------------------------
(* Every step.                                                             *)

\* Every step of a command,
LEMMA ThreadStepOK ==
  ASSUME IInv, NEW t \in Threads, ThreadStep(t)
  PROVE  IInv' /\ HeldStep
<1>1. CASE ItemAlloc(t)
  BY <1>1, ItemAllocOK
<1>2. CASE Uploaded(t)
  BY <1>2, UploadedOK
<1>3. CASE Lookup(t)
  BY <1>3, LookupOK
<1>4. CASE ItemGet(t)
  BY <1>4, ItemGetOK
<1>5. CASE GetOld(t)
  BY <1>5, GetOldOK
<1>6. CASE DoStoreItem(t)
  BY <1>6, DoStoreItemOK
<1>7. CASE DoAddDelta(t)
  BY <1>7, DoAddDeltaOK
<1>8. CASE ItemUpdate(t)
  BY <1>8, ItemUpdateOK
<1>9. CASE ItemUnlink(t)
  BY <1>9, ItemUnlinkOK
<1>10. CASE ItemRemove(t)
  BY <1>10, ItemRemoveOK
<1>11. CASE ReturnCmd(t)
  BY <1>11, ReturnOK
<1>12. CASE SwitchLockType(t)
  <2>1. mt.todo = {}
    BY DEF IInv, NoGrowth
  <2> QED BY <1>12, <2>1 DEF SwitchLockType
<1>13. CASE GetMoving(t)
  BY <1>13, GetMovingOK
<1>14. CASE DropMoved(t)
  BY <1>14, DropMovedOK
<1> QED BY <1>1, <1>2, <1>3, <1>4, <1>5, <1>6, <1>7, <1>8, <1>9, <1>10, <1>11, <1>12, <1>13,
           <1>14 DEF ThreadStep

\* every step of the rebalancer, the crawler and the maintenance thread,
LEMMA BackgroundStepOK ==
  ASSUME IInv, Background
  PROVE  IInv' /\ HeldStep
<1>1. mt.pc = "wait" /\ mem.started = FALSE
  <2>1. mem \in Memory /\ mt.pc = "wait"
    BY Facts DEF IInv, NoGrowth
  <2> QED BY <2>1 DEF Memory
<1>2. ~MaintPause /\ ~assoc_expand /\ ~MoveBucket /\ ~MaintResume
  BY <1>1 DEF MaintPause, assoc_expand, MoveBucket, MaintResume
<1>3. CASE slab_rebalance_start
  BY <1>3, RebalStartOK
<1>4. CASE slab_rebalance_move
  BY <1>4, RebalMoveOK
<1>5. CASE slab_rebalance_finish
  BY <1>5, RebalFinishOK
<1>6. CASE \E id \in Class : CrawlItem(id)
  BY <1>6, CrawlItemOK
<1> QED BY <1>2, <1>3, <1>4, <1>5, <1>6 DEF Background

\* so every step of the store, keeps the invariant and the items that others hold.
LEMMA StepOK ==
  ASSUME IInv, [Next]_vars
  PROVE  IInv' /\ HeldStep
<1>1. ASSUME NEW t \in Threads, Begin(t) PROVE IInv' /\ HeldStep
  BY <1>1, BeginOK
<1>2. ASSUME NEW t \in Threads, ThreadStep(t) PROVE IInv' /\ HeldStep
  BY <1>2, ThreadStepOK
<1>3. ASSUME NEW t \in Threads, FlushAll(t) PROVE IInv' /\ HeldStep
  <2>1. conf.flush = {}
    BY DEF IInv, NoGrowth, Steady
  <2> QED BY <1>3, <2>1, Zenon DEF FlushAll
<1>4. CASE Background
  BY <1>4, BackgroundStepOK
<1>5. CASE Reassign
  BY <1>5, ReassignOK
<1>6. CASE lru_crawler_crawl
  BY <1>6, CrawlStartOK
<1>7. CASE clock_handler
  BY <1>7, ClockOK
<1>8. CASE UNCHANGED vars
  <2>1. UNCHANGED <<conf, mem, th, ilock, glock, ltype, mt, rb, cr, now, oldest, leaked>>
    BY <1>8 DEF vars
  <2>2. NoGrowth'
    BY <2>1 DEF IInv, NoGrowth, Steady
  <2>3. Rebalancing(mem, rb') /\ Crawling(mem, cr')
    BY <2>1, Facts
  <2> QED BY <2>1, <2>2, <2>3, MemSame
<1> QED BY <1>1, <1>2, <1>3, <1>4, <1>5, <1>6, <1>7, <1>8 DEF Next

----------------------------------------------------------------------------
(* The beginning.                                                          *)

\* Where the chunks of a class are in its first free list.
LEMMA Spots ==
  ASSUME NEW n \in 1 .. 2, NEW l \in Nat
  PROVE  /\ n * l \in Nat
         /\ \A i \in 1 .. n * l : /\ (i - 1) \div n \in 0 .. l - 1 /\ (i - 1) % n \in 0 .. n - 1
                                  /\ i = n * ((i - 1) \div n) + ((i - 1) % n) + 1
         /\ \A k \in 0 .. l - 1, r \in 0 .. n - 1 :
              \E i \in 1 .. n * l : (i - 1) \div n = k /\ (i - 1) % n = r
<1>1. CASE n = 1
  <2>1. \A i \in Int : i \div 1 = i /\ i % 1 = 0
    OBVIOUS
  <2>2. \A i \in 1 .. l : i - 1 \in Int
    OBVIOUS
  <2>3. \A k \in 0 .. l - 1 : k + 1 \in 1 .. l /\ (k + 1) - 1 = k
    OBVIOUS
  <2>4. 1 * l = l /\ \A k \in Int : 1 * k = k
    OBVIOUS
  <2> QED BY <1>1, <2>1, <2>2, <2>3, <2>4
<1>2. CASE n = 2
  <2>1. \A i \in Int : \E k \in Int, r \in 0 .. 1 : k = i \div 2 /\ r = i % 2 /\ i = 2 * k + r
    <3> SUFFICES ASSUME NEW i \in Int
                 PROVE  \E k \in Int, r \in 0 .. 1 : k = i \div 2 /\ r = i % 2 /\ i = 2 * k + r
      OBVIOUS
    <3>1. i \div 2 \in Int
      OBVIOUS
    <3>2. i % 2 \in 0 .. 1
      OBVIOUS
    <3>3. PICK k \in Int, r \in 0 .. 1 : k = i \div 2 /\ r = i % 2
      BY <3>1, <3>2
    <3>4. i = 2 * k + r
      BY <3>3
    <3> QED BY <3>3, <3>4
  <2>2. ASSUME NEW i \in 1 .. 2 * l
        PROVE  /\ (i - 1) \div 2 \in 0 .. l - 1 /\ (i - 1) % 2 \in 0 .. 1
               /\ i = 2 * ((i - 1) \div 2) + ((i - 1) % 2) + 1
    BY <2>1
  <2>3. ASSUME NEW k \in 0 .. l - 1, NEW r \in 0 .. 1
        PROVE  \E i \in 1 .. 2 * l : (i - 1) \div 2 = k /\ (i - 1) % 2 = r
    <3>1. 2 * k + r + 1 \in 1 .. 2 * l /\ (2 * k + r + 1) - 1 = 2 * k + r
      OBVIOUS
    <3>2. (2 * k + r) \div 2 = k /\ (2 * k + r) % 2 = r
      OBVIOUS
    <3> QED BY <3>1, <3>2
  <2>4. 2 * l \in Nat /\ 0 .. 2 - 1 = 0 .. 1
    OBVIOUS
  <2> QED BY <1>2, <2>2, <2>3, <2>4
<1> QED BY <1>1, <1>2

\* slabs_preallocate puts every chunk of a class's pages into its free list, once.
LEMMA FreeListOK ==
  ASSUME NEW id \in Class, NEW ps \in Seq(1 .. NPages), IsInjective(ps)
  PROVE  LET s == FreeList(ps, Perslab[id])
         IN  /\ s \in Seq(Chunk) /\ IsInjective(s)
             /\ Range(s) = UNION {Used(p, id) : p \in Range(ps)}
<1> DEFINE n == Perslab[id]
           l == Len(ps)
           s == FreeList(ps, n)
           k(i) == (i - 1) \div n
           r(i) == (i - 1) % n
           at(i) == Page(ps[l - k(i)])[n - r(i)]
<1>1. n \in 1 .. 2 /\ NPages \in Nat
  BY PerslabRange, Bounds
<1>2. l \in Nat /\ DOMAIN ps = 1 .. l /\ \A j \in 1 .. l : ps[j] \in 1 .. NPages
  BY LenProperties, ElementOfSeq
<1>3. \A p \in 1 .. NPages : \A j \in 1 .. n : Page(p)[j] = (p - 1) * 2 + j
  BY <1>1 DEF Page, MaxPer
<1>4. s = [i \in 1 .. n * l |-> at(i)]
  BY DEF FreeList
<1>5. \A i, j \in 1 .. l : ps[i] = ps[j] => i = j
  BY <1>2 DEF IsInjective
<1> HIDE DEF n, l, s
<1>6. /\ n * l \in Nat
      /\ \A i \in 1 .. n * l : /\ k(i) \in 0 .. l - 1 /\ r(i) \in 0 .. n - 1
                               /\ i = n * k(i) + r(i) + 1
      /\ \A a \in 0 .. l - 1, b \in 0 .. n - 1 : \E i \in 1 .. n * l : k(i) = a /\ r(i) = b
  BY <1>1, <1>2, Spots
<1> HIDE DEF k, r
<1>7. \A a \in 0 .. l - 1 : l - a \in 1 .. l
  BY <1>2
<1>8. \A b \in 0 .. n - 1 : n - b \in 1 .. n
  BY <1>1
<1>9. \A i \in 1 .. n * l : ps[l - k(i)] \in 1 .. NPages /\ n - r(i) \in 1 .. n
  BY <1>2, <1>6, <1>7, <1>8
<1>10. \A i \in 1 .. n * l : at(i) = (ps[l - k(i)] - 1) * 2 + (n - r(i))
  BY <1>3, <1>9
<1>11. \A p \in 1 .. NPages, j \in 1 .. n : (p - 1) * 2 + j \in Chunk
  BY <1>1 DEF Chunk, MaxPer
<1>12. \A i \in 1 .. n * l : at(i) \in Chunk
  BY <1>9, <1>10, <1>11
<1> HIDE DEF at
<1>13. s \in Seq(Chunk) /\ DOMAIN s = 1 .. n * l /\ \A i \in 1 .. n * l : s[i] = at(i)
  <2> DEFINE d == n * l
  <2>1. d \in Nat /\ s = [i \in 1 .. d |-> at(i)] /\ \A i \in 1 .. d : at(i) \in Chunk
    BY <1>4, <1>6, <1>12
  <2> HIDE DEF d
  <2>2. s \in [1 .. d -> Chunk]
    BY <2>1
  <2>3. s \in Seq(Chunk) /\ DOMAIN s = 1 .. d /\ \A i \in 1 .. d : s[i] = at(i)
    BY <2>1, <2>2, SeqDef
  <2> QED BY <2>3 DEF d
<1>14. ASSUME NEW i \in 1 .. n * l, NEW j \in 1 .. n * l, at(i) = at(j) PROVE i = j
  <2>1. \A p, q \in 1 .. NPages, a, b \in 1 .. n :
          (p - 1) * 2 + a = (q - 1) * 2 + b => p = q /\ a = b
    BY <1>1
  <2>2. ps[l - k(i)] = ps[l - k(j)] /\ n - r(i) = n - r(j)
    <3> DEFINE p == ps[l - k(i)]
               q == ps[l - k(j)]
               a == n - r(i)
               b == n - r(j)
    <3>1. p \in 1 .. NPages /\ q \in 1 .. NPages /\ a \in 1 .. n /\ b \in 1 .. n
      BY <1>9
    <3>2. (p - 1) * 2 + a = (q - 1) * 2 + b
      BY <1>10, <1>14
    <3> HIDE DEF p, q, a, b
    <3>3. p = q /\ a = b
      BY ONLY <2>1, <3>1, <3>2
    <3> QED BY <3>3 DEF p, q, a, b
  <2>3. l - k(i) = l - k(j)
    BY <1>5, <1>6, <1>7, <2>2
  <2>4. k(i) = k(j) /\ r(i) = r(j)
    <3>1. /\ k(i) \in Int /\ k(j) \in Int /\ r(i) \in Int /\ r(j) \in Int /\ n \in Int /\ l \in Int
      <4>1. \A a \in 0 .. l - 1 : a \in Int
        OBVIOUS
      <4>2. \A a \in 0 .. n - 1 : a \in Int
        OBVIOUS
      <4>3. n \in Int /\ l \in Int
        BY <1>1, <1>2
      <4>4. k(i) \in 0 .. l - 1 /\ k(j) \in 0 .. l - 1 /\ r(i) \in 0 .. n - 1 /\ r(j) \in 0 .. n - 1
        BY <1>6
      <4> QED BY ONLY <4>1, <4>2, <4>3, <4>4
    <3> QED BY ONLY <2>2, <2>3, <3>1
  <2>5. i = n * k(i) + r(i) + 1 /\ j = n * k(j) + r(j) + 1
    BY <1>6
  <2> QED BY <2>4, <2>5
<1>15. IsInjective(s)
  BY <1>13, <1>14 DEF IsInjective
<1>16. ASSUME NEW c \in Range(s) PROVE \E p \in Range(ps) : c \in Used(p, id)
  <2>1. PICK i \in 1 .. n * l : c = at(i)
    BY <1>13 DEF Range
  <2>2. ps[l - k(i)] \in Range(ps)
    BY <1>2, <1>6, <1>7 DEF Range
  <2>3. c \in Used(ps[l - k(i)], id)
    BY <1>9, <2>1 DEF Used, at, n
  <2> QED BY <2>2, <2>3
<1>17. ASSUME NEW p \in Range(ps), NEW c \in Used(p, id) PROVE c \in Range(s)
  <2>1. PICK a \in 1 .. l : ps[a] = p
    BY <1>2 DEF Range
  <2>2. PICK b \in 1 .. n : c = Page(p)[b]
    BY DEF Used, n
  <2>3. l - a \in 0 .. l - 1 /\ n - b \in 0 .. n - 1 /\ l - (l - a) = a /\ n - (n - b) = b
    BY <1>1, <1>2
  <2>4. PICK i \in 1 .. n * l : k(i) = l - a /\ r(i) = n - b
    BY <1>6, <2>3
  <2>5. at(i) = c
    BY <2>1, <2>2, <2>3, <2>4 DEF at
  <2> QED BY <1>13, <2>5 DEF Range
<1> QED BY <1>13, <1>15, <1>16, <1>17 DEF s, n

\* slabs_init and slabs_preallocate leave a sound memory, whatever pages each class
\* was given.
LEMMA InitMemory ==
  ASSUME NEW ps, ps \in [Class -> Seq(1 .. NPages)], PagesOf([pages |-> ps]) = 1 .. Cardinality(PagesOf([pages |-> ps])),
         \A id \in Class : IsInjective(ps[id]),
         \A a, b \in Class : a # b => Range(ps[a]) \cap Range(ps[b]) = {}
  PROVE  LET m == slabs_init(ps)
         IN  /\ m \in Memory /\ \A id \in Class : m.lru[id] = <<>>
             /\ StoreOK(m, [c \in Chunk |-> 0], NULL)
<1> DEFINE m == slabs_init(ps)
           R == [c \in Chunk |-> 0]
           all == UNION {Range(ps[id]) : id \in Class}
           h == [c \in Chunk |-> IF \E id \in Class : \E p \in Range(ps[id]) : c \in Used(p, id)
                                 THEN [NoItem EXCEPT !.fl = {"SLABBED"}] ELSE NoItem]
<1>1. \A id \in Class : ps[id] \in Seq(1 .. NPages) /\ IsInjective(ps[id])
  OBVIOUS
<1>2. all = 1 .. Cardinality(all)
  BY DEF PagesOf
<1>3. \A id \in Class : Range(ps[id]) \subseteq 1 .. NPages
  <2> SUFFICES ASSUME NEW id \in Class PROVE Range(ps[id]) \subseteq 1 .. NPages
    OBVIOUS
  <2> DEFINE q == ps[id]
  <2>1. q \in Seq(1 .. NPages)
    BY <1>1
  <2> HIDE DEF q
  <2>2. Range(q) \subseteq 1 .. NPages
    BY <2>1, ElementsOf
  <2> QED BY <2>2 DEF q
<1>4. all \subseteq 1 .. NPages /\ \A id \in Class : Range(ps[id]) \subseteq all
  BY <1>3
<1> HIDE DEF all
<1>5. Cardinality(all) \in 0 .. NPages
  <2>1. /\ IsFiniteSet(1 .. NPages) /\ Cardinality(1 .. NPages) = NPages /\ NPages \in Nat
    BY Bounds, FS_Interval
  <2>2. IsFiniteSet(all) /\ Cardinality(all) <= Cardinality(1 .. NPages)
    BY <1>4, <2>1, FS_Subset
  <2>3. Cardinality(all) \in Nat
    BY <2>2, FS_CardinalityType
  <2> QED BY <2>1, <2>2, <2>3
<1>6. NoItem \in Item /\ NoItem.ref = 0 /\ NoItem.cls = 0 /\ NoItem.fl = {}
  <2>1. <<>> \in Seq(Nat)
    OBVIOUS
  <2> QED BY <2>1 DEF NoItem, Item
<1>7. LET y == [NoItem EXCEPT !.fl = {"SLABBED"}]
      IN  y \in Item /\ y.ref = 0 /\ y.cls = 0 /\ y.fl = {"SLABBED"}
  BY <1>6 DEF Item, Flags
<1>8. \A c \in Chunk :
        /\ h[c] \in Item /\ h[c].ref = 0 /\ h[c].cls = 0 /\ "LINKED" \notin h[c].fl
        /\ \A id \in Class : \A p \in Range(ps[id]) : c \in Used(p, id) => "SLABBED" \in h[c].fl
  <2> SUFFICES ASSUME NEW c \in Chunk
               PROVE  /\ h[c] \in Item /\ h[c].ref = 0 /\ h[c].cls = 0 /\ "LINKED" \notin h[c].fl
                      /\ \A id \in Class : \A p \in Range(ps[id]) :
                           c \in Used(p, id) => "SLABBED" \in h[c].fl
    OBVIOUS
  <2>1. CASE \E id \in Class : \E p \in Range(ps[id]) : c \in Used(p, id)
    <3>1. h[c] = [NoItem EXCEPT !.fl = {"SLABBED"}]
      BY <2>1
    <3> HIDE DEF h
    <3> QED BY <1>7, <3>1
  <2>2. CASE ~\E id \in Class : \E p \in Range(ps[id]) : c \in Used(p, id)
    <3>1. h[c] = NoItem
      BY <2>2
    <3> QED BY <1>6, <2>2, <3>1
  <2> QED BY <2>1, <2>2
<1>9. h \in [Chunk -> Item]
  BY <1>8
<1>10. \A id \in Class :
         LET s == FreeList(ps[id], Perslab[id])
         IN  /\ s \in Seq(Chunk) /\ IsInjective(s)
             /\ Range(s) = UNION {Used(p, id) : p \in Range(ps[id])}
  <2> SUFFICES ASSUME NEW id \in Class
               PROVE  LET s == FreeList(ps[id], Perslab[id])
                      IN  /\ s \in Seq(Chunk) /\ IsInjective(s)
                          /\ Range(s) = UNION {Used(p, id) : p \in Range(ps[id])}
    OBVIOUS
  <2> DEFINE q == ps[id]
  <2>1. q \in Seq(1 .. NPages) /\ IsInjective(q)
    BY <1>1
  <2> HIDE DEF q
  <2> QED BY <2>1, FreeListOK DEF q
<1>11. /\ m.heap = h /\ m.pages = ps /\ m.malloced = Cardinality(all) /\ m.items = 0
       /\ \A id \in Class : m.lru[id] = <<>> /\ m.slots[id] = FreeList(ps[id], Perslab[id])
       /\ \A b \in Bucket : m.tab[b] = <<>>
  BY DEF slabs_init, all, Bucket
<1>12. m \in Memory
  <2>1. /\ m = [heap |-> h, lru |-> m.lru, slots |-> m.slots, pages |-> ps,
                malloced |-> Cardinality(all), tab |-> m.tab, old |-> <<>>, power |-> HashPower,
                expanding |-> FALSE, bucket |-> 0, items |-> 0, started |-> FALSE, casid |-> 0]
    BY DEF slabs_init, all
  <2>2. m.lru \in [Class -> Seq(Int)]
    <3>1. m.lru = [id \in Class |-> <<>>] /\ <<>> \in Seq(Int)
      BY DEF slabs_init
    <3> QED BY <3>1
  <2>3. m.tab \in [Bucket -> Seq(Chunk)]
    <3>1. m.tab = [b \in Bucket |-> <<>>] /\ <<>> \in Seq(Chunk)
      BY DEF slabs_init, Bucket
    <3> QED BY <3>1
  <2>4. m.slots \in [Class -> Seq(Chunk)]
    <3>1. m.slots = [id \in Class |-> FreeList(ps[id], Perslab[id])]
      BY DEF slabs_init
    <3> HIDE DEF m
    <3> QED BY <1>10, <3>1
  <2>5. \A x \in [Chunk -> Item], l \in [Class -> Seq(Int)], s \in [Class -> Seq(Chunk)],
           p \in [Class -> Seq(1 .. NPages)], n \in 0 .. NPages, t \in [Bucket -> Seq(Chunk)] :
          [heap |-> x, lru |-> l, slots |-> s, pages |-> p, malloced |-> n, tab |-> t,
           old |-> <<>>, power |-> HashPower, expanding |-> FALSE, bucket |-> 0, items |-> 0,
           started |-> FALSE, casid |-> 0] \in Memory
    BY DEF Memory
  <2> DEFINE l == m.lru
             s == m.slots
             t == m.tab
             n == Cardinality(all)
  <2> HIDE DEF m, h, l, s, t, n
  <2>6. /\ h \in [Chunk -> Item] /\ l \in [Class -> Seq(Int)] /\ s \in [Class -> Seq(Chunk)]
        /\ t \in [Bucket -> Seq(Chunk)] /\ n \in 0 .. NPages
    BY <1>5, <1>9, <2>2, <2>3, <2>4 DEF l, s, t, n
  <2>7. m = [heap |-> h, lru |-> l, slots |-> s, pages |-> ps, malloced |-> n, tab |-> t,
             old |-> <<>>, power |-> HashPower, expanding |-> FALSE, bucket |-> 0, items |-> 0,
             started |-> FALSE, casid |-> 0]
    BY <2>1 DEF l, s, t, n
  <2> QED BY <2>5, <2>6, <2>7
<1> HIDE DEF m, h
<1>13. \A c \in Chunk : ~IsLinked(m, c)
  BY <1>8, <1>11 DEF IsLinked
<1>14. \A id \in Class : Home(m, id) = Range(m.slots[id])
  BY <1>10, <1>11 DEF Home
<1>e. \A c : c \notin Range(<<>>)
  BY DEF Range
<1>f. IsInjective(<<>>)
  BY DEF IsInjective
<1>15. Counted(m, R)
  BY <1>8, <1>11, <1>13 DEF Counted
<1>16. SlotsOK(m, NULL)
  <2> SUFFICES ASSUME NEW id \in Class
               PROVE  /\ IsInjective(m.slots[id])
                      /\ \A c \in Range(m.slots[id]) :
                           /\ c # NULL /\ m.heap[c].ref = 0 /\ m.heap[c].cls = 0
                           /\ "SLABBED" \in m.heap[c].fl /\ c \in Home(m, id)
    BY DEF SlotsOK
  <2>1. ASSUME NEW c \in Range(m.slots[id])
        PROVE  /\ c # NULL /\ m.heap[c].ref = 0 /\ m.heap[c].cls = 0
               /\ "SLABBED" \in m.heap[c].fl /\ c \in Home(m, id)
    <3>0. Range(m.slots[id]) = UNION {Used(p, id) : p \in Range(ps[id])}
      BY <1>10, <1>11
    <3>1. PICK p \in Range(ps[id]) : c \in Used(p, id)
      BY <3>0
    <3>2. c \in Chunk
      BY <1>12, <1>14, HomeChunks
    <3> QED BY <1>8, <1>11, <1>14, <3>1, <3>2, Bounds
  <2> QED BY <1>10, <1>11, <2>1
<1>17. LruOK(m)
  BY <1>11, <1>13, <1>e, <1>f DEF LruOK
<1>18. TabOK(m)
  BY <1>11, <1>13, <1>e, <1>f DEF TabOK
<1>19. HomeOK(m)
  BY <1>8, <1>11 DEF HomeOK
<1>20. NoneLost(m, NULL)
  BY <1>14 DEF NoneLost
<1>21. PagesOK(m)
  <2>1. \A id \in Class : Range(m.pages[id]) \subseteq 1 .. m.malloced
    BY <1>2, <1>4, <1>11
  <2> QED BY <1>1, <1>11, <2>1 DEF PagesOK
<1>22. ItemsOK(m)
  <2>1. Linked(m) = {}
    BY <1>13 DEF Linked
  <2> QED BY <1>11, <2>1, FS_EmptySet DEF ItemsOK
<1> QED BY <1>11, <1>12, <1>15, <1>16, <1>17, <1>18, <1>19, <1>20, <1>21, <1>22 DEF StoreOK, m

\* Every steady initial state satisfies the invariant.
LEMMA InitOK ==
  ASSUME Init, Steady
  PROVE  IInv
<1> DEFINE R == [c \in Chunk |-> 0]
           ps == conf.pages
<1>1. /\ conf \in Scenario /\ conf.ops + 3 * Cardinality(Threads) + 3 < MaxRef
      /\ PagesOf(conf) = 1 .. Cardinality(PagesOf(conf))
      /\ \A id \in Class : IsInjective(conf.pages[id])
      /\ \A a, b \in Class : a # b => Range(conf.pages[a]) \cap Range(conf.pages[b]) = {}
  BY StoreAssumption DEF Init
<1>2. ps \in [Class -> Seq(1 .. NPages)] /\ PagesOf([pages |-> ps]) = PagesOf(conf)
  BY <1>1 DEF Scenario, PagesOf
<1>3. mem = slabs_init(ps)
  BY DEF Init
<1> HIDE DEF ps
<1>4. mem \in Memory /\ (\A id \in Class : mem.lru[id] = <<>>) /\ StoreOK(mem, R, NULL)
  <2>1. /\ \A id \in Class : IsInjective(ps[id])
        /\ \A a, b \in Class : a # b => Range(ps[a]) \cap Range(ps[b]) = {}
    BY <1>1 DEF ps
  <2>2. PagesOf([pages |-> ps]) = 1 .. Cardinality(PagesOf([pages |-> ps]))
    BY <1>1, <1>2
  <2> HIDE DEF R
  <2>3. LET m == slabs_init(ps)
        IN  /\ m \in Memory /\ \A id \in Class : m.lru[id] = <<>>
            /\ StoreOK(m, [c \in Chunk |-> 0], NULL)
    BY ONLY <1>2, <2>1, <2>2, InitMemory
  <2> QED BY <1>3, <2>3 DEF R
<1>5. /\ th = [t \in Threads |-> Idle] /\ ilock = [l \in 0 .. NLocks - 1 |-> None]
      /\ leaked = R /\ glock = None /\ ltype = [t \in Threads |-> "granular"]
      /\ mt = [pc |-> "wait", todo |-> {}] /\ now = UpdateInterval + 2 /\ oldest = 0
      /\ rb = [lock |-> None, signal |-> 0, s |-> 0, d |-> 0, page |-> 0, pos |-> 0,
               busy |-> 0, done |-> FALSE, cur |-> 0]
      /\ cr = [on |-> {}, left |-> [id \in Class |-> 0]]
  BY DEF Init
<1>6. TypesOK
  BY <1>5, IdleShape DEF TypesOK
<1>7. RefsOf(th, leaked) = R
  <2>1. \A c \in Chunk : Its(th, c) = {} /\ Olds(th, c) = {}
    BY <1>5, IdleShape, Bounds DEF Its, Olds
  <2>2. Cardinality({}) = 0
    BY FS_EmptySet
  <2>3. \A c \in Chunk : leaked[c] = 0
    BY <1>5
  <2>4. \A c \in Chunk : leaked[c] + Cardinality(Its(th, c)) + Cardinality(Olds(th, c)) = 0
    BY <2>1, <2>2, <2>3
  <2> QED BY <2>4 DEF RefsOf
<1>8. FewRefs(th, leaked, conf.ops)
  <2>1. Busy(th) = {}
    BY <1>5, IdleShape DEF Busy
  <2>2. Cardinality(Threads) \in Nat /\ conf.ops \in Nat
    BY <1>1, StoreAssumption, FS_CardinalityType DEF Scenario
  <2>3. 0 + 0 + conf.ops + 2 * Cardinality(Threads) + 3 < MaxRef
    BY <1>1, <2>2, Bounds
  <2>4. Cardinality(Busy(th)) = 0 /\ \A c \in Chunk : leaked[c] = 0
    BY <1>5, <2>1, FS_EmptySet
  <2> QED BY <2>3, <2>4 DEF FewRefs, Load
<1>9. \A t \in Threads : Shaped(th[t]) /\ Knows(t, th[t], mem, R, ilock)
  BY <1>5, IdleShape DEF Knows, Private
<1>10. Rebalancing(mem, rb)
  <2>1. rb \in Rebal
    BY <1>5 DEF Rebal
  <2>2. rb.lock = None /\ rb.signal = 0 /\ ~rb.done
    BY <1>5
  <2> QED BY <2>1, <2>2 DEF Rebalancing, None
<1>11. Crawling(mem, cr)
  <2>1. \A c : c \notin Range(<<>>)
    BY DEF Range
  <2> QED BY <1>4, <1>5, <2>1 DEF Crawling
<1>12. NoGrowth
  BY <1>1, <1>5, StoreAssumption DEF NoGrowth
<1> HIDE DEF R
<1> QED BY <1>4, <1>6, <1>7, <1>8, <1>9, <1>10, <1>11, <1>12 DEF IInv

----------------------------------------------------------------------------
(* The results.                                                            *)

\* The invariant contains StoreInv,
LEMMA StoreSound ==
  ASSUME IInv
  PROVE  StoreInv
<1> DEFINE R == RefsOf(th, leaked)
<1>1. StoreOK(mem, R, NULL) /\ R \in Refs /\ mem \in Memory /\ Crawling(mem, cr)
  BY Facts
<1> HIDE DEF R
<1>2. \A c \in Chunk : c > 0 /\ c # NULL
  BY Bounds DEF Chunk, MaxPer, NULL
<1>3. ASSUME NEW id \in Class, NEW p \in Range(mem.pages[id])
      PROVE  p \in 1 .. NPages /\ Used(p, id) \subseteq Range(Page(p)) /\ Used(p, id) \subseteq Chunk
  <2> DEFINE q == mem.pages[id]
  <2>1. q \in Seq(1 .. NPages)
    BY <1>1 DEF Memory
  <2> HIDE DEF q
  <2>2. p \in 1 .. NPages
    BY <2>1, ElementsOf DEF q
  <2> QED BY <2>2, PagesApart, PageChunks
<1>4. ASSUME NEW id \in Class, NEW j \in DOMAIN mem.slots[id]
      PROVE  LET c == mem.slots[id][j]
             IN  /\ mem.heap[c].cls = 0 /\ mem.heap[c].ref = 0
                 /\ "SLABBED" \in mem.heap[c].fl
                 /\ \E p \in Range(mem.pages[id]) : c \in Range(Page(p))
  <2> DEFINE c == mem.slots[id][j]
  <2>1. c \in Range(mem.slots[id])
    BY DEF Range
  <2> HIDE DEF c
  <2>2. /\ mem.heap[c].cls = 0 /\ mem.heap[c].ref = 0 /\ "SLABBED" \in mem.heap[c].fl
        /\ c \in Home(mem, id)
    BY <1>1, <2>1 DEF StoreOK, SlotsOK
  <2>3. \E p \in Range(mem.pages[id]) : c \in Range(Page(p))
    BY <1>3, <2>2 DEF Home
  <2> QED BY <2>2, <2>3 DEF c
<1>5. ASSUME NEW id \in Class
      PROVE  IsInjective(mem.slots[id]) /\ IsInjective(mem.lru[id])
  BY <1>1 DEF StoreOK, SlotsOK, LruOK
<1>6. ASSUME NEW id \in Class
      PROVE  {c \in Range(mem.lru[id]) : c > 0} =
               {c \in Chunk : "LINKED" \in mem.heap[c].fl /\ mem.heap[c].cls = id}
  <2>1. /\ Range(mem.lru[id]) \subseteq Chunk \cup {Crawler(id)}
        /\ \A c \in Chunk : c \in Range(mem.lru[id])
                              <=> "LINKED" \in mem.heap[c].fl /\ mem.heap[c].cls = id
    BY <1>1 DEF StoreOK, LruOK, IsLinked
  <2>2. ~(Crawler(id) > 0)
    BY NoChunk
  <2> QED BY <1>2, <2>1, <2>2
<1>7. ASSUME NEW id \in Class
      PROVE  Crawler(id) \in Range(mem.lru[id]) <=> id \in cr.on
  BY <1>1 DEF Crawling
<1>8. ASSUME NEW id \in Class, NEW p \in Range(mem.pages[id]), NEW j \in 1 .. Perslab[id]
      PROVE  LET c == Page(p)[j]
             IN  mem.heap[c].ref = 0 => c \in Range(mem.slots[id]) \/ mem.heap[c].cls = 255
  <2> DEFINE c == Page(p)[j]
  <2>1. c \in Used(p, id)
    BY DEF Used
  <2>2. c \in Home(mem, id) /\ c # NULL
    BY <1>2, <1>3, <2>1 DEF Home
  <2> HIDE DEF c
  <2> QED BY <1>1, <2>2 DEF StoreOK, NoneLost, c
<1>9. ASSUME NEW c \in Chunk, "LINKED" \in mem.heap[c].fl
      PROVE  assoc_find(mem, mem.heap[c].key) = c
  <2>1. mem.heap[c].key \in Nat /\ IsLinked(mem, c)
    BY <1>1, <1>9 DEF Memory, Item, IsLinked
  <2> QED BY <1>1, <2>1, Finds
<1>10. mem.items = Cardinality({c \in Chunk : "LINKED" \in mem.heap[c].fl})
  BY <1>1 DEF StoreOK, ItemsOK, Linked, IsLinked
<1>11. mt.pc # "move"
  BY DEF IInv, NoGrowth
<1> QED BY <1>4, <1>5, <1>6, <1>7, <1>8, <1>9, <1>10, <1>11 DEF StoreInv

\* and RefAccounted.
LEMMA RefsSound ==
  ASSUME IInv
  PROVE  RefAccounted
<1> SUFFICES ASSUME NEW c \in Chunk
             PROVE  mem.heap[c].ref = (IF "LINKED" \in mem.heap[c].fl THEN 1 ELSE 0) + leaked[c]
                                      + Cardinality({t \in Threads : th[t].it = c})
                                      + Cardinality({t \in Threads : th[t].old = c})
  BY DEF RefAccounted
<1> DEFINE S == {t \in Threads : th[t].it = c}
           T == {t \in Threads : th[t].old = c}
<1>1. leaked[c] \in Nat
  BY Facts DEF Refs
<1>2. Cardinality(S) \in Nat /\ Cardinality(T) \in Nat
  <2>1. IsFiniteSet(Threads)
    BY StoreAssumption
  <2>2. IsFiniteSet(S) /\ IsFiniteSet(T)
    BY <2>1, FS_Subset
  <2> QED BY <2>2, FS_CardinalityType
<1>3. RefsOf(th, leaked)[c] = leaked[c] + Cardinality(S) + Cardinality(T)
  BY DEF RefsOf, Its, Olds
<1>4. mem.heap[c].ref = (IF "LINKED" \in mem.heap[c].fl THEN 1 ELSE 0) + RefsOf(th, leaked)[c]
  BY Facts DEF StoreOK, Counted, IsLinked
<1> HIDE DEF S, T
<1>5. mem.heap[c].ref = (IF "LINKED" \in mem.heap[c].fl THEN 1 ELSE 0) + leaked[c]
                        + Cardinality(S) + Cardinality(T)
  BY <1>1, <1>2, <1>3, <1>4
<1> QED BY <1>5 DEF S, T

----------------------------------------------------------------------------
(* Without page moves.                                                     *)

\* Nobody asks for a page move, by command or after an eviction.
Still == conf.moves = 0 /\ ~conf.angry

StillInv == Still /\ rb.signal = 0 /\ ~torn /\ \A t \in Threads : th[t].pc # "drop"

\* A step that asks for nothing and starts no unlocked section overlaps none.
LEMMA StillKept ==
  ASSUME StillInv, conf'.moves = conf.moves, conf'.angry = conf.angry, Watched,
         rb'.signal = 0, \A t \in Threads : th'[t].pc # "drop"
  PROVE  StillInv'
<1>1. ~Overlap
  BY DEF StillInv, Overlap
<1> QED BY <1>1 DEF StillInv, Still, Watched

\* Every step of a command keeps it: no item is on a moving page,
LEMMA StillThread ==
  ASSUME IInv, StillInv, NEW t \in Threads, ThreadStep(t)
  PROVE  StillInv'
<1>1. th \in [Threads -> Local] /\ rb.signal = 0 /\ ~conf.angry /\ mt.todo = {}
      /\ \A u \in Threads : th[u].pc # "drop"
  BY DEF IInv, TypesOK, StillInv, Still, NoGrowth
<1>3. ASSUME NEW a, NEW id, AfterAlloc(a, id) PROVE UNCHANGED rb
  BY <1>1, <1>3 DEF AfterAlloc
<1>4. CASE ItemAlloc(t)
  <2>1. UNCHANGED rb /\ UNCHANGED conf /\ Watched
    BY <1>3, <1>4 DEF ItemAlloc, Quiet
  <2>2. \A u \in Threads : th'[u].pc # "drop"
    BY <1>1, <1>4 DEF ItemAlloc, Local
  <2> QED BY <1>1, <2>1, <2>2, StillKept
<1>5. CASE Uploaded(t)
  <2>1. \A u \in Threads : th'[u].pc # "drop"
    BY <1>1, <1>5 DEF Uploaded, Goto, Local
  <2> QED BY <1>1, <1>5, <2>1, StillKept DEF Uploaded, Quiet
<1>6. CASE Lookup(t)
  <2>1. \A u \in Threads : th'[u].pc # "drop"
    BY <1>1, <1>6 DEF Lookup, Local
  <2> QED BY <1>1, <1>6, <2>1, StillKept DEF Lookup, Quiet
<1>7. CASE ItemGet(t)
  <2>1. \A u \in Threads : th'[u].pc # "drop"
    BY <1>1, <1>7 DEF ItemGet, Local
  <2> QED BY <1>1, <1>7, <2>1, StillKept DEF ItemGet, Quiet
<1>8. CASE GetOld(t)
  <2>1. \A u \in Threads : th'[u].pc # "drop"
    BY <1>1, <1>8 DEF GetOld, Local
  <2> QED BY <1>1, <1>8, <2>1, StillKept DEF GetOld, Quiet
<1>9. CASE DoStoreItem(t)
  <2>1. UNCHANGED rb /\ UNCHANGED conf /\ Watched
    BY <1>3, <1>9 DEF DoStoreItem, Quiet
  <2>2. PICK r : th' = [th EXCEPT ![t].pc = "remove", ![t].old = NULL, ![t].res = r]
    BY <1>9, Zenon DEF DoStoreItem
  <2>3. \A u \in Threads : th'[u].pc # "drop"
    BY <1>1, <2>2 DEF Local
  <2> QED BY <1>1, <2>1, <2>3, StillKept
<1>10. CASE DoAddDelta(t)
  <2>1. UNCHANGED rb /\ UNCHANGED conf /\ Watched
    BY <1>3, <1>10 DEF DoAddDelta, Quiet
  <2>2. PICK r : th' = [th EXCEPT ![t].pc = "return", ![t].old = NULL, ![t].res = r]
    BY <1>10, Zenon DEF DoAddDelta
  <2>3. \A u \in Threads : th'[u].pc # "drop"
    BY <1>1, <2>2 DEF Local
  <2> QED BY <1>1, <2>1, <2>3, StillKept
<1>11. CASE ItemUpdate(t)
  <2>1. th' = [th EXCEPT ![t] = Idle] \/ th' = [th EXCEPT ![t].pc = "remove"]
    BY <1>11, Zenon DEF ItemUpdate, Goto
  <2>2. \A u \in Threads : th'[u].pc # "drop"
    <3>1. CASE th' = [th EXCEPT ![t] = Idle]
      BY <1>1, <3>1 DEF Idle
    <3>2. CASE th' = [th EXCEPT ![t].pc = "remove"]
      BY <1>1, <3>2 DEF Local
    <3> QED BY <2>1, <3>1, <3>2
  <2> QED BY <1>1, <1>11, <2>2, StillKept DEF ItemUpdate, Quiet
<1>12. CASE ItemUnlink(t)
  <2>1. \A u \in Threads : th'[u].pc # "drop"
    BY <1>1, <1>12 DEF ItemUnlink, Local
  <2> QED BY <1>1, <1>12, <2>1, StillKept DEF ItemUnlink, Quiet
<1>13. CASE ItemRemove(t)
  <2>1. \A u \in Threads : th'[u].pc # "drop"
    BY <1>1, <1>13 DEF ItemRemove, Idle
  <2> QED BY <1>1, <1>13, <2>1, StillKept DEF ItemRemove, Quiet
<1>14. CASE ReturnCmd(t)
  <2>1. \A u \in Threads : th'[u].pc # "drop"
    BY <1>1, <1>14 DEF ReturnCmd, Idle
  <2> QED BY <1>1, <1>14, <2>1, StillKept DEF ReturnCmd, Quiet
<1>15. ~SwitchLockType(t)
  BY <1>1 DEF SwitchLockType
<1>16. ~GetMoving(t)
  BY <1>1 DEF GetMoving, Moving
<1>17. ~DropMoved(t)
  BY <1>1 DEF DropMoved
<1> QED BY <1>4, <1>5, <1>6, <1>7, <1>8, <1>9, <1>10, <1>11, <1>12, <1>13, <1>14, <1>15,
           <1>16, <1>17 DEF ThreadStep

\* and so does every other step: the rebalancer is never asked.
LEMMA StillStep ==
  ASSUME IInv, StillInv, [Next]_vars
  PROVE  StillInv'
<1>1. /\ th \in [Threads -> Local] /\ rb \in Rebal /\ conf \in Scenario /\ rb.signal = 0
      /\ rb.lock # "rebal" /\ ~rb.done /\ conf.moves = 0 /\ conf.flush = {}
      /\ mt.pc = "wait" /\ mem.started = FALSE /\ \A u \in Threads : th[u].pc # "drop"
  <2>1. mem.started = FALSE
    BY Facts DEF Memory
  <2> QED BY <2>1 DEF IInv, TypesOK, StillInv, Still, NoGrowth, Steady, Rebalancing
<1>2. ASSUME NEW t \in Threads, Begin(t) PROVE StillInv'
  <2>1. \A u \in Threads : th'[u].pc # "drop"
    BY <1>1, <1>2 DEF Begin, Idle
  <2>2. conf'.moves = conf.moves /\ conf'.angry = conf.angry
    BY <1>1, <1>2 DEF Begin, Scenario
  <2> QED BY <1>1, <1>2, <2>1, <2>2, StillKept DEF Begin
<1>3. ASSUME NEW t \in Threads PROVE ~FlushAll(t)
  BY <1>1, Zenon DEF FlushAll
<1>4. CASE Background
  <2>1. ~MaintPause /\ ~assoc_expand /\ ~MoveBucket /\ ~MaintResume
    BY <1>1 DEF MaintPause, assoc_expand, MoveBucket, MaintResume
  <2>2. ~slab_rebalance_start /\ ~slab_rebalance_move /\ ~slab_rebalance_finish
    BY <1>1 DEF slab_rebalance_start, slab_rebalance_move, slab_rebalance_finish
  <2>3. PICK id \in Class : CrawlItem(id)
    BY <1>4, <2>1, <2>2 DEF Background
  <2> QED BY <1>1, <2>3, StillKept DEF CrawlItem, CrawlQuiet
<1>5. ~Reassign
  BY <1>1 DEF Reassign
<1>6. CASE lru_crawler_crawl
  <2>1. conf'.moves = conf.moves /\ conf'.angry = conf.angry
    BY <1>1, <1>6 DEF lru_crawler_crawl, Scenario
  <2> QED BY <1>1, <1>6, <2>1, StillKept DEF lru_crawler_crawl, CrawlQuiet
<1>7. CASE clock_handler
  BY <1>1, <1>7, StillKept DEF clock_handler
<1>8. CASE UNCHANGED vars
  BY <1>8 DEF vars, StillInv, Still
<1> QED BY <1>2, <1>3, <1>4, <1>5, <1>6, <1>7, <1>8, StillThread DEF Next

\* While the hash table does not grow and nobody calls flush_all, IInv holds.
THEOREM StoreInductive == Spec /\ Steady => []IInv
<1>1. Init /\ Steady => IInv
  BY InitOK
<1>2. IInv /\ [Next]_vars => IInv'
  BY StepOK
<1> QED BY <1>1, <1>2, PTL DEF Spec

\* Every chunk is in exactly one place, every linked item is found under its
\* key and items is right, for any number of threads, keys, pages and classes
\* (do_slabs_alloc, do_item_link, do_item_unlink, slab_rebalance_move and the
\* crawler, in any order), as long as no unlocked unlink of do_item_get is
\* overlapped.
THEOREM StoreSafe == Spec /\ Steady => []StoreInv
BY StoreInductive, StoreSound, PTL

\* A reference count is the number of references, whoever counts them up and
\* down (refcount_incr, refcount_decr and their callers), as long as no unlocked
\* unlink of do_item_get is overlapped.
THEOREM RefsCounted == Spec /\ Steady => []RefAccounted
BY StoreInductive, RefsSound, PTL

\* Where no page moves, nothing is unlinked without cache_lock, so no unlink is
\* ever overlapped and StoreSafe, RefsCounted and HeldItems hold without
\* exception (do_item_get, items.c; slab_reassign and slab_automove off).
THEOREM NeverTorn == Spec /\ Steady /\ Still => []~torn
<1>1. Init /\ Steady /\ Still => StillInv
  BY DEF Init, Idle, StillInv
<1>2. IInv /\ StillInv /\ [Next]_vars => StillInv'
  BY StillStep
<1>3. StillInv => ~torn
  BY DEF StillInv
<1> QED BY <1>1, <1>2, <1>3, StoreInductive, PTL DEF Spec

\* What a command refers to keeps its key and value and is not freed
\* (do_item_alloc, do_add_delta, slab_rebalance_move and the crawler), in every
\* step up to the one that overlaps an unlocked unlink of do_item_get.
THEOREM HeldItems == Spec /\ Steady => HeldStable
<1>1. IInv /\ [Next]_vars => HeldStep
  BY StepOK
<1>2. Spec => [][Next]_vars
  BY DEF Spec
<1>3. HeldStep => (~torn' => HeldStep)
  OBVIOUS
<1>4. HeldStable <=> [][~torn' => HeldStep]_vars
  BY DEF HeldStable, HeldStep
<1> QED BY <1>1, <1>2, <1>3, <1>4, StoreInductive, PTL

=============================================================================
