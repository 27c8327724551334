------------------------------ MODULE SortAlgo ------------------------------
(***************************************************************************)
(* The sequential algorithms under Metis' reduce and merge phases: binary  *)
(* search (lib/bsearch.c), the helpers of the parallel sort (lib/psrs.c)   *)
(* and the grouping of sorted rows (lib/reduce.c), as functions from their *)
(* inputs to what they return.  Arrays are sequences; indices are those of *)
(* the C code, from 0.  Elements are compared by their value.              *)
(***************************************************************************)
EXTENDS Integers, Sequences, FiniteSets, SequencesExt

At(arr, i) == arr[i + 1]

Max2(x, y) == IF x >= y THEN x ELSE y
Min2(x, y) == IF x <= y THEN x ELSE y

(* qsort: the i-th element of the result is the i-th smallest.             *)
Sort(s) ==
  [i \in 1 .. Len(s) |->
     CHOOSE v \in Range(s) :
       /\ Cardinality({j \in 1 .. Len(s) : s[j] < v}) < i
       /\ i <= Cardinality({j \in 1 .. Len(s) : s[j] <= v})]

-----------------------------------------------------------------------------
(* bsearch.c                                                               *)

(* keycmp(key, ELEM(i)) >= 0, the array starting at arr[start].  A read    *)
(* outside of the array may give either answer: oob.                       *)
NotLess(key, arr, start, i, oob) ==
  IF start + i \in 0 .. Len(arr) - 1 THEN key >= At(arr, start + i) ELSE oob

(* The loop of bsearch_lar, from left and right to the returned index.     *)
LarLoop(key, arr, start, oob, l0, r0) ==
  LET loop[lr \in Int \X Int] ==
        LET left == lr[1]
            right == lr[2]
            mid == (left + right) \div 2
        IN  IF left < right
            THEN IF NotLess(key, arr, start, mid, oob)
                 THEN loop[<<mid + 1, right>>]
                 ELSE loop[<<left, mid - 1>>]
            ELSE IF NotLess(key, arr, start, left, oob) THEN left + 1 ELSE left
  IN  loop[<<l0, r0>>]

bsearch_lar(key, arr, start, nelems, oob) ==
  IF nelems = 0 THEN 0
  ELSE IF NotLess(key, arr, start, nelems - 1, oob) THEN nelems
  ELSE IF nelems = 1 THEN 0
  ELSE IF nelems = 2 THEN IF NotLess(key, arr, start, 0, oob) THEN 1 ELSE 0
  ELSE LarLoop(key, arr, start, oob, 0, nelems - 2)

(* bsearch_eq: the position of key and whether it is there.                *)
EqLoop(key, arr, l0, r0) ==
  LET loop[lr \in Int \X Int] ==
        LET left == lr[1]
            right == lr[2]
            mid == (left + right) \div 2
        IN  IF left < right
            THEN IF key = At(arr, mid) THEN [pos |-> mid, found |-> TRUE]
                 ELSE IF key < At(arr, mid) THEN loop[<<left, mid - 1>>]
                 ELSE loop[<<mid + 1, right>>]
            ELSE IF key = At(arr, left) THEN [pos |-> left, found |-> TRUE]
                 ELSE [pos |-> IF key > At(arr, left) THEN left + 1 ELSE left,
                       found |-> FALSE]
  IN  loop[<<l0, r0>>]

bsearch_eq(key, arr) ==
  LET n == Len(arr)
      no(i) == [pos |-> i, found |-> FALSE]
      yes(i) == [pos |-> i, found |-> TRUE]
  IN  IF n = 0 THEN no(0)
      ELSE IF key = At(arr, n - 1) THEN yes(n - 1)
      ELSE IF key > At(arr, n - 1) THEN no(n)
      ELSE IF n = 1 THEN no(0)
      ELSE IF n = 2 THEN IF key = At(arr, 0) THEN yes(0)
                         ELSE IF key < At(arr, 0) THEN no(0) ELSE no(1)
      ELSE EqLoop(key, arr, 0, n - 2)

-----------------------------------------------------------------------------
(* psrs.c                                                                  *)

(* sublists: divides arr[start0 .. end0] at the pivots fp .. lp; the       *)
(* result gives subsize[fp .. lp].                                         *)
sublists(arr, start0, end0, pivots, fp0, lp0, oob) ==
  LET divide[x \in Int \X Int \X Int \X Int] ==
        LET start == x[1]
            end == x[2]
            fp == x[3]
            lp == x[4]
            mid == (fp + lp) \div 2
            pos == start + bsearch_lar(pivots[mid], arr, start,
                                       end - start - 1, oob)
        IN  [i \in fp .. lp |->
               IF i = mid THEN pos
               ELSE IF i < mid
               THEN IF start < pos THEN divide[<<start, pos - 1, fp, mid - 1>>][i]
                    ELSE start
               ELSE IF pos <= end THEN divide[<<pos, end, mid + 1, lp>>][i]
                    ELSE end + 1]
  IN  divide[<<start0, end0, fp0, lp0>>]

(* copy_elems: the elements [dst_start, dst_end] of the concatenation of   *)
(* the collections.                                                        *)
copy_elems(acolls, dst_start, dst_end) ==
  LET step(acc, coll) ==
        LET len == Len(coll)
            glb_end == acc.glb + len - 1
            loc_start == Max2(dst_start, acc.glb) - acc.glb
            loc_end == Min2(dst_end, glb_end) - acc.glb
            hit == len # 0 /\ acc.glb <= dst_end /\ glb_end >= dst_start
        IN  [glb |-> acc.glb + len,
             out |-> IF hit THEN acc.out \o SubSeq(coll, loc_start + 1, loc_end + 1)
                            ELSE acc.out]
  IN  FoldLeft(step, [glb |-> 0, out |-> <<>>], acolls).out

(* mergesort: npairs times, the smallest of the arrays' next elements, the *)
(* first one on a tie.  Array i is read from from[i] up to before to[i].   *)
MinIdx(arrs, pos, to) ==
  LET I == {i \in DOMAIN arrs : pos[i] < to[i]}
  IN  CHOOSE i \in I :
        \A j \in I : \/ At(arrs[i], pos[i]) < At(arrs[j], pos[j])
                     \/ At(arrs[i], pos[i]) = At(arrs[j], pos[j]) /\ i <= j

mergesort(arrs, from, to, npairs) ==
  LET step(acc, n) ==
        LET i == MinIdx(arrs, acc.pos, to)
        IN  [pos |-> [acc.pos EXCEPT ![i] = @ + 1],
             out |-> Append(acc.out, At(arrs[i], acc.pos[i]))]
  IN  FoldLeft(step, [pos |-> from, out |-> <<>>], [n \in 1 .. npairs |-> n]).out

-----------------------------------------------------------------------------
(* reduce.c                                                                *)

(* A scan that does not count the changes of the minimum.                  *)
MarkMinOnce(rows, pos) ==
  LET ended(i) == pos[i] >= Len(rows[i])
      key(i) == At(rows[i], pos[i]).key
      step(acc, i) ==
        IF ended(i) THEN acc
        ELSE IF acc.min < 0 \/ key(acc.min) >= key(i)
        THEN [acc EXCEPT !.min = i, !.m = 1, !.marks[i] = 1]
        ELSE acc
  IN  FoldLeft(step,
               [min |-> -1, m |-> 0, marks |-> [i \in DOMAIN rows |-> 0]],
               [i \in DOMAIN rows |-> i])

(* One scan over the rows' current keys, as reduce_or_groupkvs does it:    *)
(* marks[i] = m, the number of times the minimum changed, for the rows     *)
(* that hold the smallest key.                                             *)
MarkMin(rows, pos) ==
  LET ended(i) == pos[i] >= Len(rows[i])
      key(i) == At(rows[i], pos[i]).key
      step(acc, i) ==
        IF ended(i) THEN acc
        ELSE IF acc.min < 0 THEN [acc EXCEPT !.min = i, !.m = @ + 1,
                                             !.marks[i] = acc.m + 1]
        ELSE IF key(acc.min) > key(i)
        THEN [acc EXCEPT !.min = i, !.m = @ + 1, !.marks[i] = acc.m + 1]
        ELSE IF key(acc.min) = key(i) THEN [acc EXCEPT !.marks[i] = acc.m]
        ELSE acc
  IN  FoldLeft(step,
               [min |-> -1, m |-> 0, marks |-> [i \in DOMAIN rows |-> 0]],
               [i \in DOMAIN rows |-> i])

(* reduce_or_groupkvs: the records it emits, in order.  Each row is a      *)
(* sequence of [key, vals] with its keys ascending and distinct.           *)
reduce_or_groupkvs(rows) ==
  LET loop[pos \in [DOMAIN rows -> Nat]] ==
        LET scan == MarkMin(rows, pos)
            hit == {i \in DOMAIN rows : scan.marks[i] = scan.m}
            vals == FoldLeft(LAMBDA acc, i :
                               IF i \in hit THEN acc \o At(rows[i], pos[i]).vals
                                            ELSE acc,
                             <<>>, [i \in DOMAIN rows |-> i])
        IN  IF scan.min < 0 THEN <<>>
            ELSE <<[key |-> At(rows[scan.min], pos[scan.min]).key,
                    vals |-> vals]>>
                 \o loop[[i \in DOMAIN rows |->
                            IF i \in hit THEN pos[i] + 1 ELSE pos[i]]]
  IN  loop[[i \in DOMAIN rows |-> 0]]
=============================================================================
