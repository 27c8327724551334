------------------------------- MODULE MC_Psrs ------------------------------
(***************************************************************************)
(* Inputs for the parallel sort.  With n cpus it works in parallel from    *)
(* n * n * n elements on; below that the main cpu sorts alone.             *)
(***************************************************************************)
EXTENDS Psrs

CONSTANT MaxVal     \* bound: elements of the small inputs are 1 .. MaxVal

Seqs(n) == [1 .. n -> 1 .. MaxVal]

(* Too few elements for three cpus, down to none.                          *)
SmallInputs == {<<s, t>> : s \in Seqs(1), t \in Seqs(3)} \cup {<<<<>>, <<>>>>}

(* The first 27 or 28 values of f in three collections, one of them empty. *)
InThree(f, n) == <<[i \in 1 .. 14 |-> f[i]], <<>>, [i \in 1 .. n - 14 |-> f[i + 14]]>>

(* Three cpus at and above the limit: ascending, descending, constant, two *)
(* values, and elements in which slices and order are at odds.             *)
LargeInputs ==
  {InThree(f, n) : n \in {27, 28},
                   f \in {[i \in 1 .. 28 |-> i], [i \in 1 .. 28 |-> 29 - i],
                          [i \in 1 .. 28 |-> 7], [i \in 1 .. 28 |-> i % 2],
                          [i \in 1 .. 28 |-> (i * 10) % 27],
                          [i \in 1 .. 28 |-> (i * 5) % 28],
                          [i \in 1 .. 28 |-> IF i < 10 THEN 20 + i ELSE i]}}

Inputs3 == SmallInputs \cup LargeInputs

(* Two cpus: the keys of the second slice lie below most of the first.     *)
SkewedInput2 == {<<<<5, 6, 20, 30>>, <<1, 2, 3, 4>>>>}

(* Four cpus: in one slice only the smallest key lies below the median.    *)
SkewedInput4 ==
  {<<[i \in 1 .. 48 |-> i], <<1>> \o [i \in 1 .. 15 |-> 100 + i]>>}
=============================================================================
