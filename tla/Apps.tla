-------------------------------- MODULE Apps --------------------------------
(***************************************************************************)
(* The applications of Metis (app/): how each cuts its input into splits,  *)
(* what its map emits for a split and what its reduce makes of the values. *)
(* Threads, buckets and the order of the pairs are in MapReduce, Buckets   *)
(* and Psrs; here a job is the sum of what the maps of all splits emit.    *)
(*                                                                         *)
(* An emission is a pair <<key, value>>.  Positions count from 0, as in    *)
(* the code; At(s, i) is element i of a sequence.                          *)
(***************************************************************************)
EXTENDS Integers, Sequences, FiniteSets, SequencesExt, FiniteSetsExt, Functions

CONSTANT MaxCalls       \* bound: calls of a splitter before it counts as endless

At(s, i) == s[i + 1]
Piece(s, split) == SubSeq(s, split.pos + 1, split.pos + split.length)
Least(a, b) == IF a < b THEN a ELSE b
Listed(S) == FoldSet(LAMBDA x, s : Append(s, x), <<>>, S)
Count(S, P(_)) == Cardinality({x \in S : P(x)})

(* presplitter_init takes a result r of the splitter; it calls the         *)
(* splitter until it has no more.                                          *)
Split(pos, length, next) == [more |-> TRUE, out |-> [pos |-> pos, length |-> length], s |-> next]
NoSplit(s) == [more |-> FALSE, out |-> [pos |-> 0, length |-> 0], s |-> s]

presplitter_init(p, r) ==
    IF r.more THEN [p EXCEPT !.s = r.s, !.ma = Append(@, r.out)] ELSE [p EXCEPT !.ended = TRUE]
AllSplits(split(_), start) ==
    FoldLeft(LAMBDA p, i : IF p.ended THEN p ELSE presplitter_init(p, split(p.s)),
             [s |-> start, ma |-> <<>>, ended |-> FALSE], [i \in 1 .. MaxCalls |-> i])

(* All emissions of a job, split by split, and per key what reduce makes   *)
(* of its values, which the combiner has shortened whenever two came up.   *)
MapAll(ma, map) == FlattenSeq([i \in DOMAIN ma |-> map[ma[i]]])
hist_reduce(vals) == FoldLeft(LAMBDA sum, v : sum + v, 0, vals)
hist_local_reduce(vals) == <<hist_reduce(vals)>>
Combined(vals, v) == IF vals = <<>> THEN <<v>> ELSE hist_local_reduce(Append(vals, v))
SumByKey(emits) ==
    [k \in {emits[i][1] : i \in DOMAIN emits} |->
        hist_reduce(FoldLeft(LAMBDA vals, e : IF e[1] = k THEN Combined(vals, e[2]) ELSE vals,
                             <<>>, emits))]

----------------------------------------------------------------------------
(* wc.c, wr.c, wrmem.c: words of a text                                    *)

Separator(c) == c = " "         \* space, tab, newline, NUL
Letter(c) == c \in {"a", "A"}
Upper(c) == IF c = "a" THEN "A" ELSE c

\* Mutant: a split ends after its size, inside a word or not.
wordcount_splitter_cut(text, nsplits, fpos) ==
    IF fpos >= Len(text) THEN NoSplit(fpos)
    ELSE LET length == Least(Len(text) \div nsplits, Len(text) - fpos)
         IN  Split(fpos, length, fpos + length)

\* At least split_size characters, and on to the end of the word.
wordcount_splitter(text, nsplits, fpos) ==
    IF fpos >= Len(text) THEN NoSplit(fpos)
    ELSE LET least == fpos + Least(Len(text) \div nsplits, Len(text) - fpos)
             ends == {p \in least .. Len(text) : p = Len(text) \/ Separator(At(text, p))}
         IN  Split(fpos, Min(ends) - fpos, Min(ends))

\* The words of a text with their positions; a word goes on through apostrophes.
Words(text) ==
    LET scan == FoldLeft(
            LAMBDA st, i :
                LET c == Upper(text[i])
                IN  IF st.word # <<>>
                    THEN IF ~Letter(c) /\ c # "'"
                         THEN [st EXCEPT !.word = <<>>, !.out = Append(@, <<st.word, st.index>>)]
                         ELSE [st EXCEPT !.word = Append(@, c)]
                    ELSE IF Letter(c) THEN [st EXCEPT !.word = <<c>>, !.index = i - 1] ELSE st,
            [word |-> <<>>, index |-> 0, out |-> <<>>], [i \in 1 .. Len(text) |-> i])
    IN  IF scan.word = <<>> THEN scan.out ELSE Append(scan.out, <<scan.word, scan.index>>)

\* wr emits where the word is, wc a 1 for it.
wr_map(text, split) ==
    LET found == Words(Piece(text, split))
    IN  [i \in DOMAIN found |-> <<found[i][1], split.pos + found[i][2]>>]
wordcount_map(text, split) ==
    LET found == Words(Piece(text, split)) IN [i \in DOMAIN found |-> <<found[i][1], 1>>]

----------------------------------------------------------------------------
(* hist.c, linear_regression.c: sums over records of a file                *)

\* A multiple of align bytes per split.
defsplitter(size, nsplits, align, split_pos) ==
    IF split_pos >= size THEN NoSplit(split_pos)
    ELSE LET split_size == ((size \div nsplits) \div align) * align
         IN  Split(split_pos, IF split_pos + split_size > size THEN size - split_pos ELSE split_size,
                   split_pos + split_size)

Occurrences(bytes, offset, v) == Count({i \in DOMAIN bytes : i % 3 = (offset + 1) % 3},
                                       LAMBDA i : bytes[i] = v)

\* For every value that occurs, in this order: blue, green, red.
hist_map(bytes, Values) ==
    LET value(v) == LET c == [o \in 1 .. 3 |-> Occurrences(bytes, o - 1, v)]
                    IN  SelectSeq([o \in 1 .. 3 |-> <<<<o, v>>, c[o]>>], LAMBDA e : e[2] > 0)
    IN  FlattenSeq([i \in 1 .. Cardinality(Values) |-> value(SortSeq(Listed(Values), <)[i])])

linear_regression_map(points) ==
    LET sum(f(_, _)) ==
            FoldLeft(LAMBDA a, i : a + f(points[2 * i - 1], points[2 * i]), 0,
                     [i \in 1 .. Len(points) \div 2 |-> i])
    IN  <<<<"SX", sum(LAMBDA x, y : x)>>, <<"SXX", sum(LAMBDA x, y : x * x)>>,
          <<"SY", sum(LAMBDA x, y : y)>>, <<"SYY", sum(LAMBDA x, y : y * y)>>,
          <<"SXY", sum(LAMBDA x, y : x * y)>>>>

----------------------------------------------------------------------------
(* string_match.c: lines of a file, hashed and compared with keys          *)

\* Behind the file, the mapping holds a NUL.
CharAt(text, p) == IF p < Len(text) THEN At(text, p) ELSE "0"
EndOfLine(c) == c \in {"n", "r", "0"}
LineEnd(text, p) == Min({q \in p .. Len(text) : EndOfLine(CharAt(text, q))})
PastLine(text, q) == q + (IF CharAt(text, q) = "r" THEN 2 ELSE IF CharAt(text, q) = "n" THEN 1 ELSE 0)

string_match_splitter(text, nsplits, bytes_comp) ==
    IF bytes_comp = Len(text) THEN NoSplit(bytes_comp)
    ELSE LET least == bytes_comp + Least(Len(text) \div nsplits, Len(text) - bytes_comp)
             counter == PastLine(text, LineEnd(text, least))
         IN  Split(bytes_comp, counter - bytes_comp, counter)

\* getnextline, repeated over a split: the words of its lines.
getnextline(text, p) ==
    LET q == LineEnd(text, p) IN [word |-> SubSeq(text, p + 1, q),
                                  next |-> q + (IF CharAt(text, q) = "r" THEN 2 ELSE 1)]
Lines(text, split) ==
    FoldLeft(LAMBDA st, i : IF st.p >= split.pos + split.length THEN st
                            ELSE LET l == getnextline(text, st.p)
                                 IN  [p |-> l.next, out |-> Append(st.out, l.word)],
             [p |-> split.pos, out |-> <<>>], [i \in 1 .. split.length |-> i]).out

\* The cipher moves every letter on; a key is counted for each word whose
\* cipher differs from it (strcmp is not 0).
compute_hashes(word) == [i \in DOMAIN word |-> <<word[i], "+">>]
string_match_map(text, split, keys) ==
    LET words == Lines(text, split)
    IN  [k \in DOMAIN keys |-> <<keys[k], Count(DOMAIN words, LAMBDA i : compute_hashes(words[i]) # keys[k])>>]

----------------------------------------------------------------------------
(* matrix_mult.c: blocks, or rows, of the product                          *)

\* A split starts at a block's corner; the column after the last block may be
\* behind the matrix, such a block is empty.
matrixmult_splitter(len, block_len, c) ==
    IF c.row >= len THEN NoSplit(c)
    ELSE Split(c, 1, IF c.col + block_len > len
                     THEN [row |-> c.row + block_len, col |-> 0]
                     ELSE [c EXCEPT !.col = @ + block_len])

Block(start, block_len, len) == start .. Least(start + block_len, len) - 1

\* The products a * b that a split adds to the output, cell by cell.
matrixmult_map(len, block_len, split) ==
    LET cells == {<<a, b>> : a \in Block(split.pos.row, block_len, len),
                             b \in Block(split.pos.col, block_len, len)}
        step(k) == Listed({<<cell[1], cell[2], c>> : cell \in cells, c \in Block(k * block_len, block_len, len)})
        all == FlattenSeq([k \in 1 .. (len + block_len - 1) \div block_len |-> step(k - 1)])
    IN  [i \in DOMAIN all |-> <<all[i], 1>>]

matrixmult_splitter2(len, nsplits, row_num) ==
    IF row_num >= len THEN NoSplit(row_num)
    ELSE LET length == Least(len \div nsplits, len - row_num)
         IN  Split(row_num, length, row_num + length)

matrixmult_map2(len, split) ==
    LET all == Listed({<<a, b, c>> : a \in split.pos .. split.pos + split.length - 1,
                                       b \in 0 .. len - 1, c \in 0 .. len - 1})
    IN  [i \in DOMAIN all |-> <<all[i], 1>>]

----------------------------------------------------------------------------
(* pca.c: means of rows, then covariances of pairs of rows                 *)

pca_mean_splitter(num_rows, nsplits, row) ==
    LET req_units == num_rows \div nsplits
    IN  IF row >= num_rows THEN NoSplit(row)
        ELSE Split(row, IF row + req_units <= num_rows THEN req_units ELSE num_rows - row,
                   row + req_units)
pca_mean_map(split) == [i \in 1 .. split.length |-> <<split.pos + i - 1, 1>>]

NextPair(num_rows, at) ==
    IF at.cov + 1 >= num_rows THEN [start |-> at.start + 1, cov |-> at.start + 1]
    ELSE [at EXCEPT !.cov = @ + 1]

\* The pos of a split is the sequence of pairs it was given.
pca_cov_splitter(num_rows, nsplits, at) ==
    LET req_units == (((num_rows * num_rows - num_rows) \div 2) + num_rows) \div nsplits
        locs == FoldLeft(LAMBDA l, i : IF l.at.start >= num_rows THEN l
                                       ELSE [at |-> NextPair(num_rows, l.at), out |-> Append(l.out, l.at)],
                         [at |-> at, out |-> <<>>], [i \in 1 .. req_units |-> i])
    IN  IF at.start >= num_rows /\ at.cov >= num_rows THEN NoSplit(at)
        ELSE Split(locs.out, 1, locs.at)
pca_cov_map(split) == [i \in DOMAIN split.pos |-> <<split.pos[i], 1>>]

----------------------------------------------------------------------------
(* kmeans.c: jobs until no point changes its cluster.  The points lie on a *)
(* line, as those that generate_points makes for two dimensions.           *)

generate_points(num_points, grid_size) == [i \in 1 .. num_points |-> ((i - 1) % grid_size) + 1]

kmeans_splitter(num_points, nsplits, next_point) ==
    LET req_units == num_points \div nsplits
    IN  IF next_point >= num_points THEN NoSplit(next_point)
        ELSE Split(next_point, IF next_point + req_units >= num_points
                               THEN num_points - next_point ELSE req_units,
                   next_point + req_units)

\* The first of the nearest means.
find_cluster(x, means) ==
    LET near == {m \in DOMAIN means : \A n \in DOMAIN means :
                    (x - means[m]) * (x - means[m]) <= (x - means[n]) * (x - means[n])}
    IN  Min(near)
kmeans_map(points, means, split) ==
    [i \in 1 .. split.length |->
        LET x == At(points, split.pos + i - 1) IN <<find_cluster(x, means), x>>]

\* One job: new means from the sums and from the sizes counted over all points.
kmeans_job(points, ma, k) ==
    LET sums == SumByKey(MapAll(ma, [s \in Range(ma) |-> kmeans_map(points, k.means, s)]))
        clusters == [i \in DOMAIN points |-> find_cluster(points[i], k.means)]
    IN  [means |-> [m \in DOMAIN k.means |->
                        IF m \in DOMAIN sums
                        THEN sums[m] \div Count(DOMAIN points, LAMBDA i : clusters[i] = m)
                        ELSE k.means[m]],
         clusters |-> clusters,
         modified |-> clusters # k.clusters]

kmeans(points, ma, num_means) ==
    FoldLeft(LAMBDA k, i : IF k.modified THEN kmeans_job(points, ma, k) ELSE k,
             [means |-> SubSeq(points, 1, num_means), clusters |-> [i \in DOMAIN points |-> 0],
              modified |-> TRUE],
             [i \in 1 .. MaxCalls |-> i])
============================================================================
