-------------------------- MODULE CacheLabProofs --------------------------
(***************************************************************************)
(* Theorems about the cache lab (module CacheLab): its transposes, for     *)
(* matrices of any sizes, arrays at any addresses and any cache; and the   *)
(* counts of its simulator, for words of any width, any parameters and any *)
(* trace.                                                                  *)
(***************************************************************************)
EXTENDS CacheLab, SetInduction, SequenceTheorems, FiniteSetTheorems

-----------------------------------------------------------------------------
(* The inductive invariant.                                                *)

\* Where the loops are: trans and the third case of transpose_submit stay in
\* the matrix, the other two are at the corner of a block.
Counters == [i : Nat, j : Nat, ii : Nat, move : Nat]
InRows(x) == x.i < N /\ x.j < M /\ x.move = 1
InEights(x) == x.i < 32 /\ (\E n \in 0 .. 3 : x.j = 8 * n) /\ x.move = 1
InFours(x) == (\E n \in 0 .. 7 : x.i = 8 * n) /\ (\E n \in 0 .. 15 : x.j = 4 * n) /\ x.move \in 1 .. 8
InBlocks(x) == /\ x.j < M /\ x.i <= x.ii /\ x.ii < least(x.i + 18, N)
               /\ x.move \in 1 .. least(x.j + 18, M) - x.j

InLoops(x) ==
  /\ x \in Counters
  /\ \/ ~submitted /\ InRows(x)
     \/ submitted /\ is32 /\ InEights(x)
     \/ submitted /\ is64 /\ InFours(x)
     \/ submitted /\ ~is32 /\ ~is64 /\ InBlocks(x)

\* The loops have written B[c][d].
RowsPassed(x, c, d) == d < x.i \/ (d = x.i /\ c < x.j)
EightsPassed(x, c, d) == c < x.j \/ (c < x.j + 8 /\ d < x.i)
FoursPassed(x, c, d) ==
  \/ c < x.j
  \/ c < x.j + 4 /\ \/ d < x.i
                    \/ d < x.i + 4 /\ c < x.j + x.move - 1
                    \/ d < x.i + 8 /\ c < x.j + x.move - 5
BlocksPassed(x, c, d) ==
  \/ d < x.i
  \/ d < x.i + 18 /\ \/ c < x.j
                     \/ c < x.j + 18 /\ d < x.ii
                     \/ d = x.ii /\ c < x.j + x.move - 1

Passed(x, c, d) ==
  \/ ~submitted /\ RowsPassed(x, c, d)
  \/ submitted /\ is32 /\ EightsPassed(x, c, d)
  \/ submitted /\ is64 /\ FoursPassed(x, c, d)
  \/ submitted /\ ~is32 /\ ~is64 /\ BlocksPassed(x, c, d)

\* B is a matrix of M rows and N columns.
InB == B = [cell \in cells |-> B[cell]]

\* What the loops have passed is transposed, and they pass everything.
Transposing ==
  /\ M > 0 /\ N > 0 /\ InLoops(at) /\ InB
  /\ \A c \in 0 .. M - 1, d \in 0 .. N - 1 : Passed(at, c, d) => B[<<c, d>>] = <<d, c>>

Inv ==
  /\ pc = "main" => size \in Nat \X Nat
  /\ func \in 1 .. 2
  /\ pc = "transpose" => size \in Nat \X Nat /\ Transposing
  /\ pc = "returned" => size \in Nat \X Nat /\ validate
  /\ \E S : results \in Seq(S)
  /\ \A k \in DOMAIN results : results[k].correct

-----------------------------------------------------------------------------
(* What a move writes: the cells it names, and these transposed.           *)
swap(cell) == <<cell[2], cell[1]>>
Legal(m) == /\ m.to \in Seq(cells) /\ DOMAIN m.from = DOMAIN m.to
            /\ \A k \in DOMAIN m.to : m.from[k] = swap(m.to[k])

Partly(m, k) == [cell \in cells |-> IF \E n \in 1 .. k : m.to[n] = cell THEN swap(cell) ELSE B[cell]]
Writes(b, m) == b = [k \in 0 .. Len(m.to) |-> IF k = 0 THEN B ELSE [b[k - 1] EXCEPT ![m.to[k]] = m.from[k]]]

LEMMA WritesOne ==
  ASSUME NEW m, Legal(m), NEW k \in 1 .. Len(m.to)
  PROVE  Partly(m, k) = [Partly(m, k - 1) EXCEPT ![m.to[k]] = m.from[k]]
<1>1. m.to[k] \in cells /\ m.from[k] = swap(m.to[k]) /\ Len(m.to) \in Nat
  BY DEF Legal
<1>2. \A cell \in cells : (\E n \in 1 .. k : m.to[n] = cell)
                          <=> (\E n \in 1 .. k - 1 : m.to[n] = cell) \/ cell = m.to[k]
  <2>1. \A n \in 1 .. k : n \in 1 .. k - 1 \/ n = k
    BY <1>1
  <2>2. k \in 1 .. k /\ 1 .. k - 1 \subseteq 1 .. k
    BY <1>1
  <2> QED
    BY <2>1, <2>2
<1> QED
  BY <1>1, <1>2 DEF Partly

LEMMA StoredIs ==
  ASSUME NEW m, Legal(m), InB
  PROVE  stored(m) = Partly(m, Len(m.to))
<1> DEFINE L == Len(m.to)
           g == [k \in 0 .. L |-> Partly(m, k)]
           f == CHOOSE b : Writes(b, m)
<1>1. L \in Nat
  BY DEF Legal
<1>2. Partly(m, 0) = B
  <2>1. Partly(m, 0) = [cell \in cells |-> B[cell]]
    BY DEF Partly
  <2> QED
    BY <2>1 DEF InB
<1>3. Writes(g, m)
  <2>1. ASSUME NEW k \in 0 .. L, k # 0
        PROVE  Partly(m, k) = [g[k - 1] EXCEPT ![m.to[k]] = m.from[k]]
    <3>1. k \in 1 .. L /\ k - 1 \in 0 .. L
      BY <1>1, <2>1
    <3>2. g[k - 1] = Partly(m, k - 1)
      BY <3>1
    <3> HIDE DEF g
    <3> QED
      BY <3>1, <3>2, WritesOne
  <2> QED
    BY <1>2, <2>1 DEF Writes
<1>4. Writes(f, m)
  <2> HIDE DEF g
  <2> QED
    BY <1>3
<1>5. stored(m) = f[L]
  BY DEF stored, Writes
<1> HIDE DEF f
<1> DEFINE S == {k \in 0 .. L : f[k] = Partly(m, k)}
<1>6. f[0] = B /\ \A k \in 1 .. L : f[k] = [f[k - 1] EXCEPT ![m.to[k]] = m.from[k]]
  <2>1. f = [k \in 0 .. L |-> IF k = 0 THEN B ELSE [f[k - 1] EXCEPT ![m.to[k]] = m.from[k]]]
    BY <1>4 DEF Writes
  <2>2. 0 \in 0 .. L /\ \A k \in 1 .. L : k \in 0 .. L /\ k # 0
    BY <1>1
  <2> HIDE DEF L
  <2> QED
    BY <2>1, <2>2
<1>7. 0 \in S
  BY <1>1, <1>2, <1>6
<1>8. ASSUME NEW k \in 0 .. L - 1, k \in S PROVE k + 1 \in S
  <2>1. k + 1 \in 1 .. L /\ k + 1 \in 0 .. L /\ (k + 1) - 1 = k
    BY <1>1
  <2>2. f[k + 1] = [f[k] EXCEPT ![m.to[k + 1]] = m.from[k + 1]]
    BY <1>6, <2>1
  <2>3. Partly(m, k + 1) = [Partly(m, k) EXCEPT ![m.to[k + 1]] = m.from[k + 1]]
    BY <2>1, WritesOne
  <2>4. f[k] = Partly(m, k)
    BY <1>8
  <2> QED
    BY <2>1, <2>2, <2>3, <2>4
<1>9. 0 .. L \subseteq S
  <2> HIDE DEF S
  <2> QED
    BY <1>1, <1>7, <1>8, UpTo
<1> QED
  BY <1>1, <1>5, <1>9

-----------------------------------------------------------------------------
(* From a move to the next, what the loops have passed grows by what the   *)
(* move writes, and all is passed when they end.                           *)
Sized == size \in Nat \X Nat /\ M > 0 /\ N > 0
after == IF at.move < Len(moves) THEN [at EXCEPT !.move = @ + 1] ELSE [next(at) EXCEPT !.move = 1]
names(m, c, d) == \E k \in DOMAIN m.to : m.to[k] = <<c, d>>

Advances(m, y) ==
  /\ Legal(m)
  /\ \/ /\ InLoops(y)
        /\ \A c \in 0 .. M - 1, d \in 0 .. N - 1 : Passed(y, c, d) => Passed(at, c, d) \/ names(m, c, d)
     \/ /\ y = Over
        /\ \A c \in 0 .. M - 1, d \in 0 .. N - 1 : Passed(at, c, d) \/ names(m, c, d)

LEMMA LeastIs ==
  ASSUME NEW a \in Nat, NEW b \in Nat
  PROVE  least(a, b) \in Nat /\ least(a, b) <= a /\ least(a, b) <= b /\ (least(a, b) = a \/ least(a, b) = b)
  BY DEF least

LEMMA OverStays == [Over EXCEPT !.move = 1] = Over
  BY DEF Over

LEMMA CellsAre ==
  ASSUME Sized
  PROVE  /\ M \in Nat /\ N \in Nat /\ M > 0 /\ N > 0
         /\ \A c \in 0 .. M - 1, d \in 0 .. N - 1 : <<c, d>> \in cells /\ swap(<<c, d>>) = <<d, c>>
         /\ \A cell \in cells : \E c \in 0 .. M - 1, d \in 0 .. N - 1 : cell = <<c, d>>
  BY DEF Sized, M, N, cells, swap

LEMMA SingleIs ==
  ASSUME Sized, NEW i \in 0 .. N - 1, NEW j \in 0 .. M - 1
  PROVE  Legal(single(i, j)) /\ names(single(i, j), j, i)
<1>1. single(i, j).to = << <<j, i>> >> /\ single(i, j).from = << <<i, j>> >>
  BY DEF single
<1>2. <<j, i>> \in cells /\ swap(<<j, i>>) = <<i, j>>
  BY CellsAre
<1> QED
  BY <1>1, <1>2 DEF Legal, names

LEMMA LegalIs ==
  ASSUME NEW m, NEW n \in Nat, DOMAIN m.to = 1 .. n, DOMAIN m.from = 1 .. n,
         m.to = [k \in 1 .. n |-> m.to[k]],
         \A k \in 1 .. n : m.to[k] \in cells /\ m.from[k] = swap(m.to[k])
  PROVE  Legal(m)
<1>1. m.to \in [1 .. n -> cells]
  OBVIOUS
<1>2. m.to \in Seq(cells)
  BY <1>1
<1> QED
  BY <1>2 DEF Legal

LEMMA RowsAdvance ==
  ASSUME Sized, ~submitted, at \in Counters, InRows(at)
  PROVE  Advances(moves[at.move], after)
<1>1. PICK i \in Nat, j \in Nat, ii \in Nat : at = [i |-> i, j |-> j, ii |-> ii, move |-> 1]
  BY DEF Counters, InRows
<1>2. i < N /\ j < M /\ M \in Nat /\ N \in Nat
  BY <1>1, CellsAre DEF InRows
<1>3. moves = << single(i, j) >>
  BY <1>1 DEF moves, trans
<1>4. Legal(moves[at.move]) /\ names(moves[at.move], j, i)
  <2>1. moves[at.move] = single(i, j)
    BY <1>1, <1>3
  <2> QED
    BY <1>2, <2>1, SingleIs
<1>5. after = [rowByRow(at) EXCEPT !.move = 1]
  BY <1>1, <1>3 DEF after, next
<1> DEFINE m == moves[at.move]
<1> HIDE DEF m
<1>6. CASE j + 1 < M
  <2>1. after = [i |-> i, j |-> j + 1, ii |-> ii, move |-> 1]
    BY <1>1, <1>2, <1>5, <1>6 DEF rowByRow
  <2>2. InLoops(after)
    BY <1>2, <1>6, <2>1 DEF InLoops, InRows, Counters
  <2>3. ASSUME NEW c \in 0 .. M - 1, NEW d \in 0 .. N - 1, Passed(after, c, d)
        PROVE  Passed(at, c, d) \/ names(m, c, d)
    BY <1>1, <1>2, <1>4, <2>1, <2>3 DEF Passed, RowsPassed, m
  <2> QED
    BY <1>4, <2>2, <2>3 DEF Advances, m
<1>7. CASE j + 1 >= M /\ i + 1 < N
  <2>1. after = [i |-> i + 1, j |-> 0, ii |-> ii, move |-> 1]
    <3>1. at.i = i /\ at.j = j /\ ~(j + 1 < M)
      BY <1>1, <1>2, <1>7
    <3>2. rowByRow(at) = [at EXCEPT !.i = i + 1, !.j = 0]
      BY <3>1, <1>7 DEF rowByRow
    <3> QED
      BY <1>1, <1>5, <3>2
  <2>2. InLoops(after)
    BY <1>2, <1>7, <2>1 DEF InLoops, InRows, Counters
  <2>3. ASSUME NEW c \in 0 .. M - 1, NEW d \in 0 .. N - 1, Passed(after, c, d)
        PROVE  Passed(at, c, d) \/ names(m, c, d)
    BY <1>1, <1>2, <1>4, <1>7, <2>1, <2>3 DEF Passed, RowsPassed, m
  <2> QED
    BY <1>4, <2>2, <2>3 DEF Advances, m
<1>8. CASE j + 1 >= M /\ i + 1 >= N
  <2>1. rowByRow(at) = Over
    <3>1. at.i = i /\ at.j = j /\ ~(j + 1 < M) /\ ~(i + 1 < N)
      BY <1>1, <1>2, <1>8
    <3> QED
      BY <3>1, <1>8 DEF rowByRow
  <2>2. after = Over
    BY <1>5, <2>1, OverStays
  <2>3. ASSUME NEW c \in 0 .. M - 1, NEW d \in 0 .. N - 1
        PROVE  Passed(at, c, d) \/ names(m, c, d)
    BY <1>1, <1>2, <1>4, <1>8 DEF Passed, RowsPassed, m
  <2> QED
    BY <1>4, <2>2, <2>3 DEF Advances, m
<1> QED
  BY <1>2, <1>6, <1>7, <1>8

LEMMA BlocksAdvance ==
  ASSUME Sized, submitted, ~is32, ~is64, at \in Counters, InBlocks(at)
  PROVE  Advances(moves[at.move], after)
<1>1. PICK i \in Nat, j \in Nat, ii \in Nat, n \in Nat : at = [i |-> i, j |-> j, ii |-> ii, move |-> n]
  BY DEF Counters
<1> DEFINE right == least(j + 18, M)
           low == least(i + 18, N)
<1>2. /\ M \in Nat /\ N \in Nat /\ right \in Nat /\ low \in Nat
      /\ right <= M /\ right <= j + 18 /\ (right = M \/ right = j + 18)
      /\ low <= N /\ low <= i + 18 /\ (low = N \/ low = i + 18)
  <2>1. M \in Nat /\ N \in Nat
    BY CellsAre
  <2>2. j + 18 \in Nat /\ i + 18 \in Nat
    OBVIOUS
  <2> QED
    BY <2>1, <2>2, LeastIs
<1>3. j < M /\ i <= ii /\ ii < low /\ n \in 1 .. right - j
  BY <1>1 DEF InBlocks
<1>4. moves = [k \in 1 .. right - j |-> single(ii, j + k - 1)]
  BY <1>1 DEF moves, transpose_submit, row
<1> HIDE DEF right, low
<1>5. Len(moves) = right - j /\ moves[n] = single(ii, j + n - 1)
  BY <1>2, <1>3, <1>4
<1> DEFINE m == moves[at.move]
<1>6. Legal(m) /\ names(m, j + n - 1, ii)
  <2>1. m = single(ii, j + n - 1)
    BY <1>1, <1>5
  <2>2. ii \in 0 .. N - 1 /\ j + n - 1 \in 0 .. M - 1
    BY <1>2, <1>3
  <2> QED
    BY <2>1, <2>2, SingleIs
<1> HIDE DEF m
<1>7. CASE n < right - j
  <2>1. after = [i |-> i, j |-> j, ii |-> ii, move |-> n + 1]
    BY <1>1, <1>5, <1>7 DEF after
  <2>2. InLoops(after)
    BY <1>2, <1>3, <1>7, <2>1 DEF InLoops, InBlocks, Counters, right, low
  <2>3. ASSUME NEW c \in 0 .. M - 1, NEW d \in 0 .. N - 1, Passed(after, c, d)
        PROVE  Passed(at, c, d) \/ names(m, c, d)
    BY <1>1, <1>2, <1>3, <1>6, <2>1, <2>3 DEF Passed, BlocksPassed
  <2> QED
    BY <1>6, <2>2, <2>3 DEF Advances, m
<1>8. CASE ~(n < right - j)
  <2>1. after = [blocks(at) EXCEPT !.move = 1]
    BY <1>1, <1>5, <1>8 DEF after, next
  <2>2. n = right - j
    BY <1>2, <1>3, <1>8
  <2>3. CASE ii + 1 < low
    <3>1. after = [i |-> i, j |-> j, ii |-> ii + 1, move |-> 1]
      BY <1>1, <1>2, <2>1, <2>3 DEF blocks, low
    <3>2. InLoops(after)
      BY <1>2, <1>3, <2>2, <2>3, <3>1 DEF InLoops, InBlocks, Counters, right, low
    <3>3. ASSUME NEW c \in 0 .. M - 1, NEW d \in 0 .. N - 1, Passed(after, c, d)
          PROVE  Passed(at, c, d) \/ names(m, c, d)
      BY <1>1, <1>2, <1>3, <1>6, <2>2, <3>1, <3>3 DEF Passed, BlocksPassed
    <3> QED
      BY <1>6, <3>2, <3>3 DEF Advances, m
  <2>4. CASE ii + 1 >= low /\ j + 18 < M
    <3>1. after = [i |-> i, j |-> j + 18, ii |-> i, move |-> 1]
      <4>1. at.i = i /\ at.j = j /\ at.ii = ii /\ ~(ii + 1 < low) /\ ~(j + 18 >= M)
        BY <1>1, <1>2, <2>4
      <4>2. blocks(at) = [at EXCEPT !.j = j + 18, !.ii = i]
        BY <4>1, <2>4 DEF blocks, low
      <4> QED
        BY <1>1, <2>1, <4>2
    <3>2. InLoops(after)
      <4>1. least(j + 18 + 18, M) - (j + 18) >= 1 /\ least(j + 18 + 18, M) \in Nat
        <5>1. j + 18 + 18 \in Nat /\ M \in Nat
          BY <1>2
        <5>2. /\ least(j + 18 + 18, M) \in Nat
              /\ least(j + 18 + 18, M) = j + 18 + 18 \/ least(j + 18 + 18, M) = M
          BY <5>1, LeastIs
        <5> QED
          BY <1>2, <2>4, <5>2
      <4>2. i < low
        BY <1>2, <1>3
      <4> QED
        BY <1>2, <1>3, <2>4, <3>1, <4>1, <4>2 DEF InLoops, InBlocks, Counters, low
    <3>3. ASSUME NEW c \in 0 .. M - 1, NEW d \in 0 .. N - 1, Passed(after, c, d)
          PROVE  Passed(at, c, d) \/ names(m, c, d)
      BY <1>1, <1>2, <1>3, <1>6, <2>2, <2>4, <3>1, <3>3 DEF Passed, BlocksPassed
    <3> QED
      BY <1>6, <3>2, <3>3 DEF Advances, m
  <2>5. CASE ii + 1 >= low /\ j + 18 >= M /\ i + 18 < N
    <3>1. after = [i |-> i + 18, j |-> 0, ii |-> i + 18, move |-> 1]
      <4>1. at.i = i /\ at.j = j /\ at.ii = ii /\ ~(ii + 1 < low) /\ ~(j + 18 < M)
        BY <1>1, <1>2, <2>5
      <4>2. blocks(at) = [at EXCEPT !.i = i + 18, !.j = 0, !.ii = i + 18]
        BY <4>1, <2>5 DEF blocks, low
      <4> QED
        BY <1>1, <2>1, <4>2
    <3>2. InLoops(after)
      <4>1. /\ least(0 + 18, M) - 0 >= 1 /\ least(0 + 18, M) \in Nat
            /\ i + 18 < least(i + 18 + 18, N)
        <5>1. 0 + 18 \in Nat /\ i + 18 + 18 \in Nat /\ M \in Nat /\ N \in Nat
          BY <1>2
        <5>2. /\ least(0 + 18, M) \in Nat /\ (least(0 + 18, M) = 0 + 18 \/ least(0 + 18, M) = M)
              /\ least(i + 18 + 18, N) = i + 18 + 18 \/ least(i + 18 + 18, N) = N
          BY <5>1, LeastIs
        <5> QED
          BY <1>2, <1>3, <2>5, <5>2
      <4> QED
        BY <1>2, <1>3, <2>5, <3>1, <4>1 DEF InLoops, InBlocks, Counters
    <3>3. ASSUME NEW c \in 0 .. M - 1, NEW d \in 0 .. N - 1, Passed(after, c, d)
          PROVE  Passed(at, c, d) \/ names(m, c, d)
      BY <1>1, <1>2, <1>3, <1>6, <2>2, <2>5, <3>1, <3>3 DEF Passed, BlocksPassed
    <3> QED
      BY <1>6, <3>2, <3>3 DEF Advances, m
  <2>6. CASE ii + 1 >= low /\ j + 18 >= M /\ i + 18 >= N
    <3>1. blocks(at) = Over
      BY <1>1, <1>2, <2>6 DEF blocks, low
    <3>2. after = Over
      BY <2>1, <3>1, OverStays
    <3>3. ASSUME NEW c \in 0 .. M - 1, NEW d \in 0 .. N - 1
          PROVE  Passed(at, c, d) \/ names(m, c, d)
      BY <1>1, <1>2, <1>3, <1>6, <2>2, <2>6 DEF Passed, BlocksPassed
    <3> QED
      BY <1>6, <3>2, <3>3 DEF Advances, m
  <2> QED
    BY <1>2, <2>3, <2>4, <2>5, <2>6
<1> QED
  BY <1>7, <1>8

LEMMA EightsAdvance ==
  ASSUME Sized, submitted, is32, at \in Counters, InEights(at)
  PROVE  Advances(moves[at.move], after)
<1>1. PICK i \in 0 .. 31, j \in {0, 8, 16, 24}, ii \in Nat : at = [i |-> i, j |-> j, ii |-> ii, move |-> 1]
  BY DEF Counters, InEights
<1>2. M = 32 /\ N = 32 /\ ~is64
  BY DEF is32, is64
<1>3. moves = eight(i, j)
  BY <1>1, <1>2 DEF moves, transpose_submit
<1> DEFINE m == moves[at.move]
<1>4. /\ m = [from |-> [k \in 1 .. 8 |-> <<i, j + k - 1>>], to |-> [k \in 1 .. 8 |-> <<j + k - 1, i>>]]
      /\ Len(moves) = 1
  BY <1>1, <1>3 DEF eight
<1>5. /\ m.to = [k \in 1 .. 8 |-> <<j + k - 1, i>>] /\ m.from = [k \in 1 .. 8 |-> <<i, j + k - 1>>]
  BY <1>4
<1> HIDE DEF m
<1>6. Legal(m)
  <2>1. ASSUME NEW k \in 1 .. 8
        PROVE  m.to[k] \in cells /\ m.from[k] = swap(m.to[k])
    <3>1. j + k - 1 \in 0 .. M - 1 /\ i \in 0 .. N - 1
      BY <1>2
    <3>2. <<j + k - 1, i>> \in cells /\ swap(<<j + k - 1, i>>) = <<i, j + k - 1>>
      BY <3>1, CellsAre
    <3> QED
      BY <1>5, <3>2
  <2> QED
    BY <1>5, <2>1, LegalIs
<1>7. ASSUME NEW c \in j .. j + 7 PROVE names(m, c, i)
  <2>1. c - j + 1 \in 1 .. 8 /\ j + (c - j + 1) - 1 = c
    OBVIOUS
  <2>2. m.to[c - j + 1] = <<c, i>> /\ DOMAIN m.to = 1 .. 8
    BY <1>5, <2>1
  <2> QED
    BY <2>1, <2>2 DEF names
<1>8. after = [down(at, 1, 8) EXCEPT !.move = 1]
  BY <1>1, <1>2, <1>4 DEF after, next
<1>9. CASE i + 1 < 32
  <2>1. after = [i |-> i + 1, j |-> j, ii |-> ii, move |-> 1]
    BY <1>1, <1>2, <1>8, <1>9 DEF down
  <2>2. InLoops(after)
    BY <1>2, <1>9, <2>1 DEF InLoops, InEights, Counters
  <2>3. ASSUME NEW c \in 0 .. M - 1, NEW d \in 0 .. N - 1, Passed(after, c, d)
        PROVE  Passed(at, c, d) \/ names(m, c, d)
    BY <1>1, <1>2, <1>7, <2>1, <2>3 DEF Passed, EightsPassed
  <2> QED
    BY <1>6, <2>2, <2>3 DEF Advances, m
<1>10. CASE i + 1 >= 32 /\ j + 8 < 32
  <2>1. after = [i |-> 0, j |-> j + 8, ii |-> ii, move |-> 1]
    <3>1. at.i = i /\ at.j = j /\ ~(i + 1 < M) /\ j + 8 < N /\ i + 1 >= M
      BY <1>1, <1>2, <1>10
    <3>2. down(at, 1, 8) = [at EXCEPT !.i = 0, !.j = j + 8]
      BY <3>1 DEF down
    <3> QED
      BY <1>1, <1>8, <3>2
  <2>2. InLoops(after)
    BY <1>2, <1>10, <2>1 DEF InLoops, InEights, Counters
  <2>3. ASSUME NEW c \in 0 .. M - 1, NEW d \in 0 .. N - 1, Passed(after, c, d)
        PROVE  Passed(at, c, d) \/ names(m, c, d)
    BY <1>1, <1>2, <1>7, <1>10, <2>1, <2>3 DEF Passed, EightsPassed
  <2> QED
    BY <1>6, <2>2, <2>3 DEF Advances, m
<1>11. CASE i + 1 >= 32 /\ j + 8 >= 32
  <2>1. at.i = i /\ at.j = j /\ ~(i + 1 < M) /\ ~(j + 8 < N)
    BY <1>1, <1>2, <1>11
  <2>2. down(at, 1, 8) = Over
    BY <2>1 DEF down
  <2>3. after = Over
    BY <1>8, <2>2, OverStays
  <2>4. ASSUME NEW c \in 0 .. M - 1, NEW d \in 0 .. N - 1
        PROVE  Passed(at, c, d) \/ names(m, c, d)
    BY <1>1, <1>2, <1>7, <1>11 DEF Passed, EightsPassed
  <2> QED
    BY <1>6, <2>3, <2>4 DEF Advances, m
<1> QED
  BY <1>9, <1>10, <1>11

LEMMA FunctionIsSeq ==
  ASSUME NEW S, NEW n \in Nat, NEW f \in [1 .. n -> S]
  PROVE  f \in Seq(S) /\ Len(f) = n
<1>1. f \in Seq(S)
  BY SeqDef
<1> QED
  BY <1>1, LenProperties

LEMMA TwoHalves ==
  ASSUME NEW S, NEW h \in Nat, NEW f \in [1 .. h -> S], NEW g \in [1 .. h -> S]
  PROVE  /\ Len(f \o g) = h + h
         /\ \A n \in 1 .. h + h : (f \o g)[n] = IF n <= h THEN f[n] ELSE g[n - h]
<1>1. f \in Seq(S) /\ Len(f) = h
  BY FunctionIsSeq
<1>2. g \in Seq(S) /\ Len(g) = h
  BY FunctionIsSeq
<1>3. /\ Len(f \o g) = Len(f) + Len(g)
      /\ \A n \in 1 .. Len(f) + Len(g) : (f \o g)[n] = IF n <= Len(f) THEN f[n] ELSE g[n - Len(f)]
  BY <1>1, <1>2, ConcatProperties
<1> QED
  BY <1>1, <1>2, <1>3

\* The row of B that move n of the block at <<i, j>> writes, and the first column.
rowOf(j, n) == IF n <= 4 THEN j + n - 1 ELSE j + n - 5
columnOf(i, n) == IF n <= 4 THEN i ELSE i + 4

LEMMA FoursAre ==
  ASSUME NEW i \in Nat, NEW j \in Nat, NEW n \in 1 .. 8
  PROVE  LET both == fours(i, j) \o fours(i + 4, j)
         IN  /\ Len(both) = 8
             /\ both[n].from = [k \in 1 .. 4 |-> <<columnOf(i, n) + k - 1, rowOf(j, n)>>]
             /\ both[n].to = [k \in 1 .. 4 |-> <<rowOf(j, n), columnOf(i, n) + k - 1>>]
<1> DEFINE f == fours(i, j)
           g == fours(i + 4, j)
           S == {f[k] : k \in 1 .. 4} \cup {g[k] : k \in 1 .. 4}
           r == rowOf(j, n)
           l == columnOf(i, n)
<1>1. f \in [1 .. 4 -> S] /\ g \in [1 .. 4 -> S]
  BY DEF fours
<1>2. /\ Len(f \o g) = 8
      /\ (f \o g)[n] = IF n <= 4 THEN f[n] ELSE g[n - 4]
  <2> HIDE DEF f, g, S
  <2>1. PICK h \in Nat : h = 4
    OBVIOUS
  <2>2. f \in [1 .. h -> S] /\ g \in [1 .. h -> S]
    BY <1>1, <2>1
  <2>3. Len(f \o g) = h + h /\ \A k \in 1 .. h + h : (f \o g)[k] = IF k <= h THEN f[k] ELSE g[k - h]
    BY <2>2, TwoHalves
  <2>4. n \in 1 .. h + h /\ h + h = 8
    BY <2>1
  <2>5. (f \o g)[n] = IF n <= h THEN f[n] ELSE g[n - h]
    BY <2>3, <2>4
  <2> QED
    BY <2>1, <2>3, <2>4, <2>5
<1>3. CASE n <= 4
  <2>1. n \in 1 .. 4
    BY <1>3
  <2>2. f[n] = [from |-> [k \in 1 .. 4 |-> <<i + k - 1, j + n - 1>>],
                to   |-> [k \in 1 .. 4 |-> <<j + n - 1, i + k - 1>>]]
    BY <2>1 DEF fours
  <2> HIDE DEF f, g
  <2>3. (f \o g)[n] = f[n]
    BY <1>2, <1>3
  <2>4. r = j + n - 1 /\ l = i
    BY <1>3 DEF rowOf, columnOf
  <2> HIDE DEF r, l
  <2>5. (f \o g)[n].from = [k \in 1 .. 4 |-> <<l + k - 1, r>>] /\ (f \o g)[n].to = [k \in 1 .. 4 |-> <<r, l + k - 1>>]
    BY <2>2, <2>3, <2>4
  <2> QED
    BY <1>2, <2>5 DEF f, g, r, l
<1>4. CASE n > 4
  <2>1. n - 4 \in 1 .. 4
    BY <1>4
  <2>2. g[n - 4] = [from |-> [k \in 1 .. 4 |-> <<i + 4 + k - 1, j + (n - 4) - 1>>],
                    to   |-> [k \in 1 .. 4 |-> <<j + (n - 4) - 1, i + 4 + k - 1>>]]
    BY <2>1 DEF fours
  <2>3. j + (n - 4) - 1 = j + n - 5
    OBVIOUS
  <2> HIDE DEF f, g
  <2>4. (f \o g)[n] = g[n - 4] /\ ~(n <= 4)
    BY <1>2, <1>4
  <2>5. r = j + (n - 4) - 1 /\ l = i + 4
    BY <1>4, <2>3 DEF rowOf, columnOf
  <2> HIDE DEF r, l
  <2>6. (f \o g)[n].from = [k \in 1 .. 4 |-> <<l + k - 1, r>>] /\ (f \o g)[n].to = [k \in 1 .. 4 |-> <<r, l + k - 1>>]
    BY <2>2, <2>4, <2>5
  <2> QED
    BY <1>2, <2>6 DEF f, g, r, l
<1> QED
  BY <1>3, <1>4

LEMMA FoursAdvance ==
  ASSUME Sized, submitted, is64, at \in Counters, InFours(at)
  PROVE  Advances(moves[at.move], after)
<1>1. PICK i \in Nat, j \in Nat, ii \in Nat, n \in 1 .. 8 : at = [i |-> i, j |-> j, ii |-> ii, move |-> n]
  BY DEF Counters, InFours
<1>2. M = 64 /\ N = 64 /\ ~is32
  BY DEF is32, is64
<1>3. PICK a \in 0 .. 7, b \in 0 .. 15 : i = 8 * a /\ j = 4 * b
  BY <1>1 DEF InFours
<1>4. moves = fours(i, j) \o fours(i + 4, j)
  BY <1>1, <1>2 DEF moves, transpose_submit
<1> DEFINE m == moves[at.move]
           r == rowOf(j, n)
           l == columnOf(i, n)
<1>5. /\ Len(moves) = 8
      /\ m.from = [k \in 1 .. 4 |-> <<l + k - 1, r>>]
      /\ m.to = [k \in 1 .. 4 |-> <<r, l + k - 1>>]
  <2> DEFINE both == fours(i, j) \o fours(i + 4, j)
  <2>1. /\ Len(both) = 8
        /\ both[n].from = [k \in 1 .. 4 |-> <<l + k - 1, r>>]
        /\ both[n].to = [k \in 1 .. 4 |-> <<r, l + k - 1>>]
    BY FoursAre
  <2>2. moves = both /\ m = both[n]
    BY <1>1, <1>4
  <2> HIDE DEF both, m, r, l
  <2> QED
    BY <2>1, <2>2
<1> HIDE DEF m
<1>6. /\ r \in 0 .. 63 /\ l \in 0 .. 60
      /\ n <= 4 => r = j + n - 1 /\ l = i
      /\ n > 4 => r = j + n - 5 /\ l = i + 4
  BY <1>3 DEF rowOf, columnOf
<1> HIDE DEF r, l
<1>7. Legal(m)
  <2>1. ASSUME NEW k \in 1 .. 4
        PROVE  m.to[k] \in cells /\ m.from[k] = swap(m.to[k])
    <3>1. r \in 0 .. M - 1 /\ l + k - 1 \in 0 .. N - 1
      BY <1>2, <1>6
    <3>2. <<r, l + k - 1>> \in cells /\ swap(<<r, l + k - 1>>) = <<l + k - 1, r>>
      BY <3>1, CellsAre
    <3> QED
      BY <1>5, <3>2
  <2> QED
    BY <1>5, <2>1, LegalIs
<1>8. ASSUME NEW d \in l .. l + 3 PROVE names(m, r, d)
  <2>1. d - l + 1 \in 1 .. 4 /\ l + (d - l + 1) - 1 = d
    BY <1>6
  <2>2. m.to[d - l + 1] = <<r, d>> /\ DOMAIN m.to = 1 .. 4
    BY <1>5, <2>1
  <2> QED
    BY <2>1, <2>2 DEF names
<1>9. CASE n < 8
  <2>1. after = [i |-> i, j |-> j, ii |-> ii, move |-> n + 1]
    BY <1>1, <1>5, <1>9 DEF after
  <2>2. InLoops(after)
    <3>1. InFours(after)
      BY <1>3, <1>9, <2>1 DEF InFours
    <3>2. after \in Counters
      BY <2>1 DEF Counters
    <3> QED
      BY <3>1, <3>2 DEF InLoops
  <2>3. ASSUME NEW c \in 0 .. M - 1, NEW d \in 0 .. N - 1, Passed(after, c, d)
        PROVE  Passed(at, c, d) \/ names(m, c, d)
    <3>1. FoursPassed(after, c, d)
      BY <1>2, <2>3 DEF Passed
    <3>2. FoursPassed(at, c, d) \/ (c = r /\ d \in l .. l + 3)
      BY <1>1, <1>2, <1>3, <1>6, <1>9, <2>1, <3>1 DEF FoursPassed
    <3> QED
      BY <1>8, <3>2 DEF Passed
  <2> QED
    BY <1>7, <2>2, <2>3 DEF Advances, m
<1>10. CASE n = 8
  <2>1. after = [down(at, 8, 4) EXCEPT !.move = 1]
    BY <1>1, <1>2, <1>5, <1>10 DEF after, next
  <2>2. ASSUME NEW c \in 0 .. M - 1, NEW d \in 0 .. N - 1, c < j \/ (c < j + 4 /\ d < i + 8)
        PROVE  Passed(at, c, d) \/ names(m, c, d)
    <3>1. FoursPassed(at, c, d) \/ (c = r /\ d \in l .. l + 3)
      BY <1>1, <1>2, <1>3, <1>6, <1>10, <2>2 DEF FoursPassed
    <3> QED
      BY <1>8, <3>1 DEF Passed
  <2>3. CASE i + 8 < 64
    <3>1. after = [i |-> i + 8, j |-> j, ii |-> ii, move |-> 1]
      BY <1>1, <1>2, <2>1, <2>3 DEF down
    <3>2. InLoops(after)
      <4>1. i + 8 = 8 * (a + 1) /\ a + 1 \in 0 .. 7
        BY <1>3, <2>3
      <4>2. InFours(after)
        BY <1>3, <3>1, <4>1 DEF InFours
      <4>3. after \in Counters
        BY <3>1 DEF Counters
      <4> QED
        BY <4>2, <4>3 DEF InLoops
    <3>3. ASSUME NEW c \in 0 .. M - 1, NEW d \in 0 .. N - 1, Passed(after, c, d)
          PROVE  Passed(at, c, d) \/ names(m, c, d)
      <4>1. FoursPassed(after, c, d)
        BY <1>2, <3>3 DEF Passed
      <4>2. c < j \/ (c < j + 4 /\ d < i + 8)
        BY <1>2, <3>1, <4>1 DEF FoursPassed
      <4> QED
        BY <2>2, <4>2
    <3> QED
      BY <1>7, <3>2, <3>3 DEF Advances, m
  <2>4. CASE i + 8 >= 64 /\ j + 4 < 64
    <3>1. after = [i |-> 0, j |-> j + 4, ii |-> ii, move |-> 1]
      <4>1. at.i = i /\ at.j = j /\ ~(i + 8 < M) /\ j + 4 < N /\ i + 8 >= M
        BY <1>1, <1>2, <2>4
      <4>2. down(at, 8, 4) = [at EXCEPT !.i = 0, !.j = j + 4]
        BY <4>1 DEF down
      <4> QED
        BY <1>1, <2>1, <4>2
    <3>2. InLoops(after)
      <4>1. j + 4 = 4 * (b + 1) /\ b + 1 \in 0 .. 15 /\ 0 = 8 * 0 /\ 0 \in 0 .. 7
        BY <1>3, <2>4
      <4>2. InFours(after)
        BY <3>1, <4>1 DEF InFours
      <4>3. after \in Counters
        BY <3>1 DEF Counters
      <4> QED
        BY <4>2, <4>3 DEF InLoops
    <3>3. ASSUME NEW c \in 0 .. M - 1, NEW d \in 0 .. N - 1, Passed(after, c, d)
          PROVE  Passed(at, c, d) \/ names(m, c, d)
      <4>1. FoursPassed(after, c, d)
        BY <1>2, <3>3 DEF Passed
      <4>2. c < j \/ (c < j + 4 /\ d < i + 8)
        BY <1>2, <2>4, <3>1, <4>1 DEF FoursPassed
      <4> QED
        BY <2>2, <4>2
    <3> QED
      BY <1>7, <3>2, <3>3 DEF Advances, m
  <2>5. CASE i + 8 >= 64 /\ j + 4 >= 64
    <3>1. at.i = i /\ at.j = j /\ ~(i + 8 < M) /\ ~(j + 4 < N)
      BY <1>1, <1>2, <2>5
    <3>2. down(at, 8, 4) = Over
      BY <3>1 DEF down
    <3>3. after = Over
      BY <2>1, <3>2, OverStays
    <3>4. ASSUME NEW c \in 0 .. M - 1, NEW d \in 0 .. N - 1
          PROVE  Passed(at, c, d) \/ names(m, c, d)
      <4>1. c < j + 4 /\ d < i + 8
        BY <1>2, <2>5
      <4> QED
        BY <2>2, <4>1
    <3> QED
      BY <1>7, <3>3, <3>4 DEF Advances, m
  <2> QED
    BY <2>3, <2>4, <2>5
<1> QED
  BY <1>9, <1>10

LEMMA MoveAdvances ==
  ASSUME Sized, InLoops(at)
  PROVE  Advances(moves[at.move], after)
<1>1. CASE ~submitted /\ InRows(at)
  BY <1>1, RowsAdvance DEF InLoops
<1>2. CASE submitted /\ is32 /\ InEights(at)
  BY <1>2, EightsAdvance DEF InLoops
<1>3. CASE submitted /\ is64 /\ InFours(at)
  BY <1>3, FoursAdvance DEF InLoops
<1>4. CASE submitted /\ ~is32 /\ ~is64 /\ InBlocks(at)
  BY <1>4, BlocksAdvance DEF InLoops
<1> QED
  BY <1>1, <1>2, <1>3, <1>4 DEF InLoops

-----------------------------------------------------------------------------
(* The actions.                                                            *)

LEMMA InvInit == Init => Inv
<1> SUFFICES ASSUME Init PROVE Inv
  OBVIOUS
<1>1. func = 1 /\ results = <<>>
  BY DEF Init
<1>2. pc # "transpose" /\ pc # "returned"
  BY DEF Init
<1>3. pc = "main" => size \in Nat \X Nat
  BY MatrixAssumption DEF Init
<1>4. (\E S : results \in Seq(S)) /\ DOMAIN results = {}
  BY <1>1
<1> QED
  BY <1>1, <1>2, <1>3, <1>4 DEF Inv

LEMMA SameLoops ==
  ASSUME size' = size, func' = func
  PROVE  /\ M' = M /\ N' = N /\ cells' = cells
         /\ InLoops(at)' <=> InLoops(at')
         /\ \A c, d : Passed(at, c, d)' <=> Passed(at', c, d)
<1>1. M' = M /\ N' = N
  BY DEF M, N
<1>2. cells' = cells
  BY <1>1 DEF cells
<1>3. submitted' = submitted /\ is32' = is32 /\ is64' = is64
  BY <1>1 DEF submitted, is32, is64
<1>4. /\ InRows(at)' <=> InRows(at')
      /\ InEights(at)' <=> InEights(at')
      /\ InFours(at)' <=> InFours(at')
      /\ InBlocks(at)' <=> InBlocks(at')
  BY <1>1 DEF InRows, InEights, InFours, InBlocks
<1>5. InLoops(at)' <=> InLoops(at')
  BY <1>3, <1>4 DEF InLoops
<1>6. ASSUME NEW c, NEW d
      PROVE  Passed(at, c, d)' <=> Passed(at', c, d)
  BY <1>3 DEF Passed, RowsPassed, EightsPassed, FoursPassed, BlocksPassed
<1> QED
  BY <1>1, <1>2, <1>5, <1>6

LEMMA InvBegin ==
  ASSUME Inv, Begin
  PROVE  Inv'
<1>1. /\ pc = "main" /\ size \in Nat \X Nat /\ size' = size /\ func' = func /\ results' = results
  BY DEF Begin, Inv
<1>2. CASE pc' = "refused"
  BY <1>1, <1>2 DEF Inv
<1>3. CASE M # 0 /\ N # 0 /\ pc' = "transpose" /\ at' = start /\ B' = initMatrix
  <2>1. M \in Nat /\ N \in Nat /\ M > 0 /\ N > 0
    BY <1>1, <1>3 DEF M, N
  <2>2. B' = [cell \in cells |-> B'[cell]]
    BY <1>3 DEF initMatrix
  <2>3. InLoops(start)
    <3>1. start \in Counters /\ start.i = 0 /\ start.j = 0 /\ start.ii = 0 /\ start.move = 1
      BY DEF start, Counters
    <3>2. InRows(start)
      BY <2>1, <3>1 DEF InRows
    <3>3. InEights(start)
      BY <3>1 DEF InEights
    <3>4. InFours(start)
      BY <3>1 DEF InFours
    <3>5. InBlocks(start)
      <4>1. 0 + 18 \in Nat /\ 0 + 18 > 0
        OBVIOUS
      <4>2. /\ least(0 + 18, M) \in Nat /\ least(0 + 18, M) > 0
            /\ least(0 + 18, N) \in Nat /\ least(0 + 18, N) > 0
        BY <2>1, <4>1, LeastIs
      <4> QED
        BY <2>1, <3>1, <4>2 DEF InBlocks
    <3> QED
      BY <3>1, <3>2, <3>3, <3>4, <3>5 DEF InLoops
  <2>4. \A c \in 0 .. M - 1, d \in 0 .. N - 1 : ~Passed(start, c, d)
    BY <2>1 DEF start, Passed, RowsPassed, EightsPassed, FoursPassed, BlocksPassed
  <2>5. /\ M' = M /\ N' = N /\ cells' = cells /\ InLoops(at)'
        /\ \A c \in 0 .. M - 1, d \in 0 .. N - 1 : ~Passed(at, c, d)'
    BY <1>1, <1>3, <2>3, <2>4, SameLoops
  <2>6. Transposing'
    BY <2>1, <2>2, <2>5 DEF Transposing, InB
  <2> QED
    BY <1>1, <1>3, <2>6 DEF Inv
<1> QED
  BY <1>1, <1>2, <1>3 DEF Begin

LEMMA InvIterate ==
  ASSUME Inv, Iterate
  PROVE  Inv'
<1> DEFINE m == moves[at.move]
<1>1. /\ pc = "transpose" /\ Sized /\ InLoops(at) /\ InB
      /\ \A c \in 0 .. M - 1, d \in 0 .. N - 1 : Passed(at, c, d) => B[<<c, d>>] = <<d, c>>
      /\ size' = size /\ func' = func /\ results' = results
  BY DEF Iterate, Inv, Transposing, Sized
<1>2. Advances(m, after)
  BY <1>1, MoveAdvances
<1>3. /\ B' = stored(m)
      /\ IF after = Over THEN at' = at /\ pc' = "returned" ELSE at' = after /\ pc' = pc
  BY DEF Iterate, after
<1> HIDE DEF m
<1>4. Legal(m) /\ B' = Partly(m, Len(m.to))
  BY <1>1, <1>2, <1>3, StoredIs DEF Advances
<1>5. B' = [cell \in cells |-> B'[cell]]
  BY <1>4 DEF Partly
<1>6. ASSUME NEW c \in 0 .. M - 1, NEW d \in 0 .. N - 1, Passed(at, c, d) \/ names(m, c, d)
      PROVE  B'[<<c, d>>] = <<d, c>>
  <2>1. <<c, d>> \in cells /\ swap(<<c, d>>) = <<d, c>>
    BY <1>1, CellsAre
  <2>2. DOMAIN m.to = 1 .. Len(m.to)
    BY <1>4 DEF Legal
  <2>3. B'[<<c, d>>] = IF names(m, c, d) THEN <<d, c>> ELSE B[<<c, d>>]
    BY <1>4, <2>1, <2>2 DEF Partly, names
  <2> QED
    BY <1>1, <1>6, <2>3
<1>7. CASE after = Over
  <2>1. \A c \in 0 .. M - 1, d \in 0 .. N - 1 : Passed(at, c, d) \/ names(m, c, d)
    <3>1. ~InLoops(Over)
      BY DEF InLoops, Counters, Over
    <3> QED
      BY <1>2, <1>7, <3>1 DEF Advances
  <2>2. \A cell \in cells : B'[cell] = swap(cell)
    <3> TAKE cell \in cells
    <3>1. PICK c \in 0 .. M - 1, d \in 0 .. N - 1 : cell = <<c, d>>
      BY <1>1, CellsAre
    <3>2. B'[<<c, d>>] = <<d, c>>
      BY <1>6, <2>1
    <3> QED
      BY <3>1, <3>2 DEF swap
  <2>3. cells' = cells
    BY <1>1, SameLoops
  <2>4. validate'
    BY <2>2, <2>3 DEF validate, correctTrans, swap
  <2> QED
    BY <1>1, <1>3, <1>7, <2>4 DEF Inv, Sized
<1>8. CASE after # Over
  <2>1. /\ at' = after /\ InLoops(after)
        /\ \A c \in 0 .. M - 1, d \in 0 .. N - 1 : Passed(after, c, d) => Passed(at, c, d) \/ names(m, c, d)
    BY <1>2, <1>3, <1>8 DEF Advances
  <2>2. /\ M' = M /\ N' = N /\ cells' = cells /\ InLoops(at)'
        /\ \A c \in 0 .. M - 1, d \in 0 .. N - 1 : Passed(at, c, d)' => Passed(at, c, d) \/ names(m, c, d)
    BY <1>1, <2>1, SameLoops
  <2>3. \A c \in 0 .. M - 1, d \in 0 .. N - 1 : Passed(at, c, d)' => B'[<<c, d>>] = <<d, c>>
    BY <1>6, <2>2
  <2>4. Transposing'
    BY <1>1, <1>5, <2>2, <2>3 DEF Transposing, InB, Sized
  <2> QED
    BY <1>1, <1>3, <1>8, <2>4 DEF Inv, Sized
<1> QED
  BY <1>7, <1>8

LEMMA InvFinish ==
  ASSUME Inv, Finish
  PROVE  Inv'
<1>1. /\ pc = "returned" /\ size' = size /\ func \in 1 .. 2
      /\ size \in Nat \X Nat /\ validate
  BY DEF Finish, Inv
<1>2. PICK r : results' = Append(results, r) /\ r.correct
  <2>1. PICK e : results' = Append(results, [correct |-> validate, hits |-> e.sim.hit,
                                             misses |-> e.sim.miss, evictions |-> e.sim.evict])
    BY DEF Finish
  <2>2. [correct |-> validate, hits |-> e.sim.hit, misses |-> e.sim.miss, evictions |-> e.sim.evict].correct
    BY <1>1
  <2> QED
    BY <2>1, <2>2
<1>3. PICK S : results \in Seq(S)
  BY DEF Inv
<1>4. results' \in Seq(S \cup {r}) /\ \A k \in DOMAIN results' : results'[k].correct
  <2>1. results \in Seq(S \cup {r}) /\ r \in S \cup {r}
    BY <1>3
  <2>2. Append(results, r) \in Seq(S \cup {r}) /\ Len(Append(results, r)) = Len(results) + 1
        /\ \A k \in 1 .. Len(results) + 1 :
             Append(results, r)[k] = IF k <= Len(results) THEN results[k] ELSE r
    BY <2>1, AppendProperties
  <2>3. Len(results) \in Nat /\ DOMAIN results = 1 .. Len(results)
    BY <2>1, LenProperties
  <2>4. DOMAIN results' = 1 .. Len(results) + 1
    BY <1>2, <2>2
  <2>5. \A k \in DOMAIN results : results[k].correct
    BY DEF Inv
  <2>6. ASSUME NEW k \in DOMAIN results' PROVE results'[k].correct
    <3>1. CASE k <= Len(results)
      <4>1. k \in DOMAIN results /\ results'[k] = results[k]
        BY <1>2, <2>2, <2>3, <2>4, <3>1
      <4> QED
        BY <2>5, <4>1
    <3>2. CASE ~(k <= Len(results))
      <4>1. results'[k] = r
        BY <1>2, <2>2, <2>4, <3>2
      <4> QED
        BY <1>2, <4>1
    <3> QED
      BY <3>1, <3>2
  <2> QED
    BY <1>2, <2>2, <2>6
<1>5. func' \in 1 .. 2 /\ pc' # "transpose" /\ pc' # "returned"
  <2>1. Len(func_list) = 2
    BY DEF func_list
  <2> QED
    BY <1>1, <2>1 DEF Finish
<1> QED
  BY <1>1, <1>4, <1>5 DEF Inv

LEMMA InvAlarm ==
  ASSUME Inv, sigalrm_handler
  PROVE  Inv'
<1>1. results' = <<>> /\ func' = func /\ func \in 1 .. 2
  BY DEF sigalrm_handler, Inv
<1>2. pc' # "main" /\ pc' # "transpose" /\ pc' # "returned"
  BY DEF sigalrm_handler
<1>3. (\E S : results' \in Seq(S)) /\ DOMAIN results' = {}
  BY <1>1
<1> QED
  BY <1>1, <1>2, <1>3 DEF Inv

LEMMA InvSame ==
  ASSUME Inv, UNCHANGED <<size, func, pc, at, B, results>>
  PROVE  Inv'
<1>1. /\ M' = M /\ N' = N /\ cells' = cells /\ (InLoops(at)' <=> InLoops(at))
      /\ \A c, d : Passed(at, c, d)' <=> Passed(at, c, d)
  <2>1. size' = size /\ func' = func /\ at' = at
    OBVIOUS
  <2>2. /\ M' = M /\ N' = N /\ cells' = cells /\ (InLoops(at)' <=> InLoops(at'))
        /\ \A c, d : Passed(at, c, d)' <=> Passed(at', c, d)
    BY <2>1, SameLoops
  <2> QED
    BY <2>1, <2>2
<1>2. Transposing => Transposing'
  BY <1>1 DEF Transposing, InB
<1>3. validate => validate'
  BY <1>1 DEF validate, correctTrans
<1> QED
  BY <1>2, <1>3 DEF Inv

-----------------------------------------------------------------------------
(* The theorems.                                                           *)

(* The inductive invariant holds.                                          *)
THEOREM CacheLabInvariant == Spec => []Inv
<1>1. Inv /\ [Next]_vars => Inv'
  <2> SUFFICES ASSUME Inv, [Next]_vars PROVE Inv'
    OBVIOUS
  <2>1. CASE Begin
    BY <2>1, InvBegin
  <2>2. CASE Iterate
    BY <2>2, InvIterate
  <2>3. CASE Finish
    BY <2>3, InvFinish
  <2>4. CASE sigalrm_handler
    BY <2>4, InvAlarm
  <2>5. CASE Read
    BY <2>5, InvSame DEF Read
  <2>6. CASE UNCHANGED vars
    BY <2>6, InvSame DEF vars
  <2> QED
    BY <2>1, <2>2, <2>3, <2>4, <2>5, <2>6 DEF Next
<1> QED
  BY <1>1, InvInit, PTL DEF Spec

(* transpose_submit and trans read inside A and write inside B, and what   *)
(* they have written is found to be the transpose, for every size of the   *)
(* matrix: at 32x32, at 64x64, and at any other.                           *)
THEOREM CacheLabTransposesCorrect == Spec => []TransposesCorrect
<1>1. Inv => TransposesCorrect
  <2> SUFFICES ASSUME Inv PROVE TransposesCorrect
    OBVIOUS
  <2> DEFINE m == moves[at.move]
  <2>1. ASSUME pc = "transpose"
        PROVE  /\ \A k \in DOMAIN m.from : m.from[k] \in (0 .. N - 1) \X (0 .. M - 1)
               /\ \A k \in DOMAIN m.to : m.to[k] \in cells
    <3>1. Sized /\ InLoops(at)
      BY <2>1 DEF Inv, Transposing, Sized
    <3>2. Legal(m)
      BY <3>1, MoveAdvances DEF Advances
    <3> HIDE DEF m
    <3>3. \A k \in DOMAIN m.to : m.to[k] \in cells
      BY <3>2 DEF Legal
    <3>4. ASSUME NEW k \in DOMAIN m.from
          PROVE  m.from[k] \in (0 .. N - 1) \X (0 .. M - 1)
      <4>1. m.to[k] \in cells /\ m.from[k] = swap(m.to[k])
        BY <3>2, <3>3 DEF Legal
      <4>2. PICK c \in 0 .. M - 1, d \in 0 .. N - 1 : m.to[k] = <<c, d>>
        BY <3>1, <4>1, CellsAre
      <4> QED
        BY <4>1, <4>2 DEF swap
    <3> QED
      BY <3>3, <3>4
  <2>2. \A k \in DOMAIN results : results[k].correct
    BY DEF Inv
  <2> QED
    BY <2>1, <2>2 DEF TransposesCorrect
<1> QED
  BY <1>1, CacheLabInvariant, PTL

-----------------------------------------------------------------------------
(* The simulator's numbers: powers of two, and shifts, which are divisions.*)

LEMMA Divided ==
  ASSUME NEW x \in Nat, NEW d \in Nat \ {0}
  PROVE  /\ x \div d \in Nat /\ x % d \in Nat /\ x % d < d
         /\ x = d * (x \div d) + (x % d)
  OBVIOUS

LEMMA Product ==
  ASSUME NEW d \in Nat \ {0}, NEW e \in Nat \ {0}
  PROVE  d * e \in Nat \ {0}
  OBVIOUS

LEMMA Monotone ==
  ASSUME NEW d \in Nat \ {0}, NEW m \in Nat, NEW n \in Nat
  PROVE  /\ m <= n => d * m <= d * n
         /\ d * m < d * n => m < n
  OBVIOUS

\* The quotient and the remainder are the only ones.
LEMMA DividedIs ==
  ASSUME NEW d \in Nat \ {0}, NEW q \in Nat, NEW r \in Nat, r < d
  PROVE  (d * q + r) \div d = q /\ (d * q + r) % d = r
  OBVIOUS

\* A division by a product is one division and then the other.
LEMMA DividedTwice ==
  ASSUME NEW x \in Nat, NEW d \in Nat \ {0}, NEW e \in Nat \ {0}
  PROVE  /\ (x \div d) \div e = x \div (d * e)
         /\ (x % (d * e)) \div d = (x \div d) % e
         /\ (x % (d * e)) % d = x % d
<1> DEFINE y == x \div d
           z == x % d
           u == y \div e
           v == y % e
           w == d * v + z
<1>1. y \in Nat /\ z \in Nat /\ z < d /\ x = d * y + z
  BY Divided
<1> HIDE DEF y, z
<1>2. u \in Nat /\ v \in Nat /\ v < e /\ y = e * u + v
  BY <1>1, Divided
<1> HIDE DEF u, v
<1>3. d * e \in Nat \ {0} /\ d * v \in Nat /\ e * u \in Nat
  BY <1>1, <1>2
<1>4. w \in Nat /\ w < d * e
  <2>1. d * v + d <= d * e
    <3>1. v + 1 \in Nat /\ v + 1 <= e
      BY <1>2
    <3>2. d * (v + 1) <= d * e
      BY <3>1, Monotone
    <3>3. d * (v + 1) = d * v + d
      BY <1>2
    <3> QED
      BY <3>2, <3>3
  <2> QED
    BY <1>1, <1>3, <2>1
<1>5. x = (d * e) * u + w
  <2>1. d * y = d * (e * u) + d * v
    BY <1>1, <1>2, <1>3
  <2>2. d * (e * u) = (d * e) * u
    BY <1>2
  <2> QED
    BY <1>1, <1>3, <2>1, <2>2
<1>6. w \div d = v /\ w % d = z
  BY <1>1, <1>2, DividedIs
<1> HIDE DEF w
<1>7. x \div (d * e) = u /\ x % (d * e) = w
  <2> DEFINE f == d * e
  <2>1. f \in Nat \ {0} /\ x = f * u + w /\ w < f
    BY <1>3, <1>4, <1>5
  <2> HIDE DEF f
  <2>2. x \div f = u /\ x % f = w
    BY <1>2, <1>4, <2>1, DividedIs
  <2> QED
    BY <2>2 DEF f
<1> QED
  BY <1>6, <1>7 DEF u, v, y, z

\* A factor is undone.
LEMMA Shifted ==
  ASSUME NEW x \in Nat, NEW d \in Nat \ {0}
  PROVE  (x * d) \div d = x
<1>1. x * d = d * x + 0
  OBVIOUS
<1>2. (d * x + 0) \div d = x
  BY DividedIs
<1> QED
  BY <1>1, <1>2

Powers(f, n) == f = [k \in 0 .. n |-> IF k = 0 THEN 1 ELSE 2 * f[k - 1]]

LEMMA PowersExist ==
  ASSUME NEW n \in Nat
  PROVE  \E f : Powers(f, n)
<1> DEFINE S == {m \in 0 .. n : \E f : Powers(f, m)}
<1>1. 0 \in S
  <2> DEFINE f == [k \in 0 .. 0 |-> 1]
  <2>1. Powers(f, 0)
    BY DEF Powers
  <2> QED
    BY <2>1
<1>2. ASSUME NEW m \in 0 .. n - 1, m \in S PROVE m + 1 \in S
  <2>1. PICK f : Powers(f, m)
    BY <1>2
  <2> DEFINE g == [k \in 0 .. m + 1 |-> IF k = m + 1 THEN 2 * f[m] ELSE f[k]]
  <2>2. ASSUME NEW k \in 0 .. m + 1
        PROVE  g[k] = IF k = 0 THEN 1 ELSE 2 * g[k - 1]
    <3>1. CASE k = m + 1
      BY <3>1
    <3>2. CASE k \in 0 .. m
      <4>1. f[k] = IF k = 0 THEN 1 ELSE 2 * f[k - 1]
        BY <2>1, <3>2 DEF Powers
      <4>2. g[k] = f[k] /\ (k # 0 => g[k - 1] = f[k - 1])
        BY <3>2
      <4> QED
        BY <4>1, <4>2
    <3> QED
      BY <3>1, <3>2
  <2>3. Powers(g, m + 1)
    BY <2>2 DEF Powers
  <2>4. m + 1 \in 0 .. n
    OBVIOUS
  <2> HIDE DEF g
  <2> QED
    BY <2>3, <2>4
<1>3. 0 .. n \subseteq S
  <2> HIDE DEF S
  <2> QED
    BY <1>1, <1>2, UpTo
<1>4. n \in S
  <2>1. n \in 0 .. n
    OBVIOUS
  <2> HIDE DEF S
  <2> QED
    BY <1>3, <2>1
<1> QED
  BY <1>4

(* pow2 is the powers of two.                                              *)
LEMMA Pow ==
  /\ pow2[0] = 1
  /\ \A n \in 0 .. WIDTH - 1 : pow2[n + 1] = 2 * pow2[n]
  /\ \A n \in 0 .. WIDTH : pow2[n] \in Nat \ {0}
<1>1. WIDTH \in Nat
  BY WidthAssumption
<1>2. \E f : Powers(f, WIDTH)
  BY <1>1, PowersExist
<1>3. Powers(pow2, WIDTH)
  <2>1. pow2 = CHOOSE f : Powers(f, WIDTH)
    BY DEF pow2, Powers
  <2> QED
    BY <1>2, <2>1
<1> DEFINE p == pow2
<1> HIDE DEF p
<1>4. p = [k \in 0 .. WIDTH |-> IF k = 0 THEN 1 ELSE 2 * p[k - 1]]
  BY <1>3 DEF Powers, p
<1>5. p[0] = 1
  BY <1>1, <1>4
<1>6. ASSUME NEW n \in 0 .. WIDTH - 1 PROVE p[n + 1] = 2 * p[n]
  <2> DEFINE k == n + 1
  <2>1. k \in 0 .. WIDTH /\ k # 0 /\ k - 1 = n
    BY <1>1
  <2> HIDE DEF k
  <2>2. p[k] = 2 * p[n]
    BY <1>4, <2>1
  <2> QED
    BY <2>2 DEF k
<1> DEFINE S == {n \in 0 .. WIDTH : p[n] \in Nat \ {0}}
<1>7. 0 .. WIDTH \subseteq S
  <2>1. 0 \in S
    BY <1>1, <1>5
  <2>2. ASSUME NEW n \in 0 .. WIDTH - 1, n \in S PROVE n + 1 \in S
    <3>1. p[n + 1] = 2 * p[n] /\ n + 1 \in 0 .. WIDTH
      BY <1>1, <1>6
    <3> QED
      BY <2>2, <3>1
  <2> HIDE DEF S
  <2> QED
    BY <1>1, <2>1, <2>2, UpTo
<1> QED
  BY <1>5, <1>6, <1>7 DEF p

LEMMA PowSum ==
  ASSUME NEW m \in Nat, NEW n \in Nat, m + n <= WIDTH
  PROVE  pow2[m + n] = pow2[m] * pow2[n]
<1>1. WIDTH \in Nat
  BY WidthAssumption
<1> DEFINE S == {k \in 0 .. n : pow2[m + k] = pow2[m] * pow2[k]}
<1>2. pow2[m] \in Nat \ {0} /\ pow2[0] = 1
  <2>1. m \in 0 .. WIDTH
    BY <1>1
  <2> QED
    BY <2>1, Pow
<1>3. 0 \in S
  BY <1>2
<1>4. ASSUME NEW k \in 0 .. n - 1, k \in S PROVE k + 1 \in S
  <2>1. m + k \in 0 .. WIDTH - 1 /\ k \in 0 .. WIDTH - 1 /\ k \in 0 .. WIDTH /\ m + (k + 1) = m + k + 1 /\ k + 1 \in 0 .. n
    BY <1>1
  <2>2. pow2[m + k + 1] = 2 * pow2[m + k] /\ pow2[k + 1] = 2 * pow2[k] /\ pow2[k] \in Nat
    BY <2>1, Pow
  <2>3. pow2[m + k] = pow2[m] * pow2[k]
    BY <1>4
  <2>4. 2 * (pow2[m] * pow2[k]) = pow2[m] * (2 * pow2[k])
    BY <1>2, <2>2
  <2> QED
    BY <2>1, <2>2, <2>3, <2>4
<1>5. 0 .. n \subseteq S
  <2> HIDE DEF S
  <2> QED
    BY <1>3, <1>4, UpTo
<1>6. n \in S
  <2>1. n \in 0 .. n
    OBVIOUS
  <2> HIDE DEF S
  <2> QED
    BY <1>5, <2>1
<1> QED
  BY <1>6

-----------------------------------------------------------------------------
(* csim: where an access goes.                                             *)
Geometry(c) == c.s \in Nat /\ c.b \in Nat /\ c.E \in Nat \ {0} /\ c.s + c.b < WIDTH
Data == {"L", "S", "M"} \X Nat
tag(c, tr, n) == cut(c, tr, n) \div pow2[c.s]

LEMMA Widths ==
  ASSUME NEW c, Geometry(c)
  PROVE  /\ pow2[c.b] \in Nat \ {0} /\ pow2[c.s] \in Nat \ {0} /\ pow2[WIDTH] \in Nat \ {0}
         /\ pow2[WIDTH - c.b] \in Nat \ {0} /\ pow2[WIDTH - c.b - c.s] \in Nat \ {0}
         /\ pow2[WIDTH] = pow2[c.b] * pow2[WIDTH - c.b]
         /\ pow2[WIDTH - c.b] = pow2[c.s] * pow2[WIDTH - c.b - c.s]
         /\ pow2[c.b + c.s] = pow2[c.b] * pow2[c.s]
<1> DEFINE s == c.s
           b == c.b
<1>1. WIDTH \in Nat /\ s \in Nat /\ b \in Nat /\ s + b < WIDTH
  BY WidthAssumption DEF Geometry
<1> HIDE DEF s, b
<1>2. /\ b \in 0 .. WIDTH /\ s \in 0 .. WIDTH /\ WIDTH \in 0 .. WIDTH
      /\ WIDTH - b \in 0 .. WIDTH /\ WIDTH - b - s \in 0 .. WIDTH
  BY <1>1
<1>3. /\ pow2[b] \in Nat \ {0} /\ pow2[s] \in Nat \ {0} /\ pow2[WIDTH] \in Nat \ {0}
      /\ pow2[WIDTH - b] \in Nat \ {0} /\ pow2[WIDTH - b - s] \in Nat \ {0}
  BY <1>2, Pow
<1> DEFINE k == WIDTH - b
           n == WIDTH - b - s
<1>4. k \in Nat /\ n \in Nat /\ b + k = WIDTH /\ s + n = k /\ k <= WIDTH
  BY <1>1
<1> HIDE DEF k, n
<1>5. pow2[b + k] = pow2[b] * pow2[k] /\ pow2[s + n] = pow2[s] * pow2[n]
  BY <1>1, <1>4, PowSum
<1>6. pow2[b + s] = pow2[b] * pow2[s]
  BY <1>1, PowSum
<1> QED
  BY <1>3, <1>4, <1>5, <1>6 DEF k, n, s, b

(* The shifts of GET_SET_INDEX leave the set, and GET_TAG the rest.        *)
LEMMA Indexed ==
  ASSUME NEW c, Geometry(c), c.s > 0, NEW x \in Nat
  PROVE  /\ GET_SET_INDEX(c, x) = (x \div pow2[c.b]) % pow2[c.s]
         /\ GET_TAG(c, x) = (x \div pow2[c.b]) \div pow2[c.s]
<1> DEFINE y == x \div pow2[c.b]
           n == c.b + t(c)
<1>1. WIDTH \in Nat /\ c.s \in Nat /\ c.b \in Nat /\ c.s + c.b < WIDTH
  BY WidthAssumption DEF Geometry
<1>2. c.b % WIDTH = c.b /\ (c.b + c.s) % WIDTH = c.b + c.s
  BY <1>1
<1>3. n % WIDTH = WIDTH - c.s
  <2> DEFINE r == WIDTH - c.s
  <2>1. n = WIDTH * 1 + r /\ r \in Nat /\ r < WIDTH /\ WIDTH \in Nat \ {0} /\ 1 \in Nat
    BY <1>1 DEF t
  <2> HIDE DEF r, n
  <2>2. (WIDTH * 1 + r) % WIDTH = r
    BY <2>1, DividedIs
  <2> QED
    BY <2>1, <2>2 DEF r
<1>4. y \in Nat /\ pow2[c.s] \in Nat \ {0} /\ pow2[c.b] \in Nat \ {0} /\ pow2[WIDTH - c.s] \in Nat \ {0}
  <2>1. WIDTH - c.s \in 0 .. WIDTH
    BY <1>1
  <2>2. pow2[WIDTH - c.s] \in Nat \ {0}
    BY <2>1, Pow
  <2> QED
    BY <2>2, Widths, Divided
<1>5. shr(x, c.b) = y
  BY <1>2 DEF shr
<1> HIDE DEF y, n
<1>6. shl(y, n) = (y % pow2[c.s]) * pow2[WIDTH - c.s]
  <2>1. WIDTH - (WIDTH - c.s) = c.s
    BY <1>1
  <2> QED
    BY <1>3, <2>1 DEF shl
<1>7. shr(shl(y, n), n) = y % pow2[c.s]
  <2>1. y % pow2[c.s] \in Nat
    BY <1>4, Divided
  <2> QED
    BY <1>3, <1>4, <1>6, <2>1, Shifted DEF shr
<1>8. GET_SET_INDEX(c, x) = y % pow2[c.s]
  BY <1>5, <1>7 DEF GET_SET_INDEX, n
<1>9. GET_TAG(c, x) = y \div pow2[c.s]
  <2>1. GET_TAG(c, x) = x \div (pow2[c.b] * pow2[c.s])
    BY <1>2, Widths DEF GET_TAG, shr
  <2>2. y \div pow2[c.s] = x \div (pow2[c.b] * pow2[c.s])
    BY <1>4, DividedTwice DEF y
  <2> QED
    BY <2>1, <2>2
<1> QED
  BY <1>8, <1>9 DEF y

(* Of access n, csim finds the reference's set, and tag and set are those  *)
(* of no other block.                                                      *)
LEMMA Located ==
  ASSUME NEW c, Geometry(c), c.s > 0, NEW tr \in Seq(Data), NEW n \in DOMAIN tr
  PROVE  /\ block(c, tr, n) \in Nat /\ tag(c, tr, n) \in Nat
         /\ set(c, tr, n) \in 0 .. pow2[c.s] - 1
         /\ cut(c, tr, n) = block(c, tr, n) % pow2[WIDTH - c.b]
         /\ cut(c, tr, n) = pow2[c.s] * tag(c, tr, n) + set(c, tr, n)
         /\ GET_SET_INDEX(c, tr[n][2] % pow2[WIDTH]) = set(c, tr, n)
         /\ GET_TAG(c, tr[n][2] % pow2[WIDTH]) = tag(c, tr, n)
<1> DEFINE x == tr[n][2]
           w == x % pow2[WIDTH]
<1>1. x \in Nat
  <2>1. tr[n] \in Data
    BY ElementOfSeq
  <2> QED
    BY <2>1 DEF Data
<1> DEFINE Y == pow2[c.b]
           S == pow2[c.s]
           R == pow2[WIDTH - c.b - c.s]
           Q == pow2[WIDTH - c.b]
<1>2. Y \in Nat \ {0} /\ S \in Nat \ {0} /\ R \in Nat \ {0} /\ Q \in Nat \ {0} /\ pow2[WIDTH] = Y * Q /\ Q = S * R /\ pow2[WIDTH] \in Nat \ {0}
  BY Widths
<1>3. block(c, tr, n) = x \div Y /\ cut(c, tr, n) = w \div Y /\ set(c, tr, n) = (x \div Y) % S /\ tag(c, tr, n) = (w \div Y) \div S
  BY DEF block, cut, set, tag
<1>4. w \in Nat
  BY <1>1, <1>2, Divided
<1>5. GET_SET_INDEX(c, w) = (w \div Y) % S /\ GET_TAG(c, w) = (w \div Y) \div S
  BY <1>4, Indexed
<1> HIDE DEF x, Y, S, R, Q
<1>6. w \div Y = (x \div Y) % Q /\ x \div Y \in Nat
  <2>1. (x % (Y * Q)) \div Y = (x \div Y) % Q
    <3>1. x \in Nat /\ Y \in Nat \ {0} /\ Q \in Nat \ {0}
      BY <1>1, <1>2
    <3> QED
      BY <3>1, DividedTwice
  <2>2. x \div Y \in Nat
    BY <1>1, <1>2, Divided
  <2>3. w = x % (Y * Q)
    BY <1>2
  <2> HIDE DEF w
  <2> QED
    BY <2>1, <2>2, <2>3
<1> DEFINE y == x \div Y
           z == w \div Y
<1>7. z = y % Q /\ y \in Nat
  BY <1>6
<1>8. z \in Nat
  BY <1>2, <1>4, Divided
<1> HIDE DEF w, y, z
<1>9. z % S = y % S
  <2>1. (y % (S * R)) % S = y % S
    <3>1. y \in Nat /\ S \in Nat \ {0} /\ R \in Nat \ {0}
      BY <1>2, <1>7
    <3> QED
      BY <3>1, DividedTwice
  <2> QED
    BY <1>2, <1>7, <2>1
<1>10. z \div S \in Nat /\ z % S \in Nat /\ z % S < S /\ z = S * (z \div S) + (z % S)
  BY <1>2, <1>8, Divided
<1> QED
  BY <1>2, <1>3, <1>5, <1>7, <1>9, <1>10 DEF x, w, y, z, Y, S, Q

LEMMA SameBlock ==
  ASSUME NEW c, Geometry(c), c.s > 0, NEW tr \in Seq(Data), ~aliased(c, tr),
         NEW m \in DOMAIN tr, NEW n \in DOMAIN tr
  PROVE  block(c, tr, m) = block(c, tr, n)
         <=> set(c, tr, m) = set(c, tr, n) /\ tag(c, tr, m) = tag(c, tr, n)
<1>1. block(c, tr, m) = block(c, tr, n) <=> cut(c, tr, m) = cut(c, tr, n)
  <2>1. cut(c, tr, m) = cut(c, tr, n) => block(c, tr, m) = block(c, tr, n)
    BY DEF aliased
  <2>2. /\ cut(c, tr, m) = block(c, tr, m) % pow2[WIDTH - c.b]
        /\ cut(c, tr, n) = block(c, tr, n) % pow2[WIDTH - c.b]
    BY Located
  <2> QED
    BY <2>1, <2>2
<1>2. block(c, tr, m) = block(c, tr, n) => set(c, tr, m) = set(c, tr, n)
  BY DEF set
<1>3. cut(c, tr, m) = cut(c, tr, n) => tag(c, tr, m) = tag(c, tr, n)
  BY DEF tag
<1>4. set(c, tr, m) = set(c, tr, n) /\ tag(c, tr, m) = tag(c, tr, n) => cut(c, tr, m) = cut(c, tr, n)
  BY Located
<1> QED
  BY <1>1, <1>2, <1>3, <1>4

-----------------------------------------------------------------------------
(* csim: what the cache holds after the first n accesses of tr.            *)
Line == [is_valid : BOOLEAN, tag : Nat, lru_count : Nat]
sets(c) == 0 .. pow2[c.s] - 1
lines(c, i) == i * c.E .. (i * c.E + c.E - 1)
used(c, l) == c.cache[l].lru_count + 1                \* the access that used the line last
latest(c, tr, n, k) == \A m \in k + 1 .. n : block(c, tr, m) # block(c, tr, k)

\* A valid line holds the block of its last use, which was not used since.
Holds(c, tr, n, l, i) ==
  /\ used(c, l) \in 1 .. n /\ set(c, tr, used(c, l)) = i /\ tag(c, tr, used(c, l)) = c.cache[l].tag
  /\ latest(c, tr, n, used(c, l))
valid(c, i) == {l \in lines(c, i) : c.cache[l].is_valid}
holders(c, i, k) == {l \in valid(c, i) : used(c, l) = k}

\* The blocks of the set that no line holds are those used before all that
\* the lines hold, and no two lines hold one block.
Recent(c, tr, n, i) ==
  /\ \A l \in valid(c, i) : Holds(c, tr, n, l, i)
  /\ \A l, m \in valid(c, i) : used(c, l) = used(c, m) => l = m
  /\ \A k \in 1 .. n : set(c, tr, k) = i /\ latest(c, tr, n, k) =>
        holders(c, i, k) # {} \/ (valid(c, i) = lines(c, i) /\ \A l \in lines(c, i) : used(c, l) > k)

LEMMA Greatest ==
  ASSUME NEW n \in Nat, NEW S \in SUBSET (1 .. n), S # {}
  PROVE  Max(S) \in S /\ \A y \in S : y <= Max(S)
<1> DEFINE D == {n - k : k \in S}
<1>1. PICK d \in D : \A e \in D : d <= e
  <2>1. D \in SUBSET Nat /\ D # {}
    <3>1. PICK k \in S : TRUE
      OBVIOUS
    <3>2. n - k \in D
      OBVIOUS
    <3>3. \A m \in S : n - m \in Nat
      OBVIOUS
    <3> QED
      BY <3>2, <3>3
  <2> HIDE DEF D
  <2> QED
    BY <2>1, LeastNat
<1>2. PICK x \in S : d = n - x
  OBVIOUS
<1>3. \A y \in S : x >= y
  <2> TAKE y \in S
  <2>1. d <= n - y /\ x \in Nat /\ y \in Nat
    BY <1>1
  <2> QED
    BY <1>2, <2>1
<1>4. Max(S) \in S /\ \A y \in S : Max(S) >= y
  BY <1>3 DEF Max
<1>5. \A y \in S : y \in Nat
  OBVIOUS
<1> QED
  BY <1>4, <1>5

LEMMA Smallest ==
  ASSUME NEW S \in SUBSET Nat, S # {}
  PROVE  Min(S) \in S /\ \A y \in S : Min(S) <= y
<1>1. \E x \in S : \A y \in S : x <= y
  BY LeastNat
<1> QED
  BY <1>1 DEF Min

(* The lines of a set are E lines of the cache, and in no other set.       *)
LEMMA Lines ==
  ASSUME NEW c, Geometry(c), NEW i \in sets(c)
  PROVE  /\ lines(c, i) \subseteq 0 .. pow2[c.s] * c.E - 1
         /\ lines(c, i) \subseteq Nat /\ lines(c, i) # {}
         /\ IsFiniteSet(lines(c, i)) /\ Cardinality(lines(c, i)) = c.E
         /\ \A j \in sets(c) : j # i => lines(c, i) \cap lines(c, j) = {}
<1> DEFINE E == c.E
           S == pow2[c.s]
<1>1. E \in Nat \ {0} /\ S \in Nat \ {0} /\ i \in Nat /\ i < S
  BY Widths DEF Geometry, sets
<1>2. i * E \in Nat /\ lines(c, i) = i * E .. (i * E + E - 1)
  BY <1>1 DEF lines
<1>3. ASSUME NEW m \in Nat, NEW n \in Nat, m < n
      PROVE  m * E + E <= n * E /\ m * E \in Nat /\ n * E \in Nat
  <2>1. m + 1 \in Nat /\ m + 1 <= n
    BY <1>3
  <2>2. E * (m + 1) <= E * n
    BY <1>1, <2>1, Monotone
  <2>3. E * (m + 1) = m * E + E /\ E * n = n * E /\ m * E \in Nat /\ n * E \in Nat
    BY <1>1
  <2> QED
    BY <2>2, <2>3
<1>4. i * E + E <= S * E
  BY <1>1, <1>3
<1>5. ASSUME NEW j \in sets(c), j # i PROVE lines(c, i) \cap lines(c, j) = {}
  <2>1. j \in Nat /\ lines(c, j) = j * E .. (j * E + E - 1)
    BY <1>1 DEF sets, lines
  <2>2. i < j \/ j < i
    BY <1>1, <1>5, <2>1
  <2>3. i * E + E <= j * E \/ j * E + E <= i * E
    BY <1>1, <1>3, <2>1, <2>2
  <2>4. j * E \in Nat
    BY <1>1, <2>1
  <2> DEFINE a == i * E
             b == j * E
  <2>5. a \in Nat /\ b \in Nat /\ E \in Nat /\ (a + E <= b \/ b + E <= a)
    BY <1>1, <1>2, <2>3, <2>4
  <2>6. lines(c, i) = a .. (a + E - 1) /\ lines(c, j) = b .. (b + E - 1)
    BY <1>2, <2>1
  <2> HIDE DEF a, b, E
  <2> QED
    BY <2>5, <2>6
<1> DEFINE a == i * E
           z == S * E
<1>6. a \in Nat /\ z \in Nat /\ a + E <= z /\ lines(c, i) = a .. (a + E - 1) /\ z = pow2[c.s] * c.E
  BY <1>1, <1>2, <1>4
<1> HIDE DEF a, z, E
<1>7. lines(c, i) \subseteq 0 .. z - 1 /\ lines(c, i) \subseteq Nat /\ a \in lines(c, i)
  BY <1>1, <1>6
<1>8. IsFiniteSet(lines(c, i)) /\ Cardinality(lines(c, i)) = E
  <2>1. a \in Int /\ a + E - 1 \in Int /\ ~(a > a + E - 1) /\ (a + E - 1) - a + 1 = E
    BY <1>1, <1>6
  <2> DEFINE y == a + E - 1
  <2> HIDE DEF y
  <2>2. IsFiniteSet(a .. y) /\ Cardinality(a .. y) = IF a > y THEN 0 ELSE y - a + 1
    BY <2>1, FS_Interval DEF y
  <2> QED
    BY <1>6, <2>1, <2>2 DEF y
<1> QED
  BY <1>5, <1>6, <1>7, <1>8 DEF E

-----------------------------------------------------------------------------
(* csim: access n finds its block in the cache exactly when the reference  *)
(* does, and no empty line exactly when the reference evicts.              *)
Reads(c, tr, n) == Geometry(c) /\ c.s > 0 /\ tr \in Seq(Data) /\ ~aliased(c, tr) /\ n \in DOMAIN tr

rivals(c, tr, from, n) ==
  { block(c, tr, k) : k \in { m \in from .. n - 1 : set(c, tr, m) = set(c, tr, n) } } \ {block(c, tr, n)}
since(c, tr, from, n) ==
  {l \in valid(c, set(c, tr, n)) : used(c, l) >= from /\ c.cache[l].tag # tag(c, tr, n)}
found(c, tr, n) == {l \in valid(c, set(c, tr, n)) : c.cache[l].tag = tag(c, tr, n)}

LEMMA ReadsIs ==
  ASSUME NEW c, NEW tr, NEW n, Reads(c, tr, n)
  PROVE  /\ Len(tr) \in Nat /\ DOMAIN tr = 1 .. Len(tr) /\ n \in 1 .. Len(tr)
         /\ set(c, tr, n) \in sets(c)
         /\ \A k \in 1 .. n : k \in DOMAIN tr /\ block(c, tr, k) \in Nat
  BY Located, LenProperties DEF Reads, sets

\* Of a valid line: the block of its last use, and whether it is n's.
LEMMA LineOf ==
  ASSUME NEW c, NEW tr, NEW n, Reads(c, tr, n), Recent(c, tr, n - 1, set(c, tr, n)),
         NEW l \in valid(c, set(c, tr, n))
  PROVE  /\ l \in lines(c, set(c, tr, n)) /\ used(c, l) \in 1 .. n - 1
         /\ set(c, tr, used(c, l)) = set(c, tr, n)
         /\ latest(c, tr, n - 1, used(c, l))
         /\ c.cache[l].tag = tag(c, tr, n) <=> block(c, tr, used(c, l)) = block(c, tr, n)
<1>1. /\ used(c, l) \in 1 .. n - 1 /\ set(c, tr, used(c, l)) = set(c, tr, n)
      /\ tag(c, tr, used(c, l)) = c.cache[l].tag
      /\ latest(c, tr, n - 1, used(c, l))
  BY DEF Recent, Holds
<1>2. used(c, l) \in DOMAIN tr /\ n \in DOMAIN tr
  BY <1>1, ReadsIs
<1>3. block(c, tr, used(c, l)) = block(c, tr, n)
      <=> set(c, tr, used(c, l)) = set(c, tr, n) /\ tag(c, tr, used(c, l)) = tag(c, tr, n)
  <2> DEFINE k == used(c, l)
  <2>1. k \in DOMAIN tr
    BY <1>2
  <2> HIDE DEF k
  <2>2. block(c, tr, k) = block(c, tr, n) <=> set(c, tr, k) = set(c, tr, n) /\ tag(c, tr, k) = tag(c, tr, n)
    BY <1>2, <2>1, SameBlock DEF Reads
  <2> QED
    BY <2>2 DEF k
<1> QED
  BY <1>1, <1>3 DEF valid

LEMMA RivalsFinite ==
  ASSUME NEW c, NEW tr, NEW n, Reads(c, tr, n), NEW from \in Nat
  PROVE  IsFiniteSet(rivals(c, tr, from, n)) /\ Cardinality(rivals(c, tr, from, n)) \in Nat
<1> DEFINE R == rivals(c, tr, from, n)
           f == [x \in R |-> CHOOSE k \in from .. n - 1 : block(c, tr, k) = x]
<1>1. \A x \in R : f[x] \in from .. n - 1 /\ block(c, tr, f[x]) = x
  BY DEF rivals
<1> HIDE DEF R
<1>2. f \in Injection(R, from .. n - 1)
  BY <1>1 DEF Injection, IsInjective
<1>3. IsFiniteSet(from .. n - 1)
  <2>1. from \in Int /\ n - 1 \in Int
    BY ReadsIs
  <2> QED
    BY <2>1, FS_Interval
<1>4. IsFiniteSet(R)
  BY <1>2, <1>3, FS_Injection
<1> QED
  BY <1>4, FS_CardinalityType DEF R

LEMMA SinceFinite ==
  ASSUME NEW c, NEW tr, NEW n, Reads(c, tr, n), NEW from \in Nat
  PROVE  /\ since(c, tr, from, n) \subseteq lines(c, set(c, tr, n))
         /\ IsFiniteSet(since(c, tr, from, n)) /\ Cardinality(since(c, tr, from, n)) \in Nat
         /\ IsFiniteSet(lines(c, set(c, tr, n))) /\ Cardinality(lines(c, set(c, tr, n))) = c.E /\ c.E \in Nat \ {0}
         /\ \A l \in lines(c, set(c, tr, n)) \ since(c, tr, from, n) : Cardinality(since(c, tr, from, n)) < c.E
<1> DEFINE L == lines(c, set(c, tr, n))
           W == since(c, tr, from, n)
<1>1. IsFiniteSet(L) /\ Cardinality(L) = c.E /\ c.E \in Nat \ {0}
  BY ReadsIs, Lines DEF Reads, Geometry
<1>2. W \subseteq L
  BY DEF since, valid
<1> HIDE DEF L, W
<1>3. IsFiniteSet(W) /\ Cardinality(W) \in Nat
  BY <1>1, <1>2, FS_Subset, FS_CardinalityType
<1>4. ASSUME NEW l \in L \ W PROVE Cardinality(W) < c.E
  <2>1. W # L /\ W \in SUBSET L
    BY <1>2, <1>4
  <2>2. Cardinality(W) <= Cardinality(L) /\ (Cardinality(L) = Cardinality(W) => L = W)
    BY <1>1, <2>1, FS_Subset
  <2> QED
    BY <1>1, <1>3, <2>1, <2>2
<1> QED
  BY <1>1, <1>2, <1>3, <1>4 DEF L, W

\* The lines that hold other blocks used from `from' on are no more than
\* these blocks,
LEMMA LinesBelow ==
  ASSUME NEW c, NEW tr, NEW n, Reads(c, tr, n), Recent(c, tr, n - 1, set(c, tr, n)), NEW from \in Nat
  PROVE  Cardinality(since(c, tr, from, n)) <= others(c, tr, from, n)
<1> DEFINE W == since(c, tr, from, n)
           R == rivals(c, tr, from, n)
           f == [l \in W |-> block(c, tr, used(c, l))]
<1>1. ASSUME NEW l \in W PROVE f[l] \in R
  <2>1. l \in valid(c, set(c, tr, n)) /\ used(c, l) >= from /\ c.cache[l].tag # tag(c, tr, n)
    BY DEF since
  <2>2. used(c, l) \in 1 .. n - 1 /\ set(c, tr, used(c, l)) = set(c, tr, n) /\ block(c, tr, used(c, l)) # block(c, tr, n)
    BY <2>1, LineOf
  <2>3. used(c, l) \in from .. n - 1
    BY <2>1, <2>2
  <2> QED
    BY <2>2, <2>3 DEF rivals
<1>2. ASSUME NEW l \in W, NEW m \in W, f[l] = f[m] PROVE l = m
  <2>1. l \in valid(c, set(c, tr, n)) /\ m \in valid(c, set(c, tr, n)) /\ block(c, tr, used(c, l)) = block(c, tr, used(c, m))
    BY <1>2 DEF since
  <2>2. used(c, l) \in 1 .. n - 1 /\ latest(c, tr, n - 1, used(c, l))
    BY <2>1, LineOf
  <2>3. used(c, m) \in 1 .. n - 1 /\ latest(c, tr, n - 1, used(c, m))
    BY <2>1, LineOf
  <2>4. used(c, l) = used(c, m)
    BY <2>1, <2>2, <2>3 DEF latest
  <2> QED
    BY <2>1, <2>4 DEF Recent
<1> HIDE DEF W, R
<1>3. f \in Injection(W, R)
  <2> HIDE DEF f
  <2>1. f \in [W -> R] /\ DOMAIN f = W
    BY <1>1 DEF f
  <2> QED
    BY <1>2, <2>1 DEF Injection, IsInjective
<1>4. Cardinality(W) <= Cardinality(R)
  BY <1>3, RivalsFinite, FS_Injection DEF R
<1> QED
  BY <1>4 DEF others, rivals, R, W

\* and no fewer, when a line holds each of them.
LEMMA BlocksBelow ==
  ASSUME NEW c, NEW tr, NEW n, Reads(c, tr, n), Recent(c, tr, n - 1, set(c, tr, n)), NEW from \in Nat \ {0},
         \A k \in from .. n - 1 :
            set(c, tr, k) = set(c, tr, n) /\ latest(c, tr, n - 1, k) /\ block(c, tr, k) # block(c, tr, n)
            => holders(c, set(c, tr, n), k) # {}
  PROVE  others(c, tr, from, n) <= Cardinality(since(c, tr, from, n))
<1> DEFINE W == since(c, tr, from, n)
           R == rivals(c, tr, from, n)
           f == [x \in R |-> CHOOSE l \in W : block(c, tr, used(c, l)) = x]
<1>1. ASSUME NEW x \in R PROVE \E l \in W : block(c, tr, used(c, l)) = x
  <2>1. PICK k \in from .. n - 1 : set(c, tr, k) = set(c, tr, n) /\ block(c, tr, k) = x /\ x # block(c, tr, n)
    BY DEF rivals
  <2> DEFINE P == {m \in from .. n - 1 : block(c, tr, m) = x}
             p == Max(P)
  <2>2. n - 1 \in Nat /\ n \in Nat
    BY ReadsIs
  <2>3. P \in SUBSET (1 .. n - 1) /\ k \in P
    BY <2>1, <2>2
  <2> HIDE DEF P
  <2>4. p \in P /\ \A m \in P : m <= p
    BY <2>2, <2>3, Greatest
  <2>5. p \in from .. n - 1 /\ block(c, tr, p) = x
    BY <2>4 DEF P
  <2> HIDE DEF p
  <2>6. latest(c, tr, n - 1, p)
    <3> SUFFICES ASSUME NEW m \in p + 1 .. n - 1, block(c, tr, m) = block(c, tr, p) PROVE FALSE
      BY DEF latest
    <3>1. m \in from .. n - 1 /\ p \in Nat /\ m > p /\ m \in Nat
      BY <2>2, <2>5
    <3>2. m \in P
      BY <2>5, <3>1 DEF P
    <3> QED
      BY <2>4, <3>1, <3>2
  <2>7. set(c, tr, p) = set(c, tr, n)
    BY <2>1, <2>5 DEF set
  <2>8. PICK l \in valid(c, set(c, tr, n)) : used(c, l) = p
    BY <2>1, <2>5, <2>6, <2>7 DEF holders
  <2>9. c.cache[l].tag # tag(c, tr, n)
    BY <2>1, <2>5, <2>8, LineOf
  <2>10. l \in W
    BY <2>2, <2>5, <2>8, <2>9 DEF since
  <2> QED
    BY <2>5, <2>8, <2>10
<1> HIDE DEF W, R
<1>2. \A x \in R : f[x] \in W /\ block(c, tr, used(c, f[x])) = x
  BY <1>1
<1>3. f \in Injection(R, W)
  <2> HIDE DEF f
  <2>1. f \in [R -> W] /\ DOMAIN f = R
    <3>1. f = [x \in R |-> f[x]]
      BY DEF f
    <3> QED
      BY <1>2, <3>1
  <2> QED
    BY <1>2, <2>1 DEF Injection, IsInjective
<1>4. Cardinality(R) <= Cardinality(W)
  BY <1>3, SinceFinite, FS_Injection DEF W
<1> QED
  BY <1>4 DEF others, rivals, R, W

LEMMA FoundHits ==
  ASSUME NEW c, NEW tr, NEW n, Reads(c, tr, n), Recent(c, tr, n - 1, set(c, tr, n))
  PROVE  found(c, tr, n) # {} <=> hits(c, tr, n)
<1> DEFINE P == before(c, tr, n)
           p == Max(P)
           L == lines(c, set(c, tr, n))
<1>1. n - 1 \in Nat /\ n \in Nat
  BY ReadsIs
<1>2. P \in SUBSET (1 .. n - 1)
  BY DEF before
<1>3. P # {} => p \in P /\ \A m \in P : m <= p
  BY <1>1, <1>2, Greatest
<1> HIDE DEF p
<1>4. \A m \in P : m \in 1 .. n - 1 /\ block(c, tr, m) = block(c, tr, n)
  BY DEF before
<1>5. \A m \in 1 .. n - 1 : block(c, tr, m) = block(c, tr, n) => m \in P
  BY DEF before
<1> HIDE DEF P
<1>6. P # {} => others(c, tr, p, n) \in Nat /\ p \in Nat \ {0} /\ p \in 1 .. n - 1
  <2> SUFFICES ASSUME P # {} PROVE others(c, tr, p, n) \in Nat /\ p \in Nat \ {0} /\ p \in 1 .. n - 1
    OBVIOUS
  <2>1. p \in Nat \ {0} /\ p \in 1 .. n - 1
    BY <1>1, <1>3, <1>4
  <2>2. others(c, tr, p, n) \in Nat
    BY <2>1, RivalsFinite DEF others, rivals
  <2> QED
    BY <2>1, <2>2
<1>7. ASSUME NEW l \in found(c, tr, n) PROVE hits(c, tr, n)
  <2>1. l \in valid(c, set(c, tr, n)) /\ c.cache[l].tag = tag(c, tr, n)
    BY DEF found
  <2>2. /\ l \in L /\ used(c, l) \in 1 .. n - 1 /\ latest(c, tr, n - 1, used(c, l))
        /\ block(c, tr, used(c, l)) = block(c, tr, n)
    BY <2>1, LineOf
  <2>3. used(c, l) \in P
    BY <1>5, <2>2
  <2>4. used(c, l) = p
    <3>1. p \in P /\ used(c, l) <= p /\ p \in 1 .. n - 1
      BY <1>3, <1>6, <2>3
    <3>2. p \notin used(c, l) + 1 .. n - 1
      BY <1>4, <2>2, <3>1 DEF latest
    <3> QED
      BY <1>1, <2>2, <3>1, <3>2
  <2>5. ASSUME NEW k \in p .. n - 1, set(c, tr, k) = set(c, tr, n), latest(c, tr, n - 1, k), block(c, tr, k) # block(c, tr, n)
        PROVE  holders(c, set(c, tr, n), k) # {}
    <3>1. k # p /\ k \in 1 .. n - 1 /\ ~(used(c, l) > k)
      BY <1>1, <1>6, <2>2, <2>3, <2>4, <2>5
    <3> QED
      BY <2>2, <2>5, <3>1 DEF Recent
  <2>6. p \in Nat \ {0} /\ others(c, tr, p, n) \in Nat
    BY <1>6, <2>3
  <2>7. others(c, tr, p, n) <= Cardinality(since(c, tr, p, n))
    BY <2>5, <2>6, BlocksBelow
  <2>8. l \in L \ since(c, tr, p, n)
    BY <2>1, <2>2 DEF since
  <2>9. Cardinality(since(c, tr, p, n)) < c.E /\ Cardinality(since(c, tr, p, n)) \in Nat /\ c.E \in Nat
    BY <2>6, <2>8, SinceFinite
  <2> QED
    BY <2>3, <2>6, <2>7, <2>9 DEF hits, P, p
<1>8. ASSUME found(c, tr, n) = {}, P # {} PROVE ~(others(c, tr, p, n) < c.E)
  <2>1. p \in P /\ p \in 1 .. n - 1 /\ block(c, tr, p) = block(c, tr, n) /\ p \in Nat
    BY <1>3, <1>4, <1>6, <1>8
  <2>2. set(c, tr, p) = set(c, tr, n)
    BY <2>1 DEF set
  <2>3. latest(c, tr, n - 1, p)
    <3> SUFFICES ASSUME NEW m \in p + 1 .. n - 1, block(c, tr, m) = block(c, tr, p) PROVE FALSE
      BY DEF latest
    <3>1. m \in 1 .. n - 1 /\ m > p
      BY <1>1, <2>1
    <3>2. m \in P
      BY <1>5, <2>1, <3>1
    <3> QED
      BY <1>1, <1>3, <2>1, <3>1, <3>2
  <2>4. holders(c, set(c, tr, n), p) = {}
    <3> SUFFICES ASSUME NEW l \in valid(c, set(c, tr, n)), used(c, l) = p PROVE FALSE
      BY DEF holders
    <3>1. c.cache[l].tag = tag(c, tr, n)
      BY <2>1, LineOf
    <3> QED
      BY <1>8, <3>1 DEF found
  <2>5. valid(c, set(c, tr, n)) = L /\ \A l \in L : used(c, l) > p
    BY <2>1, <2>2, <2>3, <2>4 DEF Recent
  <2>6. since(c, tr, p, n) = L
    <3>1. \A l \in L : l \in since(c, tr, p, n)
      <4> TAKE l \in L
      <4>1. l \in valid(c, set(c, tr, n)) /\ used(c, l) > p /\ c.cache[l].tag # tag(c, tr, n)
        BY <1>8, <2>5 DEF found
      <4>2. used(c, l) \in 1 .. n - 1
        BY <4>1, LineOf
      <4> QED
        BY <2>1, <4>1, <4>2 DEF since
    <3> QED
      BY <2>1, <3>1, SinceFinite
  <2>7. Cardinality(L) <= others(c, tr, p, n)
    BY <2>1, <2>6, LinesBelow
  <2>8. Cardinality(L) = c.E /\ c.E \in Nat
    BY <2>1, SinceFinite
  <2> QED
    BY <1>6, <1>8, <2>7, <2>8
<1> QED
  BY <1>7, <1>8 DEF hits, P, p

LEMMA NoneEmptyEvicts ==
  ASSUME NEW c, NEW tr, NEW n, Reads(c, tr, n), Recent(c, tr, n - 1, set(c, tr, n)), found(c, tr, n) = {}
  PROVE  valid(c, set(c, tr, n)) = lines(c, set(c, tr, n)) <=> evicts(c, tr, n)
<1> DEFINE L == lines(c, set(c, tr, n))
           V == valid(c, set(c, tr, n))
           W == since(c, tr, 1, n)
<1>1. 1 \in Nat /\ 1 \in Nat \ {0} /\ n - 1 \in Nat
  BY ReadsIs
<1>2. W = V
  <2>1. \A l \in V : l \in W
    <3> TAKE l \in V
    <3>1. used(c, l) \in 1 .. n - 1 /\ c.cache[l].tag # tag(c, tr, n)
      BY LineOf DEF found
    <3> QED
      BY <1>1, <3>1 DEF since
  <2> QED
    BY <2>1 DEF since
<1>3. Cardinality(W) <= others(c, tr, 1, n)
  BY <1>1, LinesBelow
<1>4. Cardinality(L) = c.E /\ c.E \in Nat /\ Cardinality(W) \in Nat /\ W \subseteq L
  BY <1>1, SinceFinite
<1>5. others(c, tr, 1, n) \in Nat
  BY <1>1, RivalsFinite DEF others, rivals
<1>6. V = L => others(c, tr, 1, n) >= c.E
  BY <1>2, <1>3, <1>4, <1>5
<1>7. ASSUME V # L PROVE others(c, tr, 1, n) < c.E
  <2>1. ASSUME NEW k \in 1 .. n - 1, set(c, tr, k) = set(c, tr, n), latest(c, tr, n - 1, k)
        PROVE  holders(c, set(c, tr, n), k) # {}
    BY <1>7, <2>1 DEF Recent
  <2>2. others(c, tr, 1, n) <= Cardinality(W)
    BY <1>1, <2>1, BlocksBelow
  <2>3. PICK l \in L : l \notin W
    BY <1>2, <1>4, <1>7
  <2>4. Cardinality(W) < c.E
    BY <1>1, <2>3, SinceFinite
  <2> QED
    BY <1>4, <1>5, <2>2, <2>4
<1>8. ~hits(c, tr, n)
  BY FoundHits
<1> QED
  BY <1>4, <1>5, <1>6, <1>7, <1>8 DEF evicts

-----------------------------------------------------------------------------
(* csim: what get_cache does with an access.                               *)
Fields == {"s", "E", "b", "cache", "op_counter", "hit", "miss", "evict", "defined"}
Simulator(c) ==
  /\ DOMAIN c = Fields
  /\ DOMAIN c.cache = 0 .. pow2[c.s] * c.E - 1 /\ \A l \in DOMAIN c.cache : c.cache[l] \in Line
  /\ c.op_counter \in Nat /\ c.hit \in Nat /\ c.miss \in Nat /\ c.evict \in Nat
SameShape(d, c) == d.s = c.s /\ d.E = c.E /\ d.b = c.b

\* A line takes the block of access n: the one that has it, an empty one, or
\* the one used least recently.
Takes(c, d, tr, n, l) ==
  /\ SameShape(d, c) /\ d.op_counter = c.op_counter /\ d.defined = c.defined
  /\ DOMAIN d.cache = DOMAIN c.cache
  /\ \A m \in DOMAIN c.cache : m # l => d.cache[m] = c.cache[m]
  /\ d.cache[l].is_valid /\ d.cache[l].tag = tag(c, tr, n) /\ d.cache[l].lru_count = n - 1
Chosen(c, tr, n, l) ==
  \/ l \in found(c, tr, n)
  \/ found(c, tr, n) = {} /\ l \notin valid(c, set(c, tr, n))
  \/ /\ found(c, tr, n) = {} /\ valid(c, set(c, tr, n)) = lines(c, set(c, tr, n))
     /\ \A m \in lines(c, set(c, tr, n)) : used(c, l) <= used(c, m)

\* The counts add what the access was.
Counts(c, d, tr, n) ==
  /\ found(c, tr, n) # {} => d.hit = c.hit + 1 /\ d.miss = c.miss /\ d.evict = c.evict
  /\ found(c, tr, n) = {} =>
       /\ d.hit = c.hit /\ d.miss = c.miss + 1
       /\ d.evict = IF valid(c, set(c, tr, n)) = lines(c, set(c, tr, n)) THEN c.evict + 1 ELSE c.evict

LEMMA Oldest ==
  ASSUME NEW c, NEW S, S # {}, S \subseteq DOMAIN c.cache, S \subseteq Nat,
         \A l \in S : c.cache[l].lru_count \in Nat
  PROVE  lru_idx(c, S) \in S /\ \A m \in S : c.cache[lru_idx(c, S)].lru_count <= c.cache[m].lru_count
<1> DEFINE A == { c.cache[l].lru_count : l \in S }
           oldest == Min(A)
           I == { l \in S : c.cache[l].lru_count = oldest }
<1>1. oldest \in A /\ \A a \in A : oldest <= a
  <2>1. A \in SUBSET Nat /\ A # {}
    <3>1. PICK l \in S : TRUE
      OBVIOUS
    <3>2. c.cache[l].lru_count \in A
      OBVIOUS
    <3> QED
      BY <3>2
  <2> HIDE DEF A
  <2> QED
    BY <2>1, Smallest
<1>2. Min(I) \in I
  <2>1. I \in SUBSET Nat
    OBVIOUS
  <2>2. I # {}
    BY <1>1
  <2> HIDE DEF I
  <2> QED
    BY <2>1, <2>2, Smallest
<1>3. lru_idx(c, S) = Min(I)
  BY DEF lru_idx
<1> HIDE DEF oldest
<1>4. \A m \in S : oldest <= c.cache[m].lru_count
  BY <1>1
<1> QED
  BY <1>2, <1>3, <1>4

\* d is c but for line l and the counts.
Becomes(c, d, l, r, h, m, e) ==
  /\ SameShape(d, c) /\ d.op_counter = c.op_counter /\ d.defined = c.defined /\ DOMAIN d = Fields
  /\ d.cache = [c.cache EXCEPT ![l] = r] /\ d.hit = h /\ d.miss = m /\ d.evict = e

LEMMA BecomesIs ==
  ASSUME NEW c, Simulator(c), NEW d, NEW l \in DOMAIN c.cache, NEW r \in Line, NEW h \in Nat, NEW m \in Nat, NEW e \in Nat,
         Becomes(c, d, l, r, h, m, e), NEW tr, NEW n,
         r.is_valid, r.tag = tag(c, tr, n), r.lru_count = n - 1
  PROVE  Takes(c, d, tr, n, l) /\ Simulator(d)
<1>1. /\ DOMAIN d.cache = DOMAIN c.cache /\ d.cache[l] = r
      /\ \A k \in DOMAIN c.cache : k # l => d.cache[k] = c.cache[k]
  BY DEF Becomes
<1>2. Takes(c, d, tr, n, l)
  BY <1>1 DEF Becomes, Takes
<1>3. \A k \in DOMAIN d.cache : d.cache[k] \in Line
  BY <1>1 DEF Simulator
<1>4. DOMAIN d.cache = 0 .. pow2[d.s] * d.E - 1
  BY <1>1, Zenon DEF Simulator, Becomes, SameShape
<1>5. d.op_counter \in Nat /\ d.hit \in Nat /\ d.miss \in Nat /\ d.evict \in Nat /\ DOMAIN d = Fields
  BY DEF Simulator, Becomes
<1> QED
  BY <1>2, <1>3, <1>4, <1>5 DEF Simulator

LEMMA AfterHit ==
  ASSUME NEW c, Simulator(c), NEW l \in DOMAIN c.cache, NEW k, NEW d,
         d = [c EXCEPT !.hit = @ + 1, !.cache[l].lru_count = k]
  PROVE  Becomes(c, d, l, [c.cache[l] EXCEPT !.lru_count = k], c.hit + 1, c.miss, c.evict)
  BY DEF Simulator, Fields, Becomes, SameShape

LEMMA AfterMiss ==
  ASSUME NEW c, Simulator(c), NEW l \in DOMAIN c.cache, NEW r, NEW d,
         d = [c EXCEPT !.miss = @ + 1, !.cache[l] = r]
  PROVE  Becomes(c, d, l, r, c.hit, c.miss + 1, c.evict)
  BY DEF Simulator, Fields, Becomes, SameShape

LEMMA AfterEviction ==
  ASSUME NEW c, Simulator(c), NEW l \in DOMAIN c.cache, NEW r, NEW d,
         d = [[c EXCEPT !.miss = @ + 1, !.cache[l] = r] EXCEPT !.evict = @ + 1]
  PROVE  Becomes(c, d, l, r, c.hit, c.miss + 1, c.evict + 1)
  BY DEF Simulator, Fields, Becomes, SameShape

LEMMA LineUsed ==
  ASSUME NEW r \in Line, r.is_valid, NEW k \in Nat
  PROVE  /\ [r EXCEPT !.lru_count = k] \in Line
         /\ [r EXCEPT !.lru_count = k].is_valid /\ [r EXCEPT !.lru_count = k].tag = r.tag
         /\ [r EXCEPT !.lru_count = k].lru_count = k
  BY DEF Line

\* The body of get_cache, of the lines of the set and the new block.
got(c, L, r) ==
  LET here == { n \in L : c.cache[n].is_valid /\ c.cache[n].tag = r.tag }
      unused == { n \in L : ~c.cache[n].is_valid }
  IN  IF ~(L \subseteq DOMAIN c.cache) THEN [c EXCEPT !.defined = FALSE]
      ELSE IF here # {} THEN touched(c, Min(here))
      ELSE IF unused # {} THEN [c EXCEPT !.miss = @ + 1, !.cache[Min(unused)] = r]
      ELSE [[c EXCEPT !.miss = @ + 1, !.cache[lru_idx(c, L)] = r] EXCEPT !.evict = @ + 1]

LEMMA Got ==
  ASSUME NEW c, NEW x
  PROVE  get_cache(c, x) = got(c, GET_SET_INDEX(c, x) * c.E .. (GET_SET_INDEX(c, x) * c.E + c.E - 1),
                                  [is_valid |-> TRUE, tag |-> GET_TAG(c, x), lru_count |-> c.op_counter])
  BY Zenon DEF get_cache, got

LEMMA GetCache ==
  ASSUME NEW c, NEW tr, NEW n, Reads(c, tr, n), Simulator(c), c.op_counter = n - 1
  PROVE  \E l \in lines(c, set(c, tr, n)) :
            /\ Chosen(c, tr, n, l)
            /\ Takes(c, get_cache(c, tr[n][2] % pow2[WIDTH]), tr, n, l)
            /\ Counts(c, get_cache(c, tr[n][2] % pow2[WIDTH]), tr, n)
            /\ Simulator(get_cache(c, tr[n][2] % pow2[WIDTH]))
<1> DEFINE i == set(c, tr, n)
           L == lines(c, i)
           F == found(c, tr, n)
           U == { l \in L : ~c.cache[l].is_valid }
           x == tr[n][2] % pow2[WIDTH]
           r == [is_valid |-> TRUE, tag |-> tag(c, tr, n), lru_count |-> n - 1]
           d == get_cache(c, x)
<1>1. i \in sets(c) /\ n \in Nat /\ n - 1 \in Nat /\ tag(c, tr, n) \in Nat
  BY ReadsIs, Located DEF Reads
<1>2. L \subseteq DOMAIN c.cache /\ L \subseteq Nat /\ L # {} /\ \A l \in L : c.cache[l] \in Line
  <2>1. DOMAIN c.cache = 0 .. pow2[c.s] * c.E - 1 /\ \A l \in DOMAIN c.cache : c.cache[l] \in Line
    BY DEF Simulator
  <2>2. L \subseteq 0 .. pow2[c.s] * c.E - 1 /\ L \subseteq Nat /\ L # {}
    BY <1>1, Lines DEF Reads
  <2> QED
    BY <2>1, <2>2
<1>3. GET_SET_INDEX(c, x) = i /\ GET_TAG(c, x) = tag(c, tr, n)
  BY Located DEF Reads
<1>4. GET_SET_INDEX(c, x) * c.E .. (GET_SET_INDEX(c, x) * c.E + c.E - 1) = L
  BY <1>3 DEF lines
<1>5. [is_valid |-> TRUE, tag |-> GET_TAG(c, x), lru_count |-> c.op_counter] = r
  BY <1>3
<1>6. { l \in L : c.cache[l].is_valid /\ c.cache[l].tag = r.tag } = F
  BY DEF found, valid
<1>7. r \in Line /\ r.is_valid /\ r.tag = tag(c, tr, n) /\ r.lru_count = n - 1
  BY <1>1 DEF Line
<1> HIDE DEF i, L, x, r
<1>8. d = got(c, L, r)
  BY <1>4, <1>5, Got
<1> HIDE DEF d
<1>9. /\ F # {} => d = touched(c, Min(F))
      /\ F = {} /\ U # {} => d = [c EXCEPT !.miss = @ + 1, !.cache[Min(U)] = r]
      /\ F = {} /\ U = {} => d = [[c EXCEPT !.miss = @ + 1, !.cache[lru_idx(c, L)] = r] EXCEPT !.evict = @ + 1]
  <2> DEFINE G == { l \in L : c.cache[l].is_valid /\ c.cache[l].tag = r.tag }
             undefined == [c EXCEPT !.defined = FALSE]
             hit(X) == touched(c, Min(X))
             miss == [c EXCEPT !.miss = @ + 1, !.cache[Min(U)] = r]
             evict == [[c EXCEPT !.miss = @ + 1, !.cache[lru_idx(c, L)] = r] EXCEPT !.evict = @ + 1]
  <2>1. got(c, L, r) = IF ~(L \subseteq DOMAIN c.cache) THEN undefined
                       ELSE IF G # {} THEN hit(G) ELSE IF U # {} THEN miss ELSE evict
    BY Zenon DEF got
  <2>2. G = F
    BY <1>6
  <2> HIDE DEF G, F, U, undefined, hit, miss, evict
  <2>3. /\ F # {} => d = hit(F)
        /\ F = {} /\ U # {} => d = miss
        /\ F = {} /\ U = {} => d = evict
    BY <1>2, <1>8, <2>1, <2>2
  <2> QED
    BY <2>3 DEF hit, miss, evict
<1>10. F \subseteq L /\ F \in SUBSET Nat /\ U \in SUBSET Nat /\ valid(c, i) = L \ U
  BY <1>2 DEF found, valid, i, L
<1>11. c.hit + 1 \in Nat /\ c.miss + 1 \in Nat /\ c.evict + 1 \in Nat /\ c.hit \in Nat /\ c.miss \in Nat /\ c.evict \in Nat
  BY DEF Simulator
<1>12. CASE F # {}
  <2> DEFINE l == Min(F)
             q == [c.cache[l] EXCEPT !.lru_count = c.op_counter]
  <2>1. l \in F
    BY <1>10, <1>12, Smallest
  <2>2. d = [c EXCEPT !.hit = @ + 1, !.cache[l].lru_count = c.op_counter]
    BY <1>9, <1>12 DEF touched
  <2> HIDE DEF l
  <2>3. l \in L /\ c.cache[l].is_valid /\ c.cache[l].tag = tag(c, tr, n) /\ c.cache[l] \in Line /\ l \in DOMAIN c.cache
    BY <1>2, <1>10, <2>1 DEF found, valid
  <2>4. q \in Line /\ q.is_valid /\ q.tag = tag(c, tr, n) /\ q.lru_count = n - 1
    BY <1>1, <2>3, LineUsed
  <2>5. Becomes(c, d, l, q, c.hit + 1, c.miss, c.evict)
    BY <2>2, <2>3, AfterHit
  <2> HIDE DEF q
  <2>6. Takes(c, d, tr, n, l) /\ Simulator(d)
    BY <1>11, <2>3, <2>4, <2>5, BecomesIs
  <2>7. Counts(c, d, tr, n)
    BY <1>12, <2>5 DEF Counts, Becomes
  <2> QED
    BY <2>1, <2>3, <2>6, <2>7 DEF Chosen, d, x, i, L
<1>13. CASE F = {} /\ U # {}
  <2> DEFINE l == Min(U)
  <2>1. l \in U
    BY <1>10, <1>13, Smallest
  <2>2. d = [c EXCEPT !.miss = @ + 1, !.cache[l] = r]
    BY <1>9, <1>13
  <2> HIDE DEF l
  <2>3. l \in L /\ l \notin valid(c, i) /\ l \in DOMAIN c.cache
    BY <1>2, <1>10, <2>1
  <2>4. Becomes(c, d, l, r, c.hit, c.miss + 1, c.evict)
    BY <2>2, <2>3, AfterMiss
  <2>5. Takes(c, d, tr, n, l) /\ Simulator(d)
    BY <1>7, <1>11, <2>3, <2>4, BecomesIs
  <2>6. Counts(c, d, tr, n)
    BY <1>13, <2>3, <2>4 DEF Counts, Becomes, i, L
  <2> QED
    BY <1>13, <2>3, <2>5, <2>6 DEF Chosen, d, x, i, L
<1>14. CASE F = {} /\ U = {}
  <2> DEFINE l == lru_idx(c, L)
  <2>1. l \in L /\ \A m \in L : c.cache[l].lru_count <= c.cache[m].lru_count
    BY <1>2, Oldest DEF Line
  <2>2. d = [[c EXCEPT !.miss = @ + 1, !.cache[l] = r] EXCEPT !.evict = @ + 1]
    BY <1>9, <1>14
  <2> HIDE DEF l
  <2>3. valid(c, i) = L /\ l \in DOMAIN c.cache
    BY <1>2, <1>10, <1>14, <2>1
  <2>4. Becomes(c, d, l, r, c.hit, c.miss + 1, c.evict + 1)
    BY <2>2, <2>3, AfterEviction
  <2>5. Takes(c, d, tr, n, l) /\ Simulator(d)
    BY <1>7, <1>11, <2>3, <2>4, BecomesIs
  <2>6. Counts(c, d, tr, n)
    BY <1>14, <2>3, <2>4 DEF Counts, Becomes, i, L
  <2>7. \A m \in L : used(c, l) <= used(c, m)
    BY <1>2, <2>1 DEF used, Line
  <2> QED
    BY <1>14, <2>1, <2>3, <2>5, <2>6, <2>7 DEF Chosen, d, x, i, L
<1> QED
  BY <1>12, <1>13, <1>14

-----------------------------------------------------------------------------
(* csim: the cache after an access.                                        *)

\* Simulators of one shape, and traces that start alike.
LEMMA Alike ==
  ASSUME NEW c, NEW d, SameShape(d, c), NEW tr, NEW tq, NEW n \in Nat, \A k \in 1 .. n : tq[k] = tr[k]
  PROVE  /\ \A k \in 1 .. n : /\ block(d, tq, k) = block(c, tr, k) /\ set(d, tq, k) = set(c, tr, k)
                              /\ tag(d, tq, k) = tag(c, tr, k) /\ cut(d, tq, k) = cut(c, tr, k)
         /\ \A k \in 1 .. n : latest(d, tq, n, k) <=> latest(c, tr, n, k)
         /\ \A k \in 1 .. n : (hits(d, tq, k) <=> hits(c, tr, k)) /\ (evicts(d, tq, k) <=> evicts(c, tr, k))
         /\ sets(d) = sets(c) /\ \A i : lines(d, i) = lines(c, i)
<1>1. ASSUME NEW k \in 1 .. n
      PROVE  /\ block(d, tq, k) = block(c, tr, k) /\ set(d, tq, k) = set(c, tr, k)
             /\ tag(d, tq, k) = tag(c, tr, k) /\ cut(d, tq, k) = cut(c, tr, k)
  <2>1. tq[k] = tr[k] /\ d.s = c.s /\ d.b = c.b
    BY DEF SameShape
  <2> QED
    BY <2>1 DEF block, set, tag, cut
<1>2. ASSUME NEW k \in 1 .. n PROVE latest(d, tq, n, k) <=> latest(c, tr, n, k)
  <2>1. \A m \in k + 1 .. n : m \in 1 .. n
    OBVIOUS
  <2> QED
    BY <1>1, <2>1 DEF latest
<1>3. ASSUME NEW k \in 1 .. n, NEW from \in Nat \ {0} PROVE others(d, tq, from, k) = others(c, tr, from, k)
  <2> DEFINE A == { block(d, tq, j) : j \in { m \in from .. k - 1 : set(d, tq, m) = set(d, tq, k) } } \ {block(d, tq, k)}
             Z == { block(c, tr, j) : j \in { m \in from .. k - 1 : set(c, tr, m) = set(c, tr, k) } } \ {block(c, tr, k)}
  <2>1. \A m \in from .. k - 1 : m \in 1 .. n
    OBVIOUS
  <2>2. A \subseteq Z
    BY <1>1, <2>1
  <2>3. Z \subseteq A
    BY <1>1, <2>1
  <2>4. A = Z
    BY <2>2, <2>3
  <2> HIDE DEF A, Z
  <2>5. Cardinality(A) = Cardinality(Z)
    BY <2>4
  <2> QED
    BY <2>5 DEF others, A, Z
<1>4. ASSUME NEW k \in 1 .. n PROVE (hits(d, tq, k) <=> hits(c, tr, k)) /\ (evicts(d, tq, k) <=> evicts(c, tr, k))
  <2>1. before(d, tq, k) = before(c, tr, k)
    <3>1. \A m \in 1 .. k - 1 : m \in 1 .. n
      OBVIOUS
    <3> QED
      BY <1>1, <3>1 DEF before
  <2> DEFINE P == before(c, tr, k)
  <2>2. P \in SUBSET (1 .. k) /\ k \in Nat /\ \A m \in P : m \in Nat \ {0}
    BY DEF before
  <2> HIDE DEF P
  <2>3. P # {} => Max(P) \in Nat \ {0}
    <3> SUFFICES ASSUME P # {} PROVE Max(P) \in Nat \ {0}
      OBVIOUS
    <3>1. Max(P) \in P
      BY <2>2, Greatest
    <3> QED
      BY <2>2, <3>1
  <2>4. P # {} => others(d, tq, Max(P), k) = others(c, tr, Max(P), k)
    BY <1>3, <2>3
  <2>5. others(d, tq, 1, k) = others(c, tr, 1, k)
    BY <1>3
  <2>6. d.E = c.E
    BY DEF SameShape
  <2>7. hits(d, tq, k) <=> hits(c, tr, k)
    BY <2>1, <2>4, <2>6 DEF hits, P
  <2> QED
    BY <2>5, <2>6, <2>7 DEF evicts
<1>5. sets(d) = sets(c) /\ \A i : lines(d, i) = lines(c, i)
  BY DEF SameShape, sets, lines
<1> QED
  BY <1>1, <1>2, <1>4, <1>5

\* Access n is the last.
LEMMA LatestNext ==
  ASSUME NEW c, NEW tr, NEW n \in Nat \ {0}, NEW k \in 1 .. n
  PROVE  latest(c, tr, n, k) <=> k = n \/ (k \in 1 .. n - 1 /\ latest(c, tr, n - 1, k) /\ block(c, tr, n) # block(c, tr, k))
<1>1. CASE k = n
  <2>1. k + 1 .. n = {}
    BY <1>1
  <2> QED
    BY <1>1, <2>1 DEF latest
<1>2. CASE k # n
  <2>1. k \in 1 .. n - 1 /\ n \in k + 1 .. n /\ \A m : m \in k + 1 .. n <=> m = n \/ m \in k + 1 .. n - 1
    BY <1>2
  <2> QED
    BY <1>2, <2>1 DEF latest
<1> QED
  BY <1>1, <1>2

\* Another set stays as it is.
LEMMA OtherSet ==
  ASSUME NEW c, NEW d, NEW tr, NEW n, NEW l \in lines(c, set(c, tr, n)),
         Reads(c, tr, n), Simulator(c), Takes(c, d, tr, n, l),
         NEW i \in sets(c), i # set(c, tr, n), Recent(c, tr, n - 1, i)
  PROVE  Recent(d, tr, n, i)
<1>1. n \in Nat \ {0} /\ n - 1 \in Nat /\ set(c, tr, n) \in sets(c)
  BY ReadsIs
<1>2. /\ \A k \in 1 .. n : block(d, tr, k) = block(c, tr, k) /\ set(d, tr, k) = set(c, tr, k) /\ tag(d, tr, k) = tag(c, tr, k)
      /\ \A k \in 1 .. n : latest(d, tr, n, k) <=> latest(c, tr, n, k)
      /\ lines(d, i) = lines(c, i)
  <2>1. SameShape(d, c) /\ n \in Nat /\ \A k \in 1 .. n : tr[k] = tr[k]
    BY <1>1 DEF Takes
  <2>2. \A k \in 1 .. n : block(d, tr, k) = block(c, tr, k) /\ set(d, tr, k) = set(c, tr, k) /\ tag(d, tr, k) = tag(c, tr, k)
    BY <2>1, Alike
  <2>3. \A k \in 1 .. n : latest(d, tr, n, k) <=> latest(c, tr, n, k)
    BY <2>1, Alike
  <2>4. lines(d, i) = lines(c, i)
    BY <2>1 DEF SameShape, lines
  <2> QED
    BY <2>2, <2>3, <2>4
<1>3. \A m \in lines(c, i) : d.cache[m] = c.cache[m]
  <2>1. lines(c, i) \cap lines(c, set(c, tr, n)) = {} /\ lines(c, i) \subseteq DOMAIN c.cache
    BY <1>1, Lines, Zenon DEF Reads, Simulator
  <2> QED
    BY <2>1 DEF Takes
<1>4. valid(d, i) = valid(c, i) /\ \A m \in lines(c, i) : used(d, m) = used(c, m)
  BY <1>2, <1>3 DEF valid, used
<1>5. \A k \in 1 .. n : set(c, tr, k) = i => (latest(c, tr, n, k) <=> k \in 1 .. n - 1 /\ latest(c, tr, n - 1, k))
  <2> SUFFICES ASSUME NEW k \in 1 .. n, set(c, tr, k) = i
               PROVE  latest(c, tr, n, k) <=> k \in 1 .. n - 1 /\ latest(c, tr, n - 1, k)
    OBVIOUS
  <2>1. k # n
    OBVIOUS
  <2>2. block(c, tr, n) # block(c, tr, k)
    BY DEF set
  <2> QED
    BY <1>1, <2>1, <2>2, LatestNext
<1>6. ASSUME NEW m \in valid(d, i) PROVE Holds(d, tr, n, m, i)
  <2>1. m \in valid(c, i) /\ m \in lines(c, i)
    BY <1>4 DEF valid
  <2>2. Holds(c, tr, n - 1, m, i)
    BY <2>1 DEF Recent
  <2> DEFINE k == used(c, m)
  <2>3. k \in 1 .. n - 1 /\ set(c, tr, k) = i /\ tag(c, tr, k) = c.cache[m].tag /\ latest(c, tr, n - 1, k)
    BY <2>2 DEF Holds
  <2>4. used(d, m) = k /\ d.cache[m] = c.cache[m]
    BY <1>3, <1>4, <2>1
  <2> HIDE DEF k
  <2>5. k \in 1 .. n
    BY <1>1, <2>3
  <2>6. latest(c, tr, n, k)
    BY <1>5, <2>3, <2>5
  <2> QED
    BY <1>2, <2>3, <2>4, <2>5, <2>6 DEF Holds
<1>7. \A j, m \in valid(d, i) : used(d, j) = used(d, m) => j = m
  BY <1>4 DEF Recent, valid
<1>8. ASSUME NEW k \in 1 .. n, set(d, tr, k) = i, latest(d, tr, n, k)
      PROVE  holders(d, i, k) # {} \/ (valid(d, i) = lines(d, i) /\ \A m \in lines(d, i) : used(d, m) > k)
  <2>1. k \in 1 .. n - 1 /\ set(c, tr, k) = i /\ latest(c, tr, n - 1, k)
    BY <1>2, <1>5, <1>8
  <2>2. holders(c, i, k) # {} \/ (valid(c, i) = lines(c, i) /\ \A m \in lines(c, i) : used(c, m) > k)
    BY <2>1 DEF Recent
  <2>3. holders(d, i, k) = holders(c, i, k)
    BY <1>4 DEF holders, valid
  <2> QED
    BY <1>2, <1>4, <2>2, <2>3
<1> QED
  BY <1>6, <1>7, <1>8 DEF Recent

\* The set of the access: the line has the block, and if it had another that
\* was the one used first.
LEMMA ThisSet ==
  ASSUME NEW c, NEW d, NEW tr, NEW n, NEW l \in lines(c, set(c, tr, n)),
         Reads(c, tr, n), Simulator(c), Takes(c, d, tr, n, l), Chosen(c, tr, n, l),
         Recent(c, tr, n - 1, set(c, tr, n))
  PROVE  Recent(d, tr, n, set(c, tr, n))
<1> DEFINE i == set(c, tr, n)
           L == lines(c, i)
<1>1. n \in Nat \ {0} /\ n - 1 \in Nat /\ i \in sets(c) /\ n \in 1 .. n
  BY ReadsIs
<1>2. /\ \A k \in 1 .. n : block(d, tr, k) = block(c, tr, k) /\ set(d, tr, k) = set(c, tr, k) /\ tag(d, tr, k) = tag(c, tr, k)
      /\ \A k \in 1 .. n : latest(d, tr, n, k) <=> latest(c, tr, n, k)
      /\ lines(d, i) = L
  <2>1. SameShape(d, c) /\ n \in Nat /\ \A k \in 1 .. n : tr[k] = tr[k]
    BY <1>1 DEF Takes
  <2> QED
    BY <2>1, Alike
<1>3. L \subseteq DOMAIN c.cache
  BY <1>1, Lines, Zenon DEF Reads, Simulator
<1>4. /\ \A m \in L : m # l => d.cache[m] = c.cache[m] /\ used(d, m) = used(c, m)
      /\ d.cache[l].is_valid /\ d.cache[l].tag = tag(c, tr, n) /\ used(d, l) = n
  BY <1>1, <1>3 DEF Takes, used
<1>5. l \in valid(d, i) /\ \A m \in L : m # l => (m \in valid(d, i) <=> m \in valid(c, i))
  BY <1>2, <1>4 DEF valid
<1>6. \A m \in valid(d, i) : m \in L
  BY <1>2 DEF valid
<1>7. \A m \in valid(c, i) : /\ m \in L /\ used(c, m) \in 1 .. n - 1 /\ set(c, tr, used(c, m)) = i
                             /\ tag(c, tr, used(c, m)) = c.cache[m].tag
                             /\ latest(c, tr, n - 1, used(c, m))
                             /\ (c.cache[m].tag = tag(c, tr, n) <=> block(c, tr, used(c, m)) = block(c, tr, n))
  <2> TAKE m \in valid(c, i)
  <2>1. tag(c, tr, used(c, m)) = c.cache[m].tag
    BY DEF Recent, Holds
  <2> QED
    BY <2>1, LineOf
\* No other line of the set has the block.
<1>8. \A m \in valid(c, i) : m # l => block(c, tr, used(c, m)) # block(c, tr, n)
  <2> SUFFICES ASSUME NEW m \in valid(c, i), m # l, block(c, tr, used(c, m)) = block(c, tr, n) PROVE FALSE
    OBVIOUS
  <2>1. m \in found(c, tr, n)
    BY <1>7 DEF found
  <2>2. l \in found(c, tr, n)
    BY <2>1 DEF Chosen
  <2>3. l \in valid(c, i) /\ block(c, tr, used(c, l)) = block(c, tr, n)
    BY <1>7, <2>2 DEF found
  <2>4. used(c, l) = used(c, m)
    <3>1. /\ used(c, l) \in 1 .. n - 1 /\ latest(c, tr, n - 1, used(c, l))
          /\ used(c, m) \in 1 .. n - 1 /\ latest(c, tr, n - 1, used(c, m))
      BY <1>7, <2>3
    <3> QED
      BY <2>3, <3>1 DEF latest
  <2> QED
    BY <2>3, <2>4 DEF Recent
<1> HIDE DEF i, L
<1>9. ASSUME NEW m \in valid(d, i) PROVE Holds(d, tr, n, m, i)
  <2>1. CASE m = l
    <3>1. latest(c, tr, n, n)
      BY <1>1, LatestNext
    <3>2. set(c, tr, n) = i
      BY DEF i
    <3> QED
      BY <1>1, <1>2, <1>4, <2>1, <3>1, <3>2 DEF Holds
  <2>2. CASE m # l
    <3> DEFINE k == used(c, m)
    <3>1. m \in valid(c, i) /\ m \in L
      BY <1>5, <1>6, <2>2
    <3>2. k \in 1 .. n - 1 /\ set(c, tr, k) = i /\ tag(c, tr, k) = c.cache[m].tag /\ latest(c, tr, n - 1, k)
      BY <1>7, <3>1
    <3>3. block(c, tr, k) # block(c, tr, n)
      BY <1>8, <2>2, <3>1
    <3>4. used(d, m) = k /\ d.cache[m] = c.cache[m]
      BY <1>4, <2>2, <3>1
    <3> HIDE DEF k
    <3>5. k \in 1 .. n
      BY <1>1, <3>2
    <3>6. latest(c, tr, n, k)
      BY <1>1, <3>2, <3>3, <3>5, LatestNext
    <3> QED
      BY <1>2, <3>2, <3>4, <3>5, <3>6 DEF Holds
  <2> QED
    BY <2>1, <2>2
<1>10. ASSUME NEW j \in valid(d, i), NEW m \in valid(d, i), used(d, j) = used(d, m) PROVE j = m
  <2>1. ASSUME NEW k \in valid(d, i), k # l
        PROVE  k \in valid(c, i) /\ used(d, k) = used(c, k) /\ used(d, k) # used(d, l)
    <3>1. k \in valid(c, i) /\ used(d, k) = used(c, k)
      BY <1>4, <1>5, <1>6, <2>1
    <3>2. used(c, k) \in 1 .. n - 1
      BY <1>7, <3>1
    <3> QED
      BY <1>1, <1>4, <3>1, <3>2
  <2>2. CASE j = l \/ m = l
    BY <1>10, <2>1, <2>2
  <2>3. CASE j # l /\ m # l
    <3>1. j \in valid(c, i) /\ m \in valid(c, i) /\ used(c, j) = used(c, m)
      BY <1>10, <2>1, <2>3
    <3> QED
      BY <3>1 DEF Recent, i
  <2> QED
    BY <2>2, <2>3
<1>11. ASSUME NEW k \in 1 .. n, set(d, tr, k) = i, latest(d, tr, n, k)
       PROVE  holders(d, i, k) # {} \/ (valid(d, i) = lines(d, i) /\ \A m \in lines(d, i) : used(d, m) > k)
  <2>1. CASE k = n
    <3>1. l \in holders(d, i, k)
      BY <1>4, <1>5, <2>1 DEF holders
    <3> QED
      BY <3>1
  <2>2. CASE k # n
    <3>1. k \in 1 .. n - 1 /\ set(c, tr, k) = i /\ latest(c, tr, n - 1, k) /\ block(c, tr, n) # block(c, tr, k)
      <4>1. latest(c, tr, n, k) /\ set(c, tr, k) = i
        BY <1>2, <1>11
      <4> QED
        BY <1>1, <2>2, <4>1, LatestNext
    <3>2. k \in Nat /\ n > k
      BY <1>1, <3>1
    <3>3. CASE valid(c, i) = L /\ \A m \in L : used(c, m) > k
      <4>1. \A m \in L : m \in valid(d, i) /\ used(d, m) > k
        BY <1>4, <1>5, <3>2, <3>3
      <4>2. valid(d, i) = L
        BY <1>6, <4>1
      <4> QED
        BY <1>2, <4>1, <4>2
    <3>4. CASE \E m \in valid(c, i) : used(c, m) = k
      <4>1. PICK m \in valid(c, i) : used(c, m) = k
        BY <3>4
      <4>2. CASE m # l
        <5>1. m \in holders(d, i, k)
          BY <1>4, <1>5, <1>7, <4>1, <4>2 DEF holders
        <5> QED
          BY <5>1
      <4>3. CASE m = l
        <5>1. l \notin found(c, tr, n)
          <6>1. block(c, tr, used(c, l)) # block(c, tr, n)
            BY <3>1, <4>1, <4>3
          <6>2. c.cache[l].tag # tag(c, tr, n)
            BY <1>7, <4>3, <6>1
          <6> QED
            BY <6>2 DEF found
        <5>2. valid(c, i) = L /\ \A j \in L : used(c, l) <= used(c, j)
          BY <4>1, <4>3, <5>1 DEF Chosen, L, i
        <5>3. ASSUME NEW j \in L PROVE j \in valid(d, i) /\ used(d, j) > k
          <6>1. CASE j = l
            BY <1>4, <1>5, <3>2, <6>1
          <6>2. CASE j # l
            <7>1. j \in valid(c, i) /\ l \in valid(c, i) /\ used(c, l) <= used(c, j) /\ used(c, l) = k
              BY <4>1, <4>3, <5>2
            <7>2. used(c, j) # used(c, l)
              BY <6>2, <7>1 DEF Recent, i
            <7>3. used(c, j) \in Nat
              BY <1>7, <7>1
            <7>4. used(c, j) > k
              BY <3>2, <7>1, <7>2, <7>3
            <7> QED
              BY <1>4, <1>5, <6>2, <7>1, <7>4
          <6> QED
            BY <6>1, <6>2
        <5>4. valid(d, i) = L
          BY <1>6, <5>3
        <5> QED
          BY <1>2, <5>3, <5>4
      <4> QED
        BY <4>2, <4>3
    <3>5. (\E m \in valid(c, i) : used(c, m) = k) \/ (valid(c, i) = L /\ \A m \in L : used(c, m) > k)
      <4>1. holders(c, i, k) # {} \/ (valid(c, i) = L /\ \A m \in L : used(c, m) > k)
        BY <3>1 DEF Recent, i, L
      <4> QED
        BY <4>1 DEF holders
    <3> QED
      BY <3>3, <3>4, <3>5
  <2> QED
    BY <2>1, <2>2
<1>12. Recent(d, tr, n, i)
  BY <1>9, <1>10, <1>11 DEF Recent
<1> QED
  BY <1>12 DEF i

\* Only what the lines say matters.
LEMMA SameLines ==
  ASSUME NEW c, NEW d, SameShape(d, c), NEW tr, NEW n \in Nat, NEW i \in sets(c), Recent(c, tr, n, i),
         \A m \in lines(c, i) : /\ d.cache[m].is_valid <=> c.cache[m].is_valid
                                /\ d.cache[m].tag = c.cache[m].tag /\ d.cache[m].lru_count = c.cache[m].lru_count
  PROVE  Recent(d, tr, n, i)
<1>1. /\ \A k \in 1 .. n : block(d, tr, k) = block(c, tr, k) /\ set(d, tr, k) = set(c, tr, k) /\ tag(d, tr, k) = tag(c, tr, k)
      /\ \A k \in 1 .. n : latest(d, tr, n, k) <=> latest(c, tr, n, k)
  <2>1. \A k \in 1 .. n : tr[k] = tr[k]
    OBVIOUS
  <2>2. \A k \in 1 .. n : block(d, tr, k) = block(c, tr, k) /\ set(d, tr, k) = set(c, tr, k) /\ tag(d, tr, k) = tag(c, tr, k)
    BY <2>1, Alike
  <2>3. \A k \in 1 .. n : latest(d, tr, n, k) <=> latest(c, tr, n, k)
    BY <2>1, Alike
  <2> QED
    BY <2>2, <2>3
<1>2. lines(d, i) = lines(c, i)
  BY DEF SameShape, lines
<1>3. valid(d, i) = valid(c, i) /\ \A m \in lines(c, i) : used(d, m) = used(c, m)
  BY <1>2 DEF valid, used
<1>4. \A m \in valid(c, i) : m \in lines(c, i)
  BY DEF valid
<1>5. ASSUME NEW m \in valid(d, i) PROVE Holds(d, tr, n, m, i)
  <2> DEFINE k == used(c, m)
  <2>1. k \in 1 .. n /\ set(c, tr, k) = i /\ tag(c, tr, k) = c.cache[m].tag /\ latest(c, tr, n, k)
    BY <1>3 DEF Recent, Holds
  <2>2. used(d, m) = k /\ d.cache[m].tag = c.cache[m].tag
    BY <1>3, <1>4
  <2> HIDE DEF k
  <2> QED
    BY <1>1, <2>1, <2>2 DEF Holds
<1>6. \A k : holders(d, i, k) = holders(c, i, k)
  BY <1>3, <1>4 DEF holders
<1>7. \A j, m \in valid(d, i) : used(d, j) = used(d, m) => j = m
  BY <1>3, <1>4 DEF Recent
<1>8. ASSUME NEW k \in 1 .. n, set(d, tr, k) = i, latest(d, tr, n, k)
      PROVE  holders(d, i, k) # {} \/ (valid(d, i) = lines(d, i) /\ \A m \in lines(d, i) : used(d, m) > k)
  <2>1. holders(c, i, k) # {} \/ (valid(c, i) = lines(c, i) /\ \A m \in lines(c, i) : used(c, m) > k)
    BY <1>1, <1>8 DEF Recent
  <2> QED
    BY <1>2, <1>3, <1>6, <2>1
<1> QED
  BY <1>5, <1>7, <1>8 DEF Recent

\* After n accesses, before op_counter counts the last.
Settled(c, tr, n) == Simulator(c) /\ c.defined /\ c.op_counter = n - 1 /\ \A i \in sets(c) : Recent(c, tr, n, i)

LEMMA FirstSettles ==
  ASSUME NEW c, NEW tr, NEW n, Reads(c, tr, n), Simulator(c), c.defined, c.op_counter = n - 1,
         \A i \in sets(c) : Recent(c, tr, n - 1, i)
  PROVE  LET d == get_cache(c, tr[n][2] % pow2[WIDTH])
         IN  /\ Settled(d, tr, n) /\ SameShape(d, c) /\ Counts(c, d, tr, n)
             /\ \E l \in lines(c, set(c, tr, n)) : d.cache[l].is_valid /\ used(d, l) = n
<1> DEFINE d == get_cache(c, tr[n][2] % pow2[WIDTH])
<1>1. PICK l \in lines(c, set(c, tr, n)) : Chosen(c, tr, n, l) /\ Takes(c, d, tr, n, l) /\ Counts(c, d, tr, n) /\ Simulator(d)
  BY GetCache
<1> HIDE DEF d
<1>2. set(c, tr, n) \in sets(c) /\ n \in Nat
  BY ReadsIs
<1>3. SameShape(d, c) /\ d.defined /\ d.op_counter = n - 1 /\ d.cache[l].is_valid /\ used(d, l) = n
  BY <1>1, <1>2 DEF Takes, used
<1>4. sets(d) = sets(c)
  BY <1>3 DEF SameShape, sets
<1>5. ASSUME NEW i \in sets(c) PROVE Recent(d, tr, n, i)
  <2>1. CASE i = set(c, tr, n)
    <3>1. Recent(c, tr, n - 1, set(c, tr, n))
      BY <1>2
    <3> QED
      BY <1>1, <2>1, <3>1, ThisSet
  <2>2. CASE i # set(c, tr, n)
    <3>1. Recent(c, tr, n - 1, i)
      OBVIOUS
    <3> QED
      BY <1>1, <2>2, <3>1, OtherSet
  <2> QED
    BY <2>1, <2>2
<1>6. Settled(d, tr, n)
  BY <1>1, <1>3, <1>4, <1>5 DEF Settled
<1> QED
  BY <1>1, <1>3, <1>6 DEF d

\* The store of M finds the block where the load has left it.
LEMMA SecondSettles ==
  ASSUME NEW c, NEW tr, NEW n, Reads(c, tr, n), Settled(c, tr, n),
         NEW l \in lines(c, set(c, tr, n)), c.cache[l].is_valid, used(c, l) = n
  PROVE  LET d == get_cache(c, tr[n][2] % pow2[WIDTH])
         IN  /\ Settled(d, tr, n) /\ SameShape(d, c)
             /\ d.hit = c.hit + 1 /\ d.miss = c.miss /\ d.evict = c.evict
<1> DEFINE i == set(c, tr, n)
           L == lines(c, i)
           x == tr[n][2] % pow2[WIDTH]
           d == get_cache(c, x)
           r == [is_valid |-> TRUE, tag |-> tag(c, tr, n), lru_count |-> c.op_counter]
           here == { m \in L : c.cache[m].is_valid /\ c.cache[m].tag = r.tag }
           q == [c.cache[l] EXCEPT !.lru_count = c.op_counter]
<1>1. i \in sets(c) /\ n \in Nat \ {0} /\ n - 1 \in Nat
  BY ReadsIs
<1>2. Recent(c, tr, n, i) /\ Simulator(c) /\ c.defined /\ c.op_counter = n - 1
  BY <1>1 DEF Settled
<1>3. L \subseteq DOMAIN c.cache /\ l \in DOMAIN c.cache /\ l \in Nat /\ c.cache[l] \in Line
  <2>1. L \subseteq 0 .. pow2[c.s] * c.E - 1 /\ L \subseteq Nat
    BY <1>1, Lines DEF Reads
  <2>2. DOMAIN c.cache = 0 .. pow2[c.s] * c.E - 1 /\ \A m \in DOMAIN c.cache : c.cache[m] \in Line
    BY <1>2 DEF Simulator
  <2> QED
    BY <2>1, <2>2
<1>4. GET_SET_INDEX(c, x) = i /\ GET_TAG(c, x) = tag(c, tr, n)
  BY Located DEF Reads
<1>5. d = got(c, L, r)
  <2>1. GET_SET_INDEX(c, x) * c.E .. (GET_SET_INDEX(c, x) * c.E + c.E - 1) = L
    BY <1>4 DEF lines
  <2>2. [is_valid |-> TRUE, tag |-> GET_TAG(c, x), lru_count |-> c.op_counter] = r
    BY <1>4
  <2> HIDE DEF L, x, r
  <2> QED
    BY <2>1, <2>2, Got
<1>6. c.cache[l].tag = tag(c, tr, n)
  <2>1. l \in valid(c, i)
    BY DEF valid
  <2> QED
    BY <1>2, <2>1 DEF Recent, Holds
<1>7. here = {l}
  <2>1. ASSUME NEW m \in L, c.cache[m].is_valid, c.cache[m].tag = tag(c, tr, n) PROVE m = l
    <3>1. m \in valid(c, i) /\ l \in valid(c, i)
      BY <2>1 DEF valid
    <3> DEFINE k == used(c, m)
    <3>2. k \in 1 .. n /\ set(c, tr, k) = i /\ tag(c, tr, k) = tag(c, tr, n) /\ latest(c, tr, n, k)
      BY <1>2, <2>1, <3>1 DEF Recent, Holds
    <3> HIDE DEF k
    <3>3. k \in DOMAIN tr /\ n \in DOMAIN tr
      BY <3>2, ReadsIs
    <3>4. block(c, tr, k) = block(c, tr, n)
      BY <3>2, <3>3, SameBlock DEF Reads
    <3>5. k = n
      BY <1>1, <3>2, <3>4, LatestNext
    <3> QED
      BY <1>2, <3>1, <3>5 DEF Recent, k
  <2> QED
    BY <1>6, <2>1
<1>8. Min({l}) = l
  BY <1>3 DEF Min
<1>9. d = [c EXCEPT !.hit = @ + 1, !.cache[l].lru_count = c.op_counter]
  <2>1. d = IF ~(L \subseteq DOMAIN c.cache) THEN [c EXCEPT !.defined = FALSE] ELSE touched(c, l)
    <3> DEFINE none == { m \in L : ~c.cache[m].is_valid }
               undefined == [c EXCEPT !.defined = FALSE]
               miss == [c EXCEPT !.miss = @ + 1, !.cache[Min(none)] = r]
               evict == [[c EXCEPT !.miss = @ + 1, !.cache[lru_idx(c, L)] = r] EXCEPT !.evict = @ + 1]
    <3>1. got(c, L, r) = IF ~(L \subseteq DOMAIN c.cache) THEN undefined
                         ELSE IF here # {} THEN touched(c, Min(here)) ELSE IF none # {} THEN miss ELSE evict
      BY Zenon DEF got
    <3> HIDE DEF d, here, none, undefined, miss, evict, r, L
    <3>2. here # {} /\ Min(here) = l
      BY <1>7, <1>8
    <3>3. d = IF ~(L \subseteq DOMAIN c.cache) THEN undefined ELSE touched(c, l)
      BY <1>5, <3>1, <3>2
    <3> QED
      BY <3>3 DEF undefined
  <2> HIDE DEF d, L
  <2>2. d = touched(c, l)
    BY <1>3, <2>1
  <2> QED
    BY <2>2 DEF touched
<1> HIDE DEF d, L, x, r
<1>10. Becomes(c, d, l, q, c.hit + 1, c.miss, c.evict)
  BY <1>2, <1>3, <1>9, AfterHit
<1>11. q \in Line /\ q.is_valid /\ q.tag = c.cache[l].tag /\ q.lru_count = n - 1 /\ q.lru_count = c.cache[l].lru_count
  <2>1. q \in Line /\ q.is_valid /\ q.tag = c.cache[l].tag /\ q.lru_count = n - 1
    BY <1>1, <1>2, <1>3, LineUsed
  <2>2. c.cache[l].lru_count + 1 = n /\ c.cache[l].lru_count \in Nat
    BY <1>3 DEF used, Line
  <2> QED
    BY <1>1, <2>1, <2>2
<1> HIDE DEF q
<1>12. Simulator(d) /\ SameShape(d, c) /\ d.defined /\ d.op_counter = n - 1
  <2>1. c.hit + 1 \in Nat /\ c.miss \in Nat /\ c.evict \in Nat
    BY <1>2 DEF Simulator
  <2>2. Simulator(d)
    BY <1>2, <1>3, <1>6, <1>10, <1>11, <2>1, BecomesIs
  <2> QED
    BY <1>2, <1>10, <2>2 DEF Becomes
<1>13. \A m \in DOMAIN c.cache : /\ d.cache[m].is_valid <=> c.cache[m].is_valid
                                 /\ d.cache[m].tag = c.cache[m].tag /\ d.cache[m].lru_count = c.cache[m].lru_count
  <2> TAKE m \in DOMAIN c.cache
  <2>1. CASE m = l
    BY <1>3, <1>10, <1>11, <2>1 DEF Becomes
  <2>2. CASE m # l
    BY <1>10, <2>2 DEF Becomes
  <2> QED
    BY <2>1, <2>2
<1>14. \A j \in sets(d) : Recent(d, tr, n, j)
  <2> TAKE j \in sets(d)
  <2>1. j \in sets(c)
    BY <1>12 DEF SameShape, sets
  <2>2. lines(c, j) \subseteq DOMAIN c.cache
    BY <1>2, <2>1, Lines, Zenon DEF Reads, Simulator
  <2>3. Recent(c, tr, n, j)
    BY <2>1 DEF Settled
  <2> QED
    BY <1>1, <1>12, <1>13, <2>1, <2>2, <2>3, SameLines
<1> QED
  BY <1>10, <1>12, <1>14 DEF Settled, Becomes, d, x

-----------------------------------------------------------------------------
(* csim: the counts after a line of the trace.                             *)

\* A set of accesses, with one access more.
LEMMA CountOneMore ==
  ASSUME NEW n \in Nat \ {0}, NEW A \in SUBSET (1 .. n - 1), NEW Z \in SUBSET (1 .. n),
         \A k \in 1 .. n - 1 : k \in Z <=> k \in A
  PROVE  Cardinality(A) \in Nat /\ Cardinality(Z) = Cardinality(A) + (IF n \in Z THEN 1 ELSE 0)
<1>1. IsFiniteSet(A) /\ Cardinality(A) \in Nat
  <2>1. IsFiniteSet(1 .. n - 1)
    BY FS_Interval
  <2> QED
    BY <2>1, FS_Subset, FS_CardinalityType
<1>2. n \notin 1 .. n - 1 /\ \A k \in 1 .. n : k = n \/ k \in 1 .. n - 1
  OBVIOUS
<1>3. n \notin A /\ \A k \in Z : k = n \/ k \in A
  BY <1>2
<1>4. \A k \in A : k \in Z
  OBVIOUS
<1>5. CASE n \in Z
  <2>1. Z = A \cup {n}
    BY <1>3, <1>4, <1>5
  <2> QED
    BY <1>1, <1>3, <1>5, <2>1, FS_AddElement
<1>6. CASE n \notin Z
  <2>1. Z = A
    BY <1>3, <1>4, <1>6
  <2> QED
    BY <1>1, <1>6, <2>1
<1> QED
  BY <1>1, <1>5, <1>6

hitting(c, tr) == { n \in DOMAIN tr : hits(c, tr, n) }
modifies(tr) == { n \in DOMAIN tr : tr[n][1] = "M" }
evicting(c, tr) == { n \in DOMAIN tr : evicts(c, tr, n) }
Counted(c, tr) ==
  /\ c.hit = Cardinality(hitting(c, tr)) + Cardinality(modifies(tr))
  /\ c.miss = Len(tr) - Cardinality(hitting(c, tr)) /\ c.evict = Cardinality(evicting(c, tr))

\* csim has read tr, and holds and has counted what the reference does.
Simulates(c, tr) ==
  /\ Simulator(c) /\ c.defined /\ c.op_counter = Len(tr)
  /\ \A i \in sets(c) : Recent(c, tr, Len(tr), i)
  /\ Counted(c, tr)

\* What follows access n in the trace makes no difference to the lines.
LEMMA RecentAlike ==
  ASSUME NEW c, NEW tr, NEW tq, NEW n \in Nat, \A k \in 1 .. n : tq[k] = tr[k], NEW i, Recent(c, tr, n, i)
  PROVE  Recent(c, tq, n, i)
<1>1. SameShape(c, c)
  BY DEF SameShape
<1>2. /\ \A k \in 1 .. n : block(c, tq, k) = block(c, tr, k) /\ set(c, tq, k) = set(c, tr, k) /\ tag(c, tq, k) = tag(c, tr, k)
      /\ \A k \in 1 .. n : latest(c, tq, n, k) <=> latest(c, tr, n, k)
  <2>1. \A k \in 1 .. n : block(c, tq, k) = block(c, tr, k) /\ set(c, tq, k) = set(c, tr, k) /\ tag(c, tq, k) = tag(c, tr, k)
    BY <1>1, Alike
  <2>2. \A k \in 1 .. n : latest(c, tq, n, k) <=> latest(c, tr, n, k)
    BY <1>1, Alike
  <2> QED
    BY <2>1, <2>2
<1>3. ASSUME NEW l \in valid(c, i) PROVE Holds(c, tq, n, l, i)
  <2> DEFINE k == used(c, l)
  <2>1. k \in 1 .. n /\ set(c, tr, k) = i /\ tag(c, tr, k) = c.cache[l].tag /\ latest(c, tr, n, k)
    BY DEF Recent, Holds
  <2> HIDE DEF k
  <2>2. k \in 1 .. n /\ set(c, tq, k) = i /\ tag(c, tq, k) = c.cache[l].tag /\ latest(c, tq, n, k)
    BY <1>2, <2>1
  <2> QED
    BY <2>2 DEF Holds, k
<1>4. ASSUME NEW k \in 1 .. n, set(c, tq, k) = i, latest(c, tq, n, k)
      PROVE  holders(c, i, k) # {} \/ (valid(c, i) = lines(c, i) /\ \A l \in lines(c, i) : used(c, l) > k)
  BY <1>2, <1>4 DEF Recent
<1> QED
  BY <1>3, <1>4 DEF Recent

LEMMA AfterCount ==
  ASSUME NEW c, Simulator(c), NEW n \in Nat, c.op_counter = n - 1
  PROVE  LET d == [c EXCEPT !.op_counter = @ + 1]
         IN  /\ DOMAIN d = Fields /\ d.op_counter = n /\ d.cache = c.cache /\ d.defined = c.defined
             /\ d.hit = c.hit /\ d.miss = c.miss /\ d.evict = c.evict
             /\ d.s = c.s /\ d.E = c.E /\ d.b = c.b
  BY DEF Simulator, Fields

\* A line of the trace that is not aliased keeps them.
LEMMA AccessKeeps ==
  ASSUME NEW c, Geometry(c), c.s > 0, NEW tr \in Seq(Data), NEW a \in Data, Simulates(c, tr), ~aliased(c, Append(tr, a))
  PROVE  Simulates(access(c, a[1], a[2]), Append(tr, a))
<1> DEFINE tq == Append(tr, a)
           n == Len(tr) + 1
           x == a[2] % pow2[WIDTH]
           once == get_cache(c, x)
           seen == IF a[1] = "M" THEN get_cache(once, x) ELSE once
           d == [seen EXCEPT !.op_counter = @ + 1]
<1>1. /\ tq \in Seq(Data) /\ Len(tq) = n /\ tq[n] = a /\ n \in Nat \ {0} /\ n - 1 \in Nat /\ n - 1 = Len(tr)
      /\ DOMAIN tq = 1 .. n /\ DOMAIN tr = 1 .. n - 1 /\ \A k \in 1 .. n - 1 : tq[k] = tr[k]
  <2>1. Len(tr) \in Nat /\ DOMAIN tr = 1 .. Len(tr)
    BY LenProperties
  <2>2. tq \in Seq(Data) /\ Len(tq) = n /\ tq[n] = a /\ \A k \in 1 .. Len(tr) : tq[k] = tr[k]
    BY AppendProperties
  <2>3. DOMAIN tq = 1 .. n
    BY <2>2, LenProperties
  <2> QED
    BY <2>1, <2>2, <2>3
<1>2. a[1] \in {"L", "S", "M"}
  BY DEF Data
<1>3. access(c, a[1], a[2]) = d
  BY <1>2 DEF access
<1>4. ~aliased(c, tq)
  OBVIOUS
<1> HIDE DEF tq, n
<1>5. Reads(c, tq, n) /\ SameShape(c, c)
  BY <1>1, <1>4 DEF Reads, SameShape
<1>6. Simulator(c) /\ c.defined /\ c.op_counter = n - 1 /\ Counted(c, tr) /\ \A i \in sets(c) : Recent(c, tr, n - 1, i)
  BY <1>1 DEF Simulates
<1>7. \A i \in sets(c) : Recent(c, tq, n - 1, i)
  BY <1>1, <1>6, RecentAlike
<1>8. /\ Settled(once, tq, n) /\ SameShape(once, c) /\ Counts(c, once, tq, n)
      /\ \E l \in lines(c, set(c, tq, n)) : once.cache[l].is_valid /\ used(once, l) = n
  BY <1>1, <1>5, <1>6, <1>7, FirstSettles
<1> DEFINE more == IF a[1] = "M" THEN 1 ELSE 0
<1>9. /\ Settled(seen, tq, n) /\ SameShape(seen, c)
      /\ seen.hit = once.hit + more /\ seen.miss = once.miss /\ seen.evict = once.evict
  <2>1. CASE a[1] = "M"
    <3> DEFINE twice == get_cache(once, x)
    <3>1. PICK l \in lines(c, set(c, tq, n)) : once.cache[l].is_valid /\ used(once, l) = n
      BY <1>8
    <3> HIDE DEF once
    <3>2. Reads(once, tq, n)
      BY <1>5, <1>8 DEF Reads, SameShape, Geometry, aliased, block, cut
    <3>3. lines(c, set(c, tq, n)) = lines(once, set(once, tq, n))
      BY <1>8 DEF SameShape, lines, set, block
    <3>4. l \in lines(once, set(once, tq, n)) /\ x = tq[n][2] % pow2[WIDTH]
      BY <1>1, <3>1, <3>3
    <3> HIDE DEF x
    <3>5. Settled(twice, tq, n) /\ SameShape(twice, once) /\ twice.hit = once.hit + 1 /\ twice.miss = once.miss /\ twice.evict = once.evict
      BY <1>8, <3>1, <3>2, <3>4, SecondSettles
    <3> QED
      BY <1>8, <2>1, <3>5 DEF SameShape
  <2>2. CASE a[1] # "M"
    <3> HIDE DEF once
    <3>1. seen = once /\ more = 0 /\ once.hit \in Nat
      BY <1>8, <2>2 DEF Settled, Simulator
    <3> HIDE DEF seen, more
    <3> QED
      BY <1>8, <3>1
  <2> QED
    BY <2>1, <2>2
<1> HIDE DEF seen, once, x
<1>10. /\ Simulator(d) /\ SameShape(d, seen) /\ SameShape(d, c) /\ d.defined /\ d.op_counter = n /\ d.cache = seen.cache
       /\ d.hit = seen.hit /\ d.miss = seen.miss /\ d.evict = seen.evict
  <2>1. /\ DOMAIN seen = Fields /\ seen.op_counter = n - 1 /\ seen.defined
        /\ DOMAIN seen.cache = 0 .. pow2[seen.s] * seen.E - 1 /\ \A l \in DOMAIN seen.cache : seen.cache[l] \in Line
        /\ seen.hit \in Nat /\ seen.miss \in Nat /\ seen.evict \in Nat
    BY <1>9 DEF Settled, Simulator
  <2>2. /\ DOMAIN d = Fields /\ d.op_counter = n /\ d.cache = seen.cache /\ d.defined = seen.defined
        /\ d.hit = seen.hit /\ d.miss = seen.miss /\ d.evict = seen.evict
        /\ d.s = seen.s /\ d.E = seen.E /\ d.b = seen.b
    <3>1. Simulator(seen) /\ n \in Nat
      BY <1>1, <1>9 DEF Settled
    <3> QED
      BY <2>1, <3>1, AfterCount
  <2> HIDE DEF d
  <2>3. DOMAIN d.cache = 0 .. pow2[d.s] * d.E - 1
    BY <2>1, <2>2, Zenon
  <2>4. Simulator(d)
    BY <1>1, <2>1, <2>2, <2>3 DEF Simulator
  <2> QED
    BY <1>9, <2>1, <2>2, <2>4 DEF SameShape
<1> HIDE DEF d
<1>11. \A i \in sets(d) : Recent(d, tq, n, i)
  <2> TAKE i \in sets(d)
  <2>1. i \in sets(seen) /\ Recent(seen, tq, n, i)
    BY <1>9, <1>10 DEF SameShape, sets, Settled
  <2> QED
    BY <1>1, <1>10, <2>1, SameLines
<1>12. Counted(d, tq)
  <2>1. /\ \A k \in 1 .. n - 1 : (hits(d, tq, k) <=> hits(c, tr, k)) /\ (evicts(d, tq, k) <=> evicts(c, tr, k))
        /\ (hits(d, tq, n) <=> hits(c, tq, n)) /\ (evicts(d, tq, n) <=> evicts(c, tq, n))
    <3>1. \A k \in 1 .. n - 1 : (hits(d, tq, k) <=> hits(c, tr, k)) /\ (evicts(d, tq, k) <=> evicts(c, tr, k))
      BY <1>1, <1>10, Alike
    <3>2. \A k \in 1 .. n : (hits(d, tq, k) <=> hits(c, tq, k)) /\ (evicts(d, tq, k) <=> evicts(c, tq, k))
      <4>1. \A k \in 1 .. n : tq[k] = tq[k]
        OBVIOUS
      <4> QED
        BY <1>1, <1>10, <4>1, Alike
    <3> QED
      BY <1>1, <3>1, <3>2
  <2>2. /\ Cardinality(hitting(c, tr)) \in Nat
        /\ Cardinality(hitting(d, tq)) = Cardinality(hitting(c, tr)) + (IF hits(c, tq, n) THEN 1 ELSE 0)
    <3>1. /\ hitting(c, tr) \in SUBSET (1 .. n - 1) /\ hitting(d, tq) \in SUBSET (1 .. n)
          /\ \A k \in 1 .. n - 1 : k \in hitting(d, tq) <=> k \in hitting(c, tr)
          /\ n \in hitting(d, tq) <=> hits(c, tq, n)
      BY <1>1, <2>1 DEF hitting
    <3> QED
      BY <1>1, <3>1, CountOneMore
  <2>3. /\ Cardinality(evicting(c, tr)) \in Nat
        /\ Cardinality(evicting(d, tq)) = Cardinality(evicting(c, tr)) + (IF evicts(c, tq, n) THEN 1 ELSE 0)
    <3>1. /\ evicting(c, tr) \in SUBSET (1 .. n - 1) /\ evicting(d, tq) \in SUBSET (1 .. n)
          /\ \A k \in 1 .. n - 1 : k \in evicting(d, tq) <=> k \in evicting(c, tr)
          /\ n \in evicting(d, tq) <=> evicts(c, tq, n)
      BY <1>1, <2>1 DEF evicting
    <3> QED
      BY <1>1, <3>1, CountOneMore
  <2>4. Cardinality(modifies(tr)) \in Nat /\ Cardinality(modifies(tq)) = Cardinality(modifies(tr)) + more
    <3>1. /\ modifies(tr) \in SUBSET (1 .. n - 1) /\ modifies(tq) \in SUBSET (1 .. n)
          /\ \A k \in 1 .. n - 1 : k \in modifies(tq) <=> k \in modifies(tr)
          /\ n \in modifies(tq) <=> a[1] = "M"
      BY <1>1 DEF modifies
    <3> QED
      BY <1>1, <3>1, CountOneMore
  <2>5. /\ hits(c, tq, n) => once.hit = c.hit + 1 /\ once.miss = c.miss /\ once.evict = c.evict /\ ~evicts(c, tq, n)
        /\ ~hits(c, tq, n) => /\ once.hit = c.hit /\ once.miss = c.miss + 1
                              /\ once.evict = IF evicts(c, tq, n) THEN c.evict + 1 ELSE c.evict
    <3>1. Recent(c, tq, n - 1, set(c, tq, n))
      BY <1>5, <1>7, ReadsIs
    <3>2. found(c, tq, n) # {} <=> hits(c, tq, n)
      BY <1>5, <3>1, FoundHits
    <3>3. found(c, tq, n) = {} => (valid(c, set(c, tq, n)) = lines(c, set(c, tq, n)) <=> evicts(c, tq, n))
      BY <1>5, <3>1, NoneEmptyEvicts
    <3>4. hits(c, tq, n) => ~evicts(c, tq, n)
      BY DEF evicts
    <3> QED
      BY <1>8, <3>2, <3>3, <3>4 DEF Counts
  <2>6. /\ c.hit = Cardinality(hitting(c, tr)) + Cardinality(modifies(tr))
        /\ c.miss = n - 1 - Cardinality(hitting(c, tr)) /\ c.evict = Cardinality(evicting(c, tr))
    BY <1>1, <1>6 DEF Counted
  <2> DEFINE H == Cardinality(hitting(c, tr))
             V == Cardinality(evicting(c, tr))
             K == Cardinality(modifies(tr))
  <2>7. H \in Nat /\ V \in Nat /\ K \in Nat /\ more \in Nat /\ n \in Nat
    BY <1>1, <2>2, <2>3, <2>4
  <2> HIDE DEF H, V, K, more
  <2>8. CASE hits(c, tq, n)
    <3>1. Cardinality(hitting(d, tq)) = H + 1 /\ Cardinality(evicting(d, tq)) = V + 0 /\ Cardinality(modifies(tq)) = K + more
      BY <2>2, <2>3, <2>4, <2>5, <2>8 DEF H, V, K
    <3>2. d.hit = H + K + 1 + more /\ d.miss = n - 1 - H /\ d.evict = V
      BY <1>9, <1>10, <2>5, <2>6, <2>8 DEF H, V, K
    <3>3. d.hit = (H + 1) + (K + more) /\ d.miss = n - (H + 1) /\ d.evict = V + 0
      BY <2>7, <3>2
    <3> QED
      BY <1>1, <3>1, <3>3 DEF Counted
  <2>9. CASE ~hits(c, tq, n)
    <3> DEFINE e == IF evicts(c, tq, n) THEN 1 ELSE 0
    <3>1. Cardinality(hitting(d, tq)) = H + 0 /\ Cardinality(evicting(d, tq)) = V + e /\ Cardinality(modifies(tq)) = K + more
      BY <2>2, <2>3, <2>4, <2>9 DEF H, V, K
    <3>2. d.hit = H + K + more /\ d.miss = n - 1 - H + 1 /\ d.evict = V + e
      <4>1. d.hit = H + K + more /\ d.miss = n - 1 - H + 1
        BY <1>9, <1>10, <2>5, <2>6, <2>9 DEF H, K
      <4>2. d.evict = IF evicts(c, tq, n) THEN V + 1 ELSE V
        BY <1>9, <1>10, <2>5, <2>6, <2>9 DEF V
      <4> QED
        BY <2>7, <4>1, <4>2
    <3> HIDE DEF e
    <3>3. d.hit = (H + 0) + (K + more) /\ d.miss = n - (H + 0)
      BY <2>7, <3>2
    <3> QED
      BY <1>1, <3>1, <3>2, <3>3 DEF Counted
  <2> QED
    BY <2>8, <2>9
<1> QED
  BY <1>1, <1>3, <1>10, <1>11, <1>12 DEF Simulates, tq

\* Whatever it reads, csim keeps the parameters of the cache.
LEMMA GotShape ==
  ASSUME NEW c, DOMAIN c = Fields, NEW L, NEW r
  PROVE  DOMAIN got(c, L, r) = Fields /\ SameShape(got(c, L, r), c)
<1> DEFINE here == { n \in L : c.cache[n].is_valid /\ c.cache[n].tag = r.tag }
           none == { n \in L : ~c.cache[n].is_valid }
           undefined == [c EXCEPT !.defined = FALSE]
           hit == touched(c, Min(here))
           miss(l) == [c EXCEPT !.miss = @ + 1, !.cache[l] = r]
           evict == [miss(lru_idx(c, L)) EXCEPT !.evict = @ + 1]
<1>1. DOMAIN undefined = Fields /\ SameShape(undefined, c)
  BY DEF Fields, SameShape
<1>2. DOMAIN hit = Fields /\ SameShape(hit, c)
  BY DEF Fields, SameShape, touched
<1>3. \A l : DOMAIN miss(l) = Fields /\ SameShape(miss(l), c)
  BY DEF Fields, SameShape
<1>4. DOMAIN evict = Fields /\ SameShape(evict, c)
  <2> DEFINE d == miss(lru_idx(c, L))
  <2>1. DOMAIN d = Fields /\ SameShape(d, c)
    BY <1>3
  <2> HIDE DEF d
  <2>2. DOMAIN [d EXCEPT !.evict = @ + 1] = Fields /\ SameShape([d EXCEPT !.evict = @ + 1], d)
    BY <2>1 DEF Fields, SameShape
  <2> QED
    BY <2>1, <2>2 DEF SameShape, d
<1>5. got(c, L, r) = IF ~(L \subseteq DOMAIN c.cache) THEN undefined
                     ELSE IF here # {} THEN hit ELSE IF none # {} THEN miss(Min(none)) ELSE evict
  BY Zenon DEF got
<1> HIDE DEF undefined, hit, miss, evict, here, none
<1> QED
  BY <1>1, <1>2, <1>3, <1>4, <1>5

LEMMA AccessShape ==
  ASSUME NEW c, DOMAIN c = Fields, NEW a \in Data
  PROVE  DOMAIN access(c, a[1], a[2]) = Fields /\ SameShape(access(c, a[1], a[2]), c)
<1> DEFINE x == a[2] % pow2[WIDTH]
           once == get_cache(c, x)
           twice == get_cache(once, x)
           seen == IF a[1] = "M" THEN twice ELSE once
<1>1. \A e : DOMAIN e = Fields => DOMAIN get_cache(e, x) = Fields /\ SameShape(get_cache(e, x), e)
  BY Got, GotShape
<1>2. DOMAIN once = Fields /\ SameShape(once, c)
  BY <1>1
<1>3. DOMAIN twice = Fields /\ SameShape(twice, once)
  BY <1>1, <1>2
<1>4. access(c, a[1], a[2]) = [seen EXCEPT !.op_counter = @ + 1]
  BY DEF Data, access
<1> HIDE DEF once, twice, x
<1>5. DOMAIN seen = Fields /\ SameShape(seen, c)
  BY <1>2, <1>3 DEF SameShape
<1> HIDE DEF seen
<1>6. DOMAIN [seen EXCEPT !.op_counter = @ + 1] = Fields /\ SameShape([seen EXCEPT !.op_counter = @ + 1], seen)
  BY <1>5 DEF SameShape, Fields
<1> QED
  BY <1>4, <1>5, <1>6 DEF SameShape

\* Blocks that are aliased stay so.
LEMMA AliasedStays ==
  ASSUME NEW c, NEW d, SameShape(d, c), NEW tr \in Seq(Data), NEW a \in Data, aliased(c, tr)
  PROVE  aliased(d, Append(tr, a))
<1> DEFINE tq == Append(tr, a)
<1>1. PICK k, n \in DOMAIN tr : block(c, tr, k) # block(c, tr, n) /\ cut(c, tr, k) = cut(c, tr, n)
  BY DEF aliased
<1>2. DOMAIN tr = 1 .. Len(tr) /\ Len(tr) \in Nat
  BY LenProperties
<1>3. \A m \in 1 .. Len(tr) : tq[m] = tr[m]
  BY AppendProperties
<1>4. k \in DOMAIN tq /\ n \in DOMAIN tq
  <2>1. tq \in Seq(Data) /\ Len(tq) = Len(tr) + 1
    BY AppendProperties
  <2>2. DOMAIN tq = 1 .. Len(tr) + 1
    BY <2>1, LenProperties
  <2> QED
    BY <1>1, <1>2, <2>2
<1> HIDE DEF tq
<1>5. /\ block(d, tq, k) = block(c, tr, k) /\ cut(d, tq, k) = cut(c, tr, k)
      /\ block(d, tq, n) = block(c, tr, n) /\ cut(d, tq, n) = cut(c, tr, n)
  BY <1>1, <1>2, <1>3, Alike
<1>6. aliased(d, tq)
  BY <1>1, <1>4, <1>5 DEF aliased
<1> QED
  BY <1>6 DEF tq

\* The cache that main starts with is empty.
LEMMA StartedIs ==
  ASSUME NEW s \in Nat, NEW E \in Nat \ {0}, NEW b \in Nat, s + b < WIDTH
  PROVE  LET c == started(s, E, b) IN Geometry(c) /\ DOMAIN c = Fields /\ Simulates(c, <<>>)
<1> DEFINE c == started(s, E, b)
<1>1. /\ DOMAIN c = Fields /\ c.s = s /\ c.E = E /\ c.b = b /\ c.cache = [n \in 0 .. (pow2[s] * E - 1) |-> empty]
      /\ c.op_counter = 0 /\ c.hit = 0 /\ c.miss = 0 /\ c.evict = 0 /\ c.defined
  BY DEF started, Fields
<1>2. empty \in Line /\ ~empty.is_valid
  BY DEF empty, Line
<1> HIDE DEF c
<1>3. Geometry(c)
  BY <1>1 DEF Geometry
<1>4. Simulator(c)
  <2>1. DOMAIN c.cache = 0 .. pow2[c.s] * c.E - 1 /\ \A l \in DOMAIN c.cache : c.cache[l] = empty
    BY <1>1
  <2> QED
    BY <1>1, <1>2, <2>1 DEF Simulator
<1>5. Len(<<>>) = 0 /\ DOMAIN <<>> = {} /\ 1 .. 0 = {}
  OBVIOUS
<1>6. ASSUME NEW i \in sets(c) PROVE Recent(c, <<>>, 0, i)
  <2>1. lines(c, i) \subseteq DOMAIN c.cache
    BY <1>3, <1>4, Lines, Zenon DEF Simulator
  <2>2. \A l \in lines(c, i) : ~c.cache[l].is_valid
    <3>1. \A l \in DOMAIN c.cache : c.cache[l] = empty
      BY <1>1
    <3> QED
      BY <1>2, <2>1, <3>1
  <2>3. valid(c, i) = {}
    BY <2>2 DEF valid
  <2> QED
    BY <1>5, <2>3 DEF Recent
<1>7. Counted(c, <<>>)
  <2>1. hitting(c, <<>>) = {} /\ evicting(c, <<>>) = {} /\ modifies(<<>>) = {}
    BY <1>5 DEF hitting, evicting, modifies
  <2>2. /\ Cardinality(hitting(c, <<>>)) = 0 /\ Cardinality(evicting(c, <<>>)) = 0
        /\ Cardinality(modifies(<<>>)) = 0
    BY <2>1, FS_EmptySet
  <2>3. 0 + 0 = 0 /\ 0 - 0 = 0
    OBVIOUS
  <2> QED
    BY <1>1, <1>5, <2>2, <2>3, Zenon DEF Counted
<1> QED
  BY <1>1, <1>3, <1>4, <1>5, <1>6, <1>7 DEF Simulates, c

\* csim has read the accesses of data in trace.  With one set, or with blocks
\* that it cannot tell apart, only the parameters are as they were.
Reading ==
  program = "csim" =>
    /\ pc = "csim" /\ trace \in Seq(Data)
    /\ DOMAIN eval = {"flag", "sim"} /\ DOMAIN eval.sim = Fields /\ Geometry(eval.sim)
    /\ eval.sim.s > 0 /\ ~aliased(eval.sim, trace) => Simulates(eval.sim, trace)

LEMMA ReadingInit == Init => Reading
<1> SUFFICES ASSUME Init, program = "csim" PROVE Reading
  BY DEF Reading
<1>1. pc = "csim" /\ trace = <<>>
  BY DEF Init
<1>2. PICK options \in CsimArguments :
        eval = [flag |-> FALSE, sim |-> started(parsed(options).s, parsed(options).E, parsed(options).b)]
  BY DEF Init
<1> DEFINE a == parsed(options)
           c == started(a.s, a.E, a.b)
<1>3. a.s \in Nat /\ a.b \in Nat /\ a.E \in Nat \ {0} /\ a.s + a.b < WIDTH
  BY ArgumentsAssumption
<1>4. DOMAIN eval = {"flag", "sim"} /\ eval.sim = c
  BY <1>2
<1> HIDE DEF a
<1>5. Geometry(c) /\ DOMAIN c = Fields /\ Simulates(c, <<>>)
  BY <1>3, StartedIs
<1>6. <<>> \in Seq(Data)
  OBVIOUS
<1> HIDE DEF c
<1> QED
  BY <1>1, <1>4, <1>5, <1>6 DEF Reading

LEMMA ReadingRead == Reading /\ program = "csim" /\ Read => Reading'
<1> SUFFICES ASSUME Reading, program = "csim", Read PROVE Reading'
  OBVIOUS
<1> DEFINE c == eval.sim
<1>1. PICK a \in Accesses : /\ eval' = [eval EXCEPT !.sim = access(c, a[1], a[2])]
                           /\ trace' = IF a[1] = "I" THEN trace ELSE Append(trace, a)
  BY DEF Read
<1> DEFINE d == access(c, a[1], a[2])
<1>2. program' = program /\ pc' = pc
  BY DEF Read
<1>3. /\ pc = "csim" /\ trace \in Seq(Data) /\ DOMAIN eval = {"flag", "sim"} /\ DOMAIN c = Fields /\ Geometry(c)
      /\ c.s > 0 /\ ~aliased(c, trace) => Simulates(c, trace)
  BY DEF Reading
<1>4. DOMAIN eval' = {"flag", "sim"} /\ eval'.sim = d
  BY <1>1, <1>3
<1>5. CASE a[1] = "I"
  <2>1. d = c /\ trace' = trace
    BY <1>1, <1>5 DEF access
  <2> HIDE DEF d, c
  <2> QED
    BY <1>2, <1>3, <1>4, <2>1 DEF Reading, c
<1>6. CASE a[1] # "I"
  <2>1. a \in Data
    BY <1>6, AccessesAssumption DEF Data
  <2>2. trace' = Append(trace, a) /\ trace' \in Seq(Data)
    BY <1>1, <1>3, <1>6, <2>1, AppendProperties
  <2> HIDE DEF c
  <2>3. DOMAIN d = Fields /\ SameShape(d, c)
    BY <1>3, <2>1, AccessShape
  <2>4. ASSUME c.s > 0, ~aliased(d, Append(trace, a)) PROVE Simulates(d, Append(trace, a))
    <3>1. ~aliased(c, trace)
      BY <1>3, <2>1, <2>3, <2>4, AliasedStays
    <3>2. ~aliased(c, Append(trace, a))
      BY <2>3, <2>4 DEF aliased, block, cut, SameShape
    <3> QED
      BY <1>3, <2>1, <2>4, <3>1, <3>2, AccessKeeps
  <2> HIDE DEF d
  <2>5. Geometry(d) /\ d.s = c.s
    BY <1>3, <2>3 DEF Geometry, SameShape
  <2> QED
    BY <1>2, <1>3, <1>4, <2>2, <2>3, <2>4, <2>5 DEF Reading
<1> QED
  BY <1>5, <1>6

\* Only csim reads its trace, and it does nothing else.
LEMMA ReadingNext == Reading /\ [Next]_vars => Reading'
<1> SUFFICES ASSUME Reading, [Next]_vars, program' = "csim" PROVE Reading'
  BY DEF Reading
<1>1. CASE Begin \/ Iterate \/ Finish \/ sigalrm_handler
  <2>1. program' = program /\ pc # "csim"
    BY <1>1 DEF Begin, Iterate, Finish, sigalrm_handler
  <2> QED
    BY <2>1 DEF Reading
<1>2. CASE Read
  <2>1. program = "csim"
    BY <1>2 DEF Read
  <2> QED
    BY <1>2, <2>1, ReadingRead
<1>3. CASE UNCHANGED vars
  BY <1>3 DEF vars, Reading
<1> QED
  BY <1>1, <1>2, <1>3 DEF Next

(* csim counts what a cache of the blocks used last, set by set, counts:   *)
(* the hits, misses and evictions of csim.c on any trace are those of the  *)
(* definition by reuse, if it has more than one set and no two blocks of   *)
(* the trace agree in the bits that csim.c keeps of an address.            *)
THEOREM CacheLabCountsAsReference == Spec => []CountsAsReference
<1>1. Spec => []Reading
  BY ReadingInit, ReadingNext, PTL DEF Spec
<1>2. Reading => CountsAsReference
  <2> SUFFICES ASSUME Reading, program = "csim", eval.sim.s > 0, ~aliased(eval.sim, trace)
               PROVE  CountsAsReference
    BY DEF CountsAsReference
  <2>1. Simulates(eval.sim, trace)
    BY DEF Reading
  <2>2. eval.sim.defined /\ Counted(eval.sim, trace)
    BY <2>1 DEF Simulates
  <2> QED
    BY <2>2 DEF CountsAsReference, Counted, hitting, modifies, evicting
<1> QED
  BY <1>1, <1>2, PTL
=============================================================================
