----------------------------- MODULE CacheLab -----------------------------
(***************************************************************************)
(* The cache lab: trans.c transposes a matrix A of N rows and M columns,   *)
(* tracegen.c runs one of the registered functions between two markers and *)
(* validates it, and test-trans.c gives the accesses of memory in between  *)
(* to the simulator, whose misses are the score.  The other use of the     *)
(* simulator, test-csim, is here any short trace at all.                   *)
(*                                                                         *)
(* A cell of a matrix is its pair of indices, and A[i][j] holds <<i, j>>.  *)
(***************************************************************************)
EXTENDS Csim

CONSTANTS MatrixSizes,       \* the pairs <<M, N>> that test-trans is called with
          MAXN,              \* the largest dimension it accepts
          A_addr, B_addr,    \* where the arrays are
          Marker_start, Marker_end, Arguments, Stack,  \* the markers, what main reads in between, and the stack
          CsimArguments,     \* the options that csim is called with, in their order
          Accesses, MaxTrace                           \* lines of the traces it reads, and how many of data

\* main of test-trans refuses 0, and its usage asks for numbers of rows and columns.
ASSUME MatrixAssumption == MatrixSizes \subseteq Nat \X Nat

\* A set has a line, and its index and the offset leave bits for a tag; a
\* line of a trace has one of four letters and an address.
ASSUME ArgumentsAssumption ==
    \A options \in CsimArguments :
        LET a == parsed(options)
        IN  a.s \in Nat /\ a.b \in Nat /\ a.E \in Nat \ {0} /\ a.s + a.b < WIDTH
ASSUME AccessesAssumption == Accesses \subseteq {"L", "S", "M", "I"} \X Nat

VARIABLES program,           \* "test-trans" or "csim"
          size,              \* <<M, N>>
          func,              \* the registered function under evaluation
          pc,                \* where tracegen is
          at,                \* the indices i, j and ii of its loops, and the move of the iteration
          B,                 \* what tracegen's B holds
          eval,              \* flag of eval_perf, and the simulator that reads the trace
          results,           \* of the functions evaluated
          trace              \* the accesses of data that csim has read

vars == <<program, size, func, pc, at, B, eval, results, trace>>

M == size[1]
N == size[2]

-----------------------------------------------------------------------------
\* trans.c.  A function is a sequence of iterations, and an iteration one of
\* moves: cells of A are read, then cells of B are written with them.

func_list == <<"transpose_submit", "trans">>
is32 == M = 32 /\ N = 32
is64 == M = 64 /\ N = 64
least(m, n) == IF m < n THEN m ELSE n

eight(i, j) == << [from |-> [k \in 1 .. 8 |-> <<i, j + k - 1>>], to |-> [k \in 1 .. 8 |-> <<j + k - 1, i>>]] >>
fours(i, j) == [ii \in 1 .. 4 |-> [from |-> [k \in 1 .. 4 |-> <<i + k - 1, j + ii - 1>>],
                                   to   |-> [k \in 1 .. 4 |-> <<j + ii - 1, i + k - 1>>]]]
single(i, j) == [from |-> << <<i, j>> >>, to |-> << <<j, i>> >>]
row(i, from, to) == [k \in 1 .. (to - from) |-> single(i, from + k - 1)]

eights(i, j) == [ii \in 1 .. 4 |-> [from |-> [k \in 1 .. 8 |-> <<i + k - 1, j + ii - 1>>],
                                    to   |-> [k \in 1 .. 8 |-> <<j + ii - 1, i + k - 1>>]]]
allEight(x) == IF is64 THEN eights(x.i, x.j)                      \* mutant: 64x64 is not halved
               ELSE row(x.ii, x.j, least(x.j + 18, M))

transpose_submit(x) == CASE is32 -> eight(x.i, x.j)
                         [] is64 -> fours(x.i, x.j) \o fours(x.i + 4, x.j)
                         [] OTHER -> row(x.ii, x.j, least(x.j + 18, M))
trans(x) == <<single(x.i, x.j)>>

submitted == func_list[func] = "transpose_submit"
moves == IF submitted THEN transpose_submit(at) ELSE trans(at)

\* Cases 1 and 2 go down A and then right; the third goes through blocks,
\* and through the rows of a block.  Over is where no loop goes on.
start == [i |-> 0, j |-> 0, ii |-> 0, move |-> 1]
Over == [i |-> -1, j |-> -1, ii |-> -1, move |-> 1]
down(x, rows, columns) == CASE x.i + rows < M -> [x EXCEPT !.i = @ + rows]
                            [] x.i + rows >= M /\ x.j + columns < N -> [x EXCEPT !.i = 0, !.j = @ + columns]
                            [] OTHER -> Over
wholeBlocks(x) == IF x.ii + 1 < least(x.i + 18, N) THEN [x EXCEPT !.ii = @ + 1]       \* mutant
                  ELSE IF x.j + 36 <= M THEN [x EXCEPT !.j = @ + 18, !.ii = x.i]
                  ELSE IF x.i + 36 <= N THEN [x EXCEPT !.i = @ + 18, !.j = 0, !.ii = x.i + 18] ELSE Over
blocks(x) == CASE x.ii + 1 < least(x.i + 18, N) -> [x EXCEPT !.ii = @ + 1]
               [] x.ii + 1 >= least(x.i + 18, N) /\ x.j + 18 < M -> [x EXCEPT !.j = @ + 18, !.ii = x.i]
               [] x.ii + 1 >= least(x.i + 18, N) /\ x.j + 18 >= M /\ x.i + 18 < N -> [x EXCEPT !.i = @ + 18, !.j = 0, !.ii = x.i + 18]
               [] OTHER -> Over
rowByRow(x) == CASE x.j + 1 < M -> [x EXCEPT !.j = @ + 1]
                 [] x.j + 1 >= M /\ x.i + 1 < N -> [x EXCEPT !.i = @ + 1, !.j = 0]
                 [] OTHER -> Over

next(x) == CASE ~submitted -> rowByRow(x)
             [] submitted /\ is32 -> down(x, 1, 8)
             [] submitted /\ is64 -> down(x, 8, 4)
             [] OTHER -> blocks(x)

-----------------------------------------------------------------------------
\* test-trans.c: the filter of eval_perf, for one access of the full trace.

MAX_ADDR == pow2[WIDTH] - 1           \* 0xffffffff

filter(e, a) ==
    LET on == e.flag \/ a[2] = Marker_start
    IN  [flag |-> on /\ a[2] # Marker_end,
         sim  |-> IF on /\ a[2] < MAX_ADDR THEN access(e.sim, a[1], a[2]) ELSE e.sim]

\* eval_perf runs the executable csim-ref, whose source is not there; csim.c,
\* which is to give the same numbers, stands for it.
traced(accesses) == eval' = FoldLeft(filter, eval, accesses)
loads(addresses) == [k \in DOMAIN addresses |-> <<"L", addresses[k]>>]
stores(addresses) == [k \in DOMAIN addresses |-> <<"S", addresses[k]>>]

fresh == [flag |-> FALSE, sim |-> started(5, 1, 5)]
cells == (0 .. M - 1) \X (0 .. N - 1)             \* of B
random == <<>>
initMatrix == [cell \in cells |-> random]

\* main of test-trans, and of tracegen up to the call of the function:
\* what initMatrix writes comes before the marker.
Begin ==
    /\ pc = "main"
    /\ IF M = 0 \/ N = 0 \/ M > MAXN \/ N > MAXN
       THEN pc' = "refused" /\ UNCHANGED <<at, B, eval>>
       ELSE /\ pc' = "transpose" /\ at' = start /\ B' = initMatrix
            /\ traced(stores(<<A_addr, B_addr, Marker_start>>) \o loads(Arguments))
    /\ UNCHANGED <<program, size, func, results, trace>>

\* B after the writes of a move: A[i][j] holds <<i, j>>.
stored(m) ==
    LET b[k \in 0 .. Len(m.to)] == IF k = 0 THEN B ELSE [b[k - 1] EXCEPT ![m.to[k]] = m.from[k]]
    IN  b[Len(m.to)]

\* A move of an iteration of the loops, with an access of the stack.
Iterate ==
    /\ pc = "transpose"
    /\ LET m == moves[at.move]
           A_at(cell) == A_addr + 4 * (cell[1] * M + cell[2])
           B_at(cell) == B_addr + 4 * (cell[1] * N + cell[2])
       IN  /\ traced(<< <<"S", Stack>> >> \o loads([k \in DOMAIN m.from |-> A_at(m.from[k])])
                     \o stores([k \in DOMAIN m.to |-> B_at(m.to[k])]))
           /\ B' = stored(m)
    /\ LET after == IF at.move < Len(moves) THEN [at EXCEPT !.move = @ + 1] ELSE [next(at) EXCEPT !.move = 1]
       IN  IF after = Over THEN at' = at /\ pc' = "returned" ELSE at' = after /\ pc' = pc
    /\ UNCHANGED <<program, size, func, results, trace>>

correctTrans == [cell \in cells |-> <<cell[2], cell[1]>>]
validate == \A cell \in cells : B[cell] = correctTrans[cell]

\* After the end marker, the simulator's counts are the function's if it is
\* valid; a new process traces the next one.
Finish ==
    /\ pc = "returned"
    /\ \E e \in {FoldLeft(filter, eval, stores(<<Marker_end>>))} :
         results' = Append(results, [correct |-> validate, hits |-> e.sim.hit,
                                     misses |-> e.sim.miss, evictions |-> e.sim.evict])
    /\ eval' = fresh /\ B' = <<>>
    /\ IF func < Len(func_list) THEN func' = func + 1 /\ pc' = "main"
                                ELSE func' = func /\ pc' = "done"
    /\ UNCHANGED <<program, size, at, trace>>

\* The alarm main has set goes off at any moment of eval_perf: the result is
\* 0:0 and not what has been found.
sigalrm_handler ==
    /\ pc \in {"transpose", "returned"} \/ (pc = "main" /\ func > 1)
    /\ pc' = "timed out" /\ results' = <<>>
    /\ UNCHANGED <<program, size, func, at, B, eval, trace>>

\* csim on a line of its trace.
Read ==
    /\ program = "csim" /\ Len(trace) < MaxTrace /\ eval.sim.defined
    /\ \E a \in Accesses : /\ eval' = [eval EXCEPT !.sim = access(@, a[1], a[2])]
                          /\ trace' = IF a[1] = "I" THEN trace ELSE Append(trace, a)
    /\ UNCHANGED <<program, size, func, pc, at, B, results>>

Init ==
    /\ func = 1 /\ at = start /\ B = <<>> /\ results = <<>> /\ trace = <<>>
    /\ \/ program = "test-trans" /\ size \in MatrixSizes /\ pc = "main" /\ eval = fresh
       \/ /\ program = "csim" /\ size = <<0, 0>> /\ pc = "csim"
          /\ \E a \in { parsed(options) : options \in CsimArguments } :
                eval = [flag |-> FALSE, sim |-> started(a.s, a.E, a.b)]

Next == Begin \/ Iterate \/ Finish \/ sigalrm_handler \/ Read
Spec == Init /\ [][Next]_vars

-----------------------------------------------------------------------------
\* What a cache that keeps, of every set, the c.E blocks used last does with
\* access n of tr: the block is found when fewer than E others of its set
\* were used since it was, and evicts when E others were used before.
block(c, tr, n) == tr[n][2] \div pow2[c.b]
set(c, tr, n) == block(c, tr, n) % pow2[c.s]
others(c, tr, from, n) ==
    Cardinality({ block(c, tr, k) : k \in { m \in from .. n - 1 : set(c, tr, m) = set(c, tr, n) } } \ {block(c, tr, n)})
before(c, tr, n) == { k \in 1 .. n - 1 : block(c, tr, k) = block(c, tr, n) }
hits(c, tr, n) == before(c, tr, n) # {} /\ others(c, tr, Max(before(c, tr, n)), n) < c.E
evicts(c, tr, n) == ~hits(c, tr, n) /\ others(c, tr, 1, n) >= c.E

\* Two blocks have addresses with the same WIDTH bits at the end.
cut(c, tr, n) == (tr[n][2] % pow2[WIDTH]) \div pow2[c.b]
aliased(c, tr) == \E k, n \in DOMAIN tr : block(c, tr, k) # block(c, tr, n) /\ cut(c, tr, k) = cut(c, tr, n)

\* The counts are those of the reference, whenever there is more than one
\* set and no two blocks of the trace are aliased.  A store of M is a hit.
CountsAsReference ==
    LET sim == eval.sim
        found == { n \in DOMAIN trace : hits(sim, trace, n) }
    IN  program = "csim" /\ sim.s > 0 /\ ~aliased(sim, trace) =>
          /\ sim.defined
          /\ sim.hit = Cardinality(found) + Cardinality({ n \in DOMAIN trace : trace[n][1] = "M" })
          /\ sim.miss = Len(trace) - Cardinality(found)
          /\ sim.evict = Cardinality({ n \in DOMAIN trace : evicts(sim, trace, n) })

\* Every function reads inside A and writes inside B, and what it has
\* written is the transpose, whatever the size of the matrix is a multiple of.
TransposesCorrect ==
    /\ pc = "transpose" =>
         LET m == moves[at.move]
         IN  /\ \A k \in DOMAIN m.from : m.from[k] \in (0 .. N - 1) \X (0 .. M - 1)
             /\ \A k \in DOMAIN m.to : m.to[k] \in cells
    /\ \A k \in DOMAIN results : results[k].correct

\* The misses of the submission stay within the limits of driver.py: 300
\* and 2000 for a full score at 32x32 and 61x67 (report.md says less than
\* 2000 for the last), and 2000 for any score at 64x64.
MissesWithinLimits ==
    results # <<>> => /\ is32 => results[1].misses <= 300
                      /\ is64 => results[1].misses < 2000
                      /\ size = <<61, 67>> => results[1].misses < 2000
=============================================================================
