------------------------------ MODULE MDriver ------------------------------
(***************************************************************************)
(* mdriver.c: the driver of the malloc lab, with the allocator it is       *)
(* linked with.  It reads a trace of requests, replays it once with every  *)
(* check (eval_mm_valid), and, if nothing was wrong, replays it for the    *)
(* peak of the payloads (eval_mm_util) and for time (eval_mm_speed, which  *)
(* fsecs calls again and again).  Each replay starts from mem_reset_brk    *)
(* and mm_init, on memory that still holds the last one.  At the end main  *)
(* computes the performance index.                                         *)
(***************************************************************************)
EXTENDS MemLib, Timing, SequencesExt, FiniteSets

CONSTANTS CHUNKSIZE, NUM_CLASSES,
          Builds,        \* an allocator and a timer each: the programs that may be linked
          Ids,           \* the indices of the blocks of a trace: 0, 1, ...
          Sizes,         \* the sizes requested, in whole words
          MaxOps,        \* bound on the length of a trace, by allocator
          NumTraces,     \* how many traces main goes through
          UTIL_WEIGHT,   \* in percent
          AVG_LIBC_THRUPUT,   \* requests per microsecond
          Durations,     \* what one run of eval_mm_speed may take
          Counts,        \* what the clock may say when a measurement starts
          Cost,          \* the cycles of a timer interrupt
          Gaps           \* what callibrate may see: [cycles, ticks]

\* The heads of an even number of lists keep the blocks aligned.
ASSUME ClassesAssumption == NUM_CLASSES \in Nat \ {0} /\ NUM_CLASSES % 2 = 0

Explicit == INSTANCE ExplicitMM
Segregated == INSTANCE SegregatedMM
Naive == INSTANCE NaiveMM

VARIABLES package, timer,   \* the allocator and the timer it is built with
          heap,
          phase,         \* the function of the driver that runs
          ops,           \* trace->ops
          opnum,         \* how many of them the running function has done
          blocks,        \* trace->blocks
          block_sizes,   \* trace->block_sizes
          ranges,        \* the range list of eval_mm_valid
          total,         \* total_size and max_total_size of eval_mm_util
          errors, tracenum,
          measure,       \* the measurement of fsecs
          mm_stats, perfindex,
          placed         \* history: the block each request got in eval_mm_valid

build == <<package, timer>>
score == <<mm_stats, perfindex>>
vars == <<build, heap, phase, ops, opnum, blocks, block_sizes, ranges, total, errors, tracenum, measure, score, placed>>

mm_init(h) == CASE package = "explicit" -> Explicit!mm_init(h)
                [] package = "segregated" -> Segregated!mm_init(h)
                [] package = "naive" -> Naive!mm_init(h)
mm_malloc(h, size) == CASE package = "explicit" -> Explicit!mm_malloc(h, size)
                        [] package = "segregated" -> Segregated!mm_malloc(h, size)
                        [] package = "naive" -> Naive!mm_malloc(h, size)
mm_free(h, p) == CASE package = "explicit" -> Explicit!mm_free(h, p)
                   [] package = "segregated" -> Segregated!mm_free(h, p)
                   [] package = "naive" -> Naive!mm_free(h, p)
mm_realloc(h, p, size) == CASE package = "explicit" -> Explicit!mm_realloc(h, p, size)
                            [] package = "segregated" -> Segregated!mm_realloc(h, p, size)
                            [] package = "naive" -> Naive!mm_realloc(h, p, size)

\* index & 0xFF in every byte of a word
fill == [id \in Ids |-> id * 16843009]

Requests == [type : {"ALLOC", "REALLOC"}, index : Ids, size : Sizes]
            \union [type : {"FREE"}, index : Ids, size : {0}]

\* The blocks that are allocated after the first n requests.
live(n) == { id \in Ids : \E j \in 1 .. n : /\ ops[j].index = id /\ ops[j].type # "FREE"
                                            /\ \A k \in j + 1 .. n : ops[k].index # id }
mentioned == { ops[j].index : j \in 1 .. Len(ops) }

-----------------------------------------------------------------------------
\* The lines of a trace file that belong together: a block is allocated
\* once, in the order of the indices, and resized and freed while it lives.
Legal(r) == IF r.type = "ALLOC" THEN r.index = Cardinality(mentioned) ELSE r.index \in live(Len(ops))

ReadRequest ==
    /\ phase = "read_trace" /\ Len(ops) < MaxOps[package]
    /\ \E r \in Requests : Legal(r) /\ ops' = Append(ops, r)
    /\ UNCHANGED <<build, measure, score, heap, phase, opnum, blocks, block_sizes, ranges, total, errors, tracenum, placed>>

\* A function starts: the heap is emptied and the package initialised.
Restart(h, next) ==
    /\ heap' = h /\ phase' = next /\ opnum' = 0
    /\ total' = [size |-> 0, max |-> 0]
    /\ UNCHANGED <<build, ops, blocks, block_sizes, tracenum, measure, perfindex>>

fresh == mm_init(mem_reset_brk(heap))

StartValid ==
    /\ phase = "read_trace" /\ ops # <<>>
    /\ ranges' = <<>> /\ placed' = <<>>
    /\ mm_stats' = [mm_stats EXCEPT ![tracenum].ops = Len(ops)]
    /\ \E f \in {fresh} :
          /\ errors' = errors + (IF f.p = NULL THEN 1 ELSE 0)
          /\ Restart(f.h, IF f.p = NULL THEN "free_trace" ELSE "eval_mm_valid")

\* app_error ends the driver when mm_init fails.
StartUtil ==
    /\ phase = "eval_mm_valid" /\ opnum = Len(ops)
    /\ mm_stats' = [mm_stats EXCEPT ![tracenum].valid = TRUE]
    /\ Restart(fresh.h, IF fresh.p = NULL THEN "exit" ELSE "eval_mm_util")
    /\ UNCHANGED <<ranges, errors, placed>>

-----------------------------------------------------------------------------
op == ops[opnum + 1]
Working(function) == phase = function /\ opnum < Len(ops)

\* What the package answers to the next request.
reply(h, b, r) == CASE r.type = "ALLOC" -> mm_malloc(h, r.size)
                    [] r.type = "REALLOC" -> mm_realloc(h, b[r.index], r.size)
                    [] r.type = "FREE" -> [h |-> mm_free(h, b[r.index]), p |-> NULL]
answer == reply(heap, blocks, op)

\* The range list only looks at the ends of the new range.
overlaps(lo, hi, r) == lo \in r.lo .. r.hi \/ hi \in r.lo .. r.hi
in_heap(h, a) == a >= mem_heap_lo /\ a <= mem_heap_hi(h)
add_range_ok(rs, h, lo, size) ==
    /\ lo % 8 = 0
    /\ in_heap(h, lo) /\ in_heap(h, lo + size - 1)
    /\ \A n \in 1 .. Len(rs) : ~overlaps(lo, lo + size - 1, rs[n])
add_range(rs, lo, size) == <<[lo |-> lo, hi |-> lo + size - 1]>> \o rs
keep_range(rs, lo) == rs                                  \* mutant: the old range stays
remove_range(rs, lo) == RemoveFirstMatch(rs, LAMBDA r : r.lo = lo)

\* malloc_error: the trace is not evaluated any further.
malloc_error ==
    /\ errors' = errors + 1 /\ phase' = "free_trace"
    /\ UNCHANGED <<build, measure, score, ops, opnum, blocks, block_sizes, total, tracenum, placed>>

Remember(p) ==
    /\ blocks' = [blocks EXCEPT ![op.index] = p]
    /\ block_sizes' = [block_sizes EXCEPT ![op.index] = op.size]

\* mm_realloc must have brought the old words, as far as both sizes go.
kept(h, p) ==
    LET old == block_sizes[op.index]
        n   == IF op.size < old THEN op.size ELSE old
    IN  \A a \in Words : a >= p /\ a < p + n => h.mem[a] = fill[op.index]

\* The new block passes the checks and is filled, or the trace is invalid.
Check(a, rs, preserved) ==
    IF a.p # NULL /\ add_range_ok(rs, a.h, a.p, op.size) /\ preserved
    THEN /\ heap' = memset(a.h, a.p, fill[op.index], op.size)
         /\ ranges' = add_range(rs, a.p, op.size)
         /\ Remember(a.p)
         /\ opnum' = opnum + 1 /\ placed' = Append(placed, a.p)
         /\ UNCHANGED <<build, measure, score, phase, ops, total, errors, tracenum>>
    ELSE heap' = a.h /\ ranges' = rs /\ malloc_error

ValidAlloc ==
    /\ Working("eval_mm_valid") /\ op.type = "ALLOC"
    /\ \E a \in {answer} : Check(a, ranges, TRUE)

ValidRealloc ==
    /\ Working("eval_mm_valid") /\ op.type = "REALLOC"
    /\ \E a \in {answer} :
          Check(a, IF a.p = NULL THEN ranges ELSE remove_range(ranges, blocks[op.index]),
                a.p # NULL => kept(a.h, a.p))

ValidFree ==
    /\ Working("eval_mm_valid") /\ op.type = "FREE"
    /\ heap' = answer.h /\ ranges' = remove_range(ranges, blocks[op.index])
    /\ opnum' = opnum + 1 /\ placed' = Append(placed, NULL)
    /\ UNCHANGED <<build, measure, score, phase, ops, blocks, block_sizes, total, errors, tracenum>>

-----------------------------------------------------------------------------
\* app_error: the driver exits when a replay fails.
Fails(a, r) == r.type # "FREE" /\ a.p = NULL

\* What the request adds to the payload of all blocks.
gainWhole == IF op.type = "FREE" THEN 0 - block_sizes[op.index] ELSE op.size   \* mutant: the old size stays
gain == (IF op.type = "FREE" THEN 0 ELSE op.size) - (IF op.type = "ALLOC" THEN 0 ELSE block_sizes[op.index])
counted(t, n) == [size |-> t.size + n, max |-> IF t.size + n > t.max THEN t.size + n ELSE t.max]

UtilRequest ==
    /\ Working("eval_mm_util")
    /\ \E a \in {answer} : IF Fails(a, op)
          THEN heap' = a.h /\ phase' = "exit" /\ UNCHANGED <<opnum, blocks, block_sizes, total>>
          ELSE /\ heap' = a.h /\ phase' = phase /\ opnum' = opnum + 1
               /\ IF op.type = "FREE" THEN UNCHANGED <<blocks, block_sizes>> ELSE Remember(a.p)
               /\ total' = counted(total, gain)
    /\ UNCHANGED <<build, measure, score, ops, ranges, errors, tracenum, placed>>

\* A replay of the whole trace, up to the request that fails.
eval_mm_speed ==
    LET replay[n \in 0 .. Len(ops)] ==
            IF n = 0 THEN [h |-> fresh.h, blocks |-> blocks, ok |-> fresh.p # NULL]
            ELSE LET before == replay[n - 1]
                     r == ops[n]
                     a == reply(before.h, before.blocks, r)
                 IN  IF ~before.ok THEN before
                     ELSE [h |-> a.h, ok |-> ~Fails(a, r),
                           blocks |-> IF Fails(a, r) \/ r.type = "FREE" THEN before.blocks
                                      ELSE [before.blocks EXCEPT ![r.index] = a.p]]
    IN  replay[Len(ops)]

\* fsecs starts a measurement: ftimer reads its clock once, fcyc for every
\* sample.
StartTiming ==
    /\ phase = "eval_mm_util" /\ opnum = Len(ops)
    /\ phase' = "fsecs"
    /\ mm_stats' = [mm_stats EXCEPT ![tracenum].util = (100 * total.max) \div mem_heapsize(heap)]
    /\ \E start \in (IF timer = "fcyc" THEN {0} ELSE Counts) :
          measure' = [measure EXCEPT !.sampler = init_sampler, !.start = start, !.now = start, !.spent = <<>>]
    /\ UNCHANGED <<build, heap, ops, opnum, blocks, block_sizes, ranges, total, errors, tracenum, perfindex, placed>>

\* One sample: the counter is read before and after, and what the ticks in
\* between cost is taken off.
readings(took) ==
    { get_counter(access_counter(start), access_counter(start + took)) : start \in Counts }
charges == IF measure.cyc_per_tick # 0 THEN {measure.cyc_per_tick}
           ELSE { callibrate(0, gaps) : gaps \in Events(Gaps) }
Sample(duration) ==
    \E per \in charges, ticks \in {0, 1} : \E time \in readings(duration + ticks * Cost) :
        measure' = [measure EXCEPT !.cyc_per_tick = per, !.cache_buf = TRUE,
                                   !.sampler = add_sample(@, get_comp_counter(time, ticks, per)),
                                   !.spent = Append(@, duration + ticks * (Cost - per))]

Run(duration) == measure' = [measure EXCEPT !.now = @ + duration, !.spent = Append(@, duration)]

finished(m) == IF timer = "fcyc" THEN sampled(m.sampler) ELSE Len(m.spent) = runs

TimedCall ==
    /\ phase = "fsecs"
    /\ \E r \in {eval_mm_speed} :
          /\ heap' = r.h /\ blocks' = r.blocks
          /\ IF ~r.ok THEN phase' = "exit" /\ UNCHANGED <<measure, mm_stats>>
             ELSE /\ \E d \in Durations : IF timer = "fcyc" THEN Sample(d) ELSE Run(d)
                  /\ IF ~finished(measure') THEN UNCHANGED <<phase, mm_stats>>
                     ELSE /\ phase' = "free_trace"
                          /\ mm_stats' = [mm_stats EXCEPT ![tracenum].secs =
                                            fsecs(timer, measure'.sampler, measure'.start, measure'.now)]
    /\ UNCHANGED <<build, ops, opnum, block_sizes, ranges, total, errors, tracenum, perfindex, placed>>

\* Before a sample the cache is swept with a buffer, which is allocated the
\* first time: without it, the process ends.
clear ==
    /\ phase = "fsecs" /\ timer = "fcyc" /\ ~measure.cache_buf
    /\ phase' = "exit 1"
    /\ UNCHANGED <<build, heap, ops, opnum, blocks, block_sizes, ranges, total, errors, tracenum, measure, score, placed>>

-----------------------------------------------------------------------------
\* main goes on to the next trace.
FreeTrace ==
    /\ phase = "free_trace"
    /\ ops' = <<>> /\ opnum' = 0
    /\ tracenum' = tracenum + 1
    /\ phase' = IF tracenum + 1 < NumTraces THEN "read_trace" ELSE "report"
    /\ blocks' = [id \in Ids |-> NULL] /\ block_sizes' = [id \in Ids |-> 0] /\ placed' = <<>>
    /\ UNCHANGED <<build, heap, ranges, total, errors, measure, score>>

sum(field) == FoldFunction(+, 0, [i \in DOMAIN mm_stats |-> mm_stats[i][field]])
\* The seconds of all traces; invalid ones took none.
secs == FoldFunction(LAMBDA a, b : [num |-> a.num * b.den + b.num * a.den, den |-> a.den * b.den],
                     [num |-> 0, den |-> 1], [i \in DOMAIN mm_stats |-> mm_stats[i].secs])

\* In whole percents: more throughput than libc's earns nothing, and no
\* time at all is an infinite throughput.
p1 == (UTIL_WEIGHT * (sum("util") \div NumTraces)) \div 100
p2 == IF sum("ops") * secs.den > AVG_LIBC_THRUPUT * secs.num THEN 100 - UTIL_WEIGHT
      ELSE ((100 - UTIL_WEIGHT) * sum("ops") * secs.den) \div (AVG_LIBC_THRUPUT * secs.num)

Report ==
    /\ phase = "report"
    /\ perfindex' = IF errors = 0 THEN p1 + p2 ELSE 0
    /\ phase' = "exit 0"
    /\ UNCHANGED <<build, heap, ops, opnum, blocks, block_sizes, ranges, total, errors, tracenum, measure, mm_stats, placed>>

Init ==
    /\ \E b \in Builds : package = b[1] /\ timer = b[2]
    /\ heap = mem_init /\ ranges = <<>> /\ errors = 0 /\ tracenum = 0
    /\ phase = "read_trace" /\ ops = <<>> /\ opnum = 0 /\ placed = <<>>
    /\ blocks = [id \in Ids |-> NULL] /\ block_sizes = [id \in Ids |-> 0]
    /\ total = [size |-> 0, max |-> 0]
    /\ measure = [cache_buf |-> FALSE, cyc_per_tick |-> 0, sampler |-> init_sampler, start |-> 0, now |-> 0, spent |-> <<>>]
    /\ mm_stats = [i \in 0 .. NumTraces - 1 |-> [valid |-> FALSE, util |-> 0, secs |-> [num |-> 0, den |-> 1], ops |-> 0]]
    /\ perfindex = 0

Next == \/ ReadRequest \/ StartValid \/ StartUtil \/ StartTiming
        \/ ValidAlloc \/ ValidRealloc \/ ValidFree
        \/ UtilRequest \/ TimedCall \/ clear \/ FreeTrace \/ Report

Spec == Init /\ [][Next]_vars

-----------------------------------------------------------------------------
InReplay == phase \in {"eval_mm_valid", "eval_mm_util", "fsecs"}
Tagged == InReplay /\ package # "naive"

first_block == IF package = "explicit" THEN Explicit!first_block ELSE Segregated!first_block
heads == IF package = "explicit" THEN {Explicit!free_listp}
         ELSE { Segregated!head(c) : c \in Segregated!Classes }

E == INSTANCE Blocks

\* From the first block on, each block's size leads to the next, up to the
\* epilogue.
walk ==
    LET prefix[n \in 0 .. MAX_HEAP \div 16] ==
            IF n = 0 THEN <<first_block>>
            ELSE LET before == prefix[n - 1]
                     bp == Last(before)
                 IN  IF bp \notin Words \/ E!GET_SIZE(heap, E!HDRP(bp)) = 0 THEN before
                     ELSE Append(before, E!NEXT_BLKP(heap, bp))
    IN  prefix[MAX_HEAP \div 16]
all_blocks == ToSet(Front(walk))
free_blocks == { b \in all_blocks : E!GET_ALLOC(heap, E!HDRP(b)) = 0 }

\* The last request for a live block is the one that sized it.
last_request(id) == CHOOSE j \in 1 .. opnum : /\ ops[j].index = id
                                             /\ \A k \in j + 1 .. opnum : ops[k].index # id

\* However blocks are placed, split, freed and joined: the blocks of both
\* boundary-tag allocators tile the heap up to its end, their header and
\* footer agree, the allocated ones are those of the live payloads, with
\* room for them, and no two free ones lie side by side.
BlocksTile ==
    Tagged =>
    /\ Last(walk) = heap.brk /\ heap.mem[E!HDRP(heap.brk)] = E!PACK(0, 1)
    /\ \A b \in all_blocks : /\ E!GET_SIZE(heap, E!HDRP(b)) >= 16
                             /\ heap.mem[E!HDRP(b)] = heap.mem[E!FTRP(heap, b)]
    /\ { blocks[id] : id \in live(opnum) } = all_blocks \ free_blocks
    /\ \A id \in live(opnum) : E!GET_SIZE(heap, E!HDRP(blocks[id])) >= ops[last_request(id)].size + 8
    /\ \A b \in free_blocks : E!NEXT_BLKP(heap, b) \notin free_blocks

\* The free lists hold every free block once and nothing else, linked in
\* both directions; a segregated list holds its own class, largest first.
FreeListsExact ==
    Tagged =>
    /\ UNION { ToSet(E!FreeList(heap, d)) : d \in heads } = free_blocks
    /\ \A d \in heads : LET list == <<d>> \o E!FreeList(heap, d)
                        IN  /\ IsInjective(list)
                            /\ \A n \in 2 .. Len(list) : E!PREV_FREE(heap, list[n]) = list[n - 1]
    /\ package = "segregated" =>
         \A c \in Segregated!Classes : LET list == E!FreeList(heap, Segregated!head(c))
                                          size(p) == E!GET_SIZE(heap, E!HDRP(p))
              IN  /\ \A n \in DOMAIN list : Segregated!class_num(size(list[n])) = c
                  /\ \A n \in 1 .. Len(list) - 1 : size(list[n]) >= size(list[n + 1])

\* The replay for utilisation and every one for time, on the memory the
\* earlier replays left, get the blocks eval_mm_valid got: nothing of an
\* earlier replay shows, and the driver does not exit.
ReplaysAlike ==
    /\ phase # "exit"
    /\ phase \in {"eval_mm_util", "fsecs"} =>
         \A id \in live(opnum) : blocks[id] = placed[last_request(id)]

\* eval_mm_util accounts for the live payloads, and their peak is never
\* more than the heap: no utilisation is above one, so that the index main
\* prints is between 0 and 100, and 0 unless every trace was valid.
UtilizationSound ==
    /\ phase = "eval_mm_util" =>
         /\ total.size = FoldFunction(+, 0, [id \in live(opnum) |-> block_sizes[id]])
         /\ total.size <= total.max /\ total.max <= mem_heapsize(heap)
    /\ phase = "exit 0" =>
         /\ perfindex \in 0 .. 100
         /\ perfindex > 0 => \A i \in DOMAIN mm_stats : mm_stats[i].valid

\* Whatever the counter wraps around to, however the seconds turn and
\* whichever ticks are taken off: the sampler holds the best of the times
\* the runs took, in order, and fsecs returns the best of them, or with
\* either clock of ftimer their average.
TimesTrue ==
    LET m == measure
        best(k) == SubSeq(SortSeq(m.spent, <), 1, k)
        truth == IF timer = "fcyc" THEN [num |-> best(1)[1], den |-> Mhz]
                 ELSE [num |-> FoldSeq(+, 0, m.spent), den |-> runs]
    IN  /\ timer = "fcyc" => m.sampler.values = best(IF Len(m.spent) < kbest THEN Len(m.spent) ELSE kbest)
        /\ phase = "free_trace" /\ mm_stats[tracenum].valid =>
             mm_stats[tracenum].secs.num * truth.den = truth.num * mm_stats[tracenum].secs.den

\* A trace is only ever found invalid because memory ran out: no overlap,
\* no block outside the heap, no lost data.
ErrorMeansNoMemory ==
    [][errors' > errors => IF phase = "read_trace" THEN fresh.p = NULL ELSE answer.p = NULL]_vars

grows == opnum' = opnum + 1 /\ heap'.brk > heap.brk
no_fit == \A b \in free_blocks : E!GET_SIZE(heap, E!HDRP(b)) < E!get_asize(op.size)

\* The explicit list grows the heap only for a request that no free block
\* is large enough for, wherever that block is and however it came about.
GrowsOnlyWithoutFit == [][package = "explicit" /\ grows => no_fit]_vars

\* The payloads while eval_mm_valid runs; whoever replays later stores
\* nothing.
payload(id) ==
    [lo |-> blocks[id], size |-> block_sizes[id],
     data |-> [n \in 0 .. (block_sizes[id] \div WSIZE) - 1 |-> heap.mem[blocks[id] + WSIZE * n]]]
Payloads == INSTANCE PayloadHeap WITH Places <- Words,
    store <- IF phase = "eval_mm_valid" THEN [id \in live(opnum) |-> payload(id)] ELSE <<>>

\* Every allocator gives blocks that are disjoint and that nothing but
\* their owner writes to.
ImplementsPayloadHeap == Payloads!Spec
=============================================================================
