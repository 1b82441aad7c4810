----------------------------- MODULE Lab5Driver -----------------------------
(***************************************************************************)
(* lab5/mdriver.c, and mdriver-realloc.c, which also accepts requests to   *)
(* resize.  With -l the driver first goes through its trace files with the *)
(* allocator of the C library, then, always, with the one of the lab: it   *)
(* checks every answer, measures utilisation and time, and computes the    *)
(* performance index.  The C library's allocator is a pointer or NULL.     *)
(***************************************************************************)
EXTENDS Lab5MM

CONSTANTS Setups,        \* [driver, written, timer, l]: the programs that may be built and started
          FileLists,     \* the lists of trace files they may be given
          UTIL_WEIGHT,   \* in percent
          AVG_LIBC_THRUPUT,   \* requests per unit of time
          Durations,     \* how long a timed replay may take
          runs           \* how often fsecs calls the function: 10

VARIABLES setup, files,
          phase,         \* the function that runs
          pass,          \* whose allocator is evaluated: "libc" or "mm"
          tracenum, opnum,
          heap, blocks, block_sizes, ranges, errors,
          spent,         \* the durations of the measurement
          stats,         \* libc_stats and mm_stats
          perfindex

main == <<setup, files>>
trace == <<blocks, block_sizes>>
vars == <<main, phase, pass, tracenum, opnum, heap, trace, ranges, errors, spent, stats, perfindex>>

num_tracefiles == Len(files)
ops == files[tracenum + 1]
Ids == UNION { { f[n].index : n \in DOMAIN f } : f \in UNION { ToSet(l) : l \in FileLists } }
no_blocks == [id \in Ids |-> NULL]
LIBC == -2                       \* a pointer of the C library

malloc(h, size) == mm_malloc(h, size, setup.written)
reply(h, b, r) == CASE r.type = "ALLOC" -> malloc(h, r.size)
                    [] r.type = "REALLOC" -> mm_realloc(h, b[r.index], r.size)
                    [] r.type = "FREE" -> [h |-> mm_free(h, b[r.index], setup.written), p |-> NULL]
Fails(a, r) == r.type # "FREE" /\ a.p \in {NULL, Failed}

noStats == [valid |-> FALSE, util |-> 0, secs |-> 0, ops |-> 0]
Note(field, val) == stats' = [stats EXCEPT ![pass][tracenum][field] = val]

-----------------------------------------------------------------------------
\* The timing package: the counter of clock.c ends the process where it
\* has not been implemented.
init_fsecs ==
    /\ phase = "init_fsecs"
    /\ phase' = IF setup.timer = "fcyc" THEN "exit" ELSE "read_trace"
    /\ UNCHANGED <<main, pass, tracenum, opnum, heap, trace, ranges, errors, spent, stats, perfindex>>

read_trace ==
    /\ phase = "read_trace"
    /\ opnum' = 0 /\ blocks' = no_blocks /\ block_sizes' = no_blocks
    /\ Note("ops", Len(ops))
    /\ phase' = IF pass = "libc" THEN "eval_libc_valid" ELSE "eval_mm_valid"
    /\ IF pass = "libc" THEN UNCHANGED <<heap, ranges>>
       ELSE heap' = mm_init(mem_reset_brk(heap)) /\ ranges' = <<>>          \* clear_ranges
    /\ UNCHANGED <<main, pass, tracenum, errors, spent, perfindex>>

\* A replay with the C library, which may be out of memory at any request
\* for a block: unix_error ends the process.
touched(n) == [id \in Ids |-> IF \E k \in 1 .. n : ops[k].index = id THEN LIBC ELSE blocks[id]]
libc_replays == { [ok |-> TRUE, blocks |-> touched(Len(ops))] }
                \union { [ok |-> FALSE, blocks |-> touched(n - 1)] : n \in { k \in DOMAIN ops : ops[k].type # "FREE" } }

eval_libc_valid ==
    /\ phase = "eval_libc_valid"
    /\ \E r \in libc_replays :
          /\ blocks' = r.blocks
          /\ IF r.ok THEN phase' = "fsecs" /\ errors' = errors /\ Note("valid", TRUE)
             ELSE phase' = "exit" /\ errors' = errors + 1 /\ stats' = stats      \* malloc_error
    /\ spent' = <<>>
    /\ UNCHANGED <<main, pass, tracenum, opnum, heap, block_sizes, ranges, perfindex>>

-----------------------------------------------------------------------------
op == ops[opnum + 1]
Checking(type) == phase = "eval_mm_valid" /\ opnum < Len(ops) /\ op.type = type

hits(a, r) == r.lo <= a /\ a <= r.hi
apart(lo, size, rs) == \A n \in DOMAIN rs : ~hits(lo, rs[n]) /\ ~hits(lo + size - 1, rs[n])
add_range_ok(h, lo, size) ==
    /\ lo % ALIGNMENT = 0
    /\ \A a \in {lo, lo + size - 1} : mem_heap_lo <= a /\ a <= mem_heap_hi(h)
    /\ apart(lo, size, ranges)
remove_range(rs, lo) == RemoveFirstMatch(rs, LAMBDA r : r.lo = lo)

printedOnly == errors' = errors /\ phase' = "free_trace"        \* mutant: the error is not counted
malloc_error == errors' = errors + 1 /\ phase' = "free_trace"

\* The block must pass add_range; then it is filled and remembered.
ValidAlloc ==
    /\ Checking("ALLOC")
    /\ \E a \in {malloc(heap, op.size)} :
        IF a.p = Failed
        THEN phase' = "exit" /\ heap' = a.h /\ UNCHANGED <<errors, opnum, trace, ranges>>
        ELSE IF a.p = NULL \/ ~add_range_ok(a.h, a.p, op.size)
        THEN malloc_error /\ heap' = a.h /\ UNCHANGED <<opnum, trace, ranges>>
        ELSE /\ ranges' = <<[lo |-> a.p, hi |-> a.p + op.size - 1]>> \o ranges
             /\ heap' = memset(a.h, a.p, op.index, op.size)
             /\ blocks' = [blocks EXCEPT ![op.index] = a.p]
             /\ block_sizes' = [block_sizes EXCEPT ![op.index] = op.size]
             /\ opnum' = opnum + 1 /\ UNCHANGED <<phase, errors>>
    /\ UNCHANGED <<main, pass, tracenum, spent, stats, perfindex>>

ValidFree ==
    /\ Checking("FREE")
    /\ ranges' = remove_range(ranges, blocks[op.index])
    /\ heap' = mm_free(heap, blocks[op.index], setup.written)
    /\ opnum' = opnum + 1
    /\ UNCHANGED <<main, phase, pass, tracenum, trace, errors, spent, stats, perfindex>>

\* mdriver-realloc.c: mm_realloc fails, and the old range stays.
ValidRealloc ==
    /\ Checking("REALLOC")
    /\ \E a \in {mm_realloc(heap, blocks[op.index], op.size)} : a.p = NULL /\ heap' = a.h
    /\ malloc_error
    /\ UNCHANGED <<main, pass, tracenum, opnum, trace, ranges, spent, stats, perfindex>>

-----------------------------------------------------------------------------
\* The requests of the trace one after the other, up to one that fails.
mm_replay ==
    LET size(r) == IF r.type = "FREE" THEN 0 ELSE r.size
        after[n \in 0 .. Len(ops)] ==
            IF n = 0 THEN [h |-> mm_init(mem_reset_brk(heap)), blocks |-> blocks, sizes |-> block_sizes,
                           total |-> 0, max |-> 0, ok |-> TRUE]
            ELSE LET before == after[n - 1]
                     r == ops[n]
                     a == reply(before.h, before.blocks, r)
                     total == before.total + (IF r.type = "FREE" THEN 0 - before.sizes[r.index] ELSE r.size)
                 IN  IF ~before.ok THEN before
                     ELSE IF Fails(a, r) THEN [before EXCEPT !.h = a.h, !.ok = FALSE]
                     ELSE [h |-> a.h, ok |-> TRUE, total |-> total,
                           max |-> IF total > before.max THEN total ELSE before.max,
                           blocks |-> IF r.type = "FREE" THEN before.blocks ELSE [before.blocks EXCEPT ![r.index] = a.p],
                           sizes |-> IF r.type = "FREE" THEN before.sizes ELSE [before.sizes EXCEPT ![r.index] = r.size]]
    IN  after[Len(ops)]

\* The ratio of the largest payload to the heap, in whole percents;
\* app_error ends the process.
eval_mm_util ==
    /\ phase = "eval_mm_valid" /\ opnum = Len(ops)
    /\ \E r \in {mm_replay} :
          /\ heap' = r.h /\ blocks' = r.blocks /\ block_sizes' = r.sizes
          /\ IF r.ok
             THEN /\ phase' = "fsecs"
                  /\ stats' = [stats EXCEPT ![pass][tracenum].valid = TRUE,
                                            ![pass][tracenum].util = (100 * r.max) \div mem_heapsize(r.h)]
             ELSE phase' = "exit" /\ stats' = stats
    /\ spent' = <<>>
    /\ UNCHANGED <<main, pass, tracenum, opnum, ranges, errors, perfindex>>

\* fsecs calls the function and averages what its clock shows; a replay
\* for time does not write the sizes.
timed ==
    \E d \in Durations :
       /\ spent' = Append(spent, d)
       /\ IF Len(spent) + 1 < runs THEN phase' = "fsecs" /\ stats' = stats
          ELSE phase' = "free_trace" /\ Note("secs", FoldSeq(+, 0, spent') \div runs)

eval_mm_speed ==
    /\ phase = "fsecs" /\ pass = "mm"
    /\ \E r \in {mm_replay} :
          /\ heap' = r.h /\ blocks' = r.blocks
          /\ IF r.ok THEN timed ELSE phase' = "exit" /\ UNCHANGED <<spent, stats>>
    /\ UNCHANGED <<main, pass, tracenum, opnum, block_sizes, ranges, errors, perfindex>>

eval_libc_speed ==
    /\ phase = "fsecs" /\ pass = "libc"
    /\ \E r \in libc_replays :
          /\ blocks' = r.blocks
          /\ IF r.ok THEN timed ELSE phase' = "exit" /\ UNCHANGED <<spent, stats>>
    /\ UNCHANGED <<main, pass, tracenum, opnum, heap, block_sizes, ranges, errors, perfindex>>

-----------------------------------------------------------------------------
\* The next trace; after the last one the lab's allocator has its turn, on
\* memory that mem_init allocates, or main reports.
free_trace ==
    /\ phase = "free_trace"
    /\ LET more == tracenum + 1 < num_tracefiles IN
         /\ tracenum' = IF more THEN tracenum + 1 ELSE 0
         /\ pass' = IF more THEN pass ELSE "mm"
         /\ phase' = IF more \/ pass = "libc" THEN "read_trace" ELSE "report"
         /\ heap' = IF ~more /\ pass = "libc" THEN mem_init ELSE heap
    /\ blocks' = no_blocks /\ block_sizes' = no_blocks /\ opnum' = 0
    /\ UNCHANGED <<main, ranges, errors, spent, stats, perfindex>>

sum(field) == FoldFunction(+, 0, [i \in DOMAIN stats.mm |-> stats.mm[i][field]])
numcorrect == Cardinality({ i \in DOMAIN stats.mm : stats.mm[i].valid })

\* In whole percents.
p1 == (UTIL_WEIGHT * (sum("util") \div num_tracefiles)) \div 100
p2 == IF sum("ops") > AVG_LIBC_THRUPUT * sum("secs") THEN 100 - UTIL_WEIGHT
      ELSE ((100 - UTIL_WEIGHT) * sum("ops")) \div (AVG_LIBC_THRUPUT * sum("secs"))

\* sumresults of mdriver-realloc.c asserts that the throughput is positive,
\* and without a throughput asserts whatever its caller's variable holds.
sumresults ==
    IF setup.driver = "mdriver-realloc" /\ numcorrect # num_tracefiles THEN {TRUE, FALSE} ELSE {TRUE}

Report ==
    /\ phase = "report"
    /\ \E positive \in sumresults : IF positive
          THEN phase' = "exit 0" /\ perfindex' = IF errors = 0 THEN p1 + p2 ELSE 0
          ELSE phase' = "abort" /\ perfindex' = perfindex
    /\ UNCHANGED <<main, pass, tracenum, opnum, heap, trace, ranges, errors, spent, stats>>

\* mdriver.c cannot read a request to resize.
Readable(s, list) == s.driver = "mdriver" => \A i \in DOMAIN list : \A n \in DOMAIN list[i] : list[i][n].type # "REALLOC"

Init ==
    /\ setup \in Setups /\ files \in { list \in FileLists : Readable(setup, list) }
    /\ phase = "init_fsecs" /\ pass = (IF setup.l THEN "libc" ELSE "mm")
    /\ tracenum = 0 /\ opnum = 0
    /\ heap = mem_init /\ ranges = <<>> /\ errors = 0
    /\ blocks = no_blocks /\ block_sizes = no_blocks /\ spent = <<>>
    /\ stats = [p \in {"libc", "mm"} |-> [i \in 0 .. num_tracefiles - 1 |-> noStats]]
    /\ perfindex = 0

Next == \/ init_fsecs \/ read_trace \/ free_trace \/ Report
        \/ eval_libc_valid \/ eval_libc_speed
        \/ ValidAlloc \/ ValidFree \/ ValidRealloc
        \/ eval_mm_util \/ eval_mm_speed

Spec == Init /\ [][Next]_vars

-----------------------------------------------------------------------------
all_blocks == ToSet(Front(walk(heap)))
free_blocks == { b \in all_blocks : used(heap.mem[b]) = 0 }

Replaying == pass = "mm" /\ phase \in {"eval_mm_valid", "fsecs"} /\ setup.written
replayed == IF phase = "fsecs" THEN Len(ops) ELSE opnum
taken == { blocks[id] - WSIZE : id \in
             { i \in Ids : \E j \in 1 .. replayed : /\ ops[j].index = i /\ ops[j].type # "FREE"
                                                    /\ \A k \in j + 1 .. replayed : ops[k].index # i } }

\* Blocks tile the heap up to its last word, each header says rightly
\* whether the block before is in use, and a free block ends with a copy
\* of its size: coalescing relies on all three.  So the collector takes for
\* a pointer exactly what the driver holds (is_pointer of mm-gc.c), in the
\* checked replay and after every later one on the same memory.
TagsAgree ==
    Replaying =>
    /\ Last(walk(heap)) = heap_footer(heap)
    /\ all_blocks \ free_blocks = taken
    /\ \A b \in all_blocks : LET after == b + SIZE(heap.mem[b])
                             IN  preceding_used(heap.mem[after]) = used(heap.mem[b])
    /\ \A b \in free_blocks : SIZE(heap.mem[b + SIZE(heap.mem[b]) - WSIZE]) = SIZE(heap.mem[b])
    /\ \A p \in Words : is_pointer(heap, p) <=> p - WSIZE \in taken

\* The list holds each free block once, with prev the inverse of next, and
\* no two blocks of it are neighbours, whether space came back or was
\* requested.
FreeListExact ==
    Replaying =>
    LET list == free_list(heap)
    IN  /\ ToSet(list) = free_blocks /\ Len(list) = Cardinality(free_blocks)
        /\ \A n \in 1 .. Len(list) : prev(heap, list[n]) = (IF n = 1 THEN NULL ELSE list[n - 1])
        /\ \A b \in free_blocks : b + SIZE(heap.mem[b]) \notin free_blocks

\* The index the driver reports is between 0 and 100, and more than 0 only
\* if every trace was replayed without an error: errors, which the passes
\* and traces share, is the number of traces that were not.  An allocator
\* that is not written has none.
ReportHonest ==
    phase = "exit 0" =>
    /\ perfindex \in 0 .. 100
    /\ errors = num_tracefiles - numcorrect
    /\ (perfindex = 0) = (errors > 0)
    /\ ~setup.written => errors = num_tracefiles
=============================================================================
