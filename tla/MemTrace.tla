----------------------------- MODULE MemTrace -----------------------------
(***************************************************************************)
(* memtrace.c of the three parts of the link lab: malloc, calloc, realloc  *)
(* and free of a program are the tracer's, which calls the C library's.    *)
(* Part 1 only counts, part 2 keeps a list of blocks, and part 3 forwards  *)
(* no free or realloc the list does not know to be of a block in use.      *)
(*                                                                         *)
(* The library and the program are the environment.  The library returns   *)
(* NULL or a block not in use, and moves a block it reallocates or not.    *)
(* The program of parts 1 and 2 is correct; that of part 3 may free and    *)
(* reallocate anything.                                                    *)
(***************************************************************************)
EXTENDS MemList

CONSTANTS Parts,         \* the parts that are modelled
          Addr,          \* addresses of blocks, above NULL
          Sizes,         \* what the program asks for
          MaxCalls       \* the calls a program makes

NULL == 0
ASSUME MemTraceAssumption == Addr \subseteq Nat \ {NULL} /\ Sizes \subseteq Nat /\ Parts \subseteq 1 .. 3

VARIABLES part,
          status,        \* "run", "fini", or how the process ended
          list, n_calls, \* n_malloc + n_calloc + n_realloc: only the sum is used
          n_allocb, n_freeb,
          report,        \* the blocks fini lists
          live,          \* the library's blocks in use, with their sizes
          held,          \* the pointers the program takes for its blocks
          calls,         \* how many calls it has made
          \* What the properties remember:
          alarm,         \* of the last free or realloc: a pointer was reported, it was of a block in use
          grown,         \* bytes by which blocks have grown where they were
          failed, moved  \* the library refused memory; part 1 returned the pointer of a block that moved

tracer == <<list, n_calls, n_allocb, n_freeb>>
history == <<alarm, grown, failed, moved>>
vars == <<part, status, tracer, report, live, held, calls, history>>

Init ==
    /\ part \in Parts /\ status = "run" /\ list = new_list
    /\ n_calls = 0 /\ n_allocb = 0 /\ n_freeb = 0 /\ report = {}
    /\ live = <<>> /\ held = {} /\ calls = 0
    /\ alarm = [raised |-> FALSE, right |-> FALSE] /\ grown = 0 /\ failed = FALSE /\ moved = FALSE

-----------------------------------------------------------------------------
\* The library.

with(blocks, a, size) == [x \in DOMAIN blocks \union {a} |-> IF x = a THEN size ELSE blocks[x]]
without(blocks, p) == [x \in DOMAIN blocks \ {p} |-> blocks[x]]

mallocp(size) ==
    { [res |-> a, live |-> with(live, a, size)] : a \in Addr \ DOMAIN live } \union { [res |-> NULL, live |-> live] }

reallocp(p, size) ==
    IF p = NULL THEN mallocp(size)
    ELSE IF size = 0 THEN { [res |-> NULL, live |-> without(live, p)] }
    ELSE { [res |-> p, live |-> [live EXCEPT ![p] = size]], [res |-> NULL, live |-> live] }
         \union { [res |-> a, live |-> with(without(live, p), a, size)] : a \in Addr \ DOMAIN live }

\* A call of the library with a pointer that is not of a block in use.
Undefined(p) == p # NULL /\ p \notin DOMAIN live
Ends(how) == status' = how /\ UNCHANGED <<tracer, live, held, history>>

-----------------------------------------------------------------------------
\* The tracer.

count(size) == n_calls' = n_calls + 1 /\ n_allocb' = n_allocb + size
keep(p) == held' = IF p = NULL THEN held ELSE held \union {p}

\* malloc, and calloc with the product of its arguments for size.  Part 1
\* only counts; parts 2 and 3 list the block, NULL included.
Counted(size, m) ==
    /\ live' = m.live /\ keep(m.res) /\ count(size)
    /\ failed' = (failed \/ m.res = NULL)
    /\ UNCHANGED <<status, n_freeb, alarm, grown, moved>>

Malloc1(size) == \E m \in mallocp(size) : Counted(size, m) /\ list' = list
Malloc(size) == \E m \in mallocp(size) : Counted(size, m) /\ list' = alloc(list, m.res, size)

\* The program has back the pointer r for p.
swap(p, r) == held' = IF r = NULL THEN held ELSE (held \ {p}) \union {r}

Refused(p, size, m) ==
    /\ failed' = (failed \/ m.res = NULL)
    /\ grown' = IF m.res = p /\ p # NULL /\ find(list, p) # None THEN grown + size - find(list, p).size ELSE grown

\* Part 1 returns ptr, not what the library returned.
Realloc1(p, size) ==
    IF Undefined(p) THEN Ends("undefined") ELSE
    \E m \in reallocp(p, size) :
      /\ live' = m.live /\ swap(p, p) /\ count(size)
      /\ moved' = (moved \/ m.res # p)
      /\ UNCHANGED <<status, list, n_freeb, alarm, grown, failed>>

\* dealloc, alloc, and the size of ptr_item, which alloc has updated when
\* the block has not moved.
renew(p, r, size) == alloc(dealloc(list, p), r, size)
freedNothing(p, r, size) == 0        \* mutant: what the block had is not counted as freed
freed(p, r, size) == IF part = 3 THEN find(renew(p, r, size), p).size ELSE find(list, p).size

Grow(p, size) ==
    IF Undefined(p) THEN Ends("undefined") ELSE
    \E m \in reallocp(p, size) :
      /\ live' = m.live /\ swap(p, m.res) /\ count(size)
      /\ list' = renew(p, m.res, size)
      /\ n_freeb' = n_freeb + freed(p, m.res, size)
      /\ Refused(p, size, m)
      /\ alarm' = [raised |-> FALSE, right |-> p \notin DOMAIN live]
      /\ UNCHANGED <<status, moved>>

\* A shorter block is the block it was.
Shrink(p, size) == /\ find(list, p).size >= size
                   /\ alarm' = [raised |-> FALSE, right |-> p \notin DOMAIN live]
                   /\ UNCHANGED <<status, tracer, live, held, grown, failed, moved>>

Realloc2(p, size) ==
    IF find(list, p) = None THEN Ends("null dereference")
    ELSE Shrink(p, size) \/ (find(list, p).size < size /\ Grow(p, size))

known(p) == find(list, p) # None                               \* mutant: the count is not looked at
in_use(p) == find(list, p) # None /\ find(list, p).cnt # 0

\* A pointer that is not of a block in use is reported, and NULL is passed
\* on instead.
Realloc3(p, size) ==
    \/ /\ ~in_use(p)
       /\ \E m \in mallocp(size) :
            /\ live' = m.live /\ swap(p, m.res) /\ count(size)
            /\ list' = alloc(list, m.res, size)
            /\ failed' = (failed \/ m.res = NULL)
       /\ alarm' = [raised |-> TRUE, right |-> p \notin DOMAIN live]
       /\ UNCHANGED <<status, n_freeb, grown, moved>>
    \/ in_use(p) /\ Shrink(p, size)
    \/ in_use(p) /\ find(list, p).size < size /\ Grow(p, size)

\* free(NULL) does nothing in any part; here p is not NULL.
Passed(p) ==
    /\ status' = IF Undefined(p) THEN "undefined" ELSE status
    /\ live' = without(live, p)

Free1(p) == Passed(p) /\ UNCHANGED <<list, n_freeb>>

Free2(p) ==
    /\ Passed(p)
    /\ list' = dealloc(list, p)
    /\ n_freeb' = IF find(list, p) = None THEN n_freeb ELSE n_freeb + find(list, p).size

\* Neither an unknown pointer nor one freed before reaches the library.
Free3(p) == IF in_use(p) THEN Free2(p) ELSE UNCHANGED <<status, live, list, n_freeb>>

Free(p) ==
    /\ p # NULL
    /\ (part = 1 /\ Free1(p)) \/ (part = 2 /\ Free2(p)) \/ (part = 3 /\ Free3(p))
    /\ held' = held \ {p}
    /\ alarm' = [raised |-> part = 3 /\ ~in_use(p), right |-> p \notin DOMAIN live]
    /\ UNCHANGED <<n_calls, n_allocb, grown, failed, moved>>

\* The pointers the program passes.
passed == IF part = 3 THEN Addr ELSE held

Realloc(p, size) ==
    (part = 1 /\ Realloc1(p, size)) \/ (part = 2 /\ Realloc2(p, size)) \/ (part = 3 /\ Realloc3(p, size))

Call ==
    /\ status = "run" /\ calls < MaxCalls /\ calls' = calls + 1
    /\ UNCHANGED <<part, report>>
    /\ \/ \E size \in Sizes : IF part = 1 THEN Malloc1(size) ELSE Malloc(size)
       \/ \E p \in passed \union {NULL}, size \in Sizes : Realloc(p, size)
       \/ \E p \in passed : Free(p)

\* Part 2 lists a block whose count is not 0, part 3 one whose count is above.
nonfreed2 == { list[n] : n \in { k \in DOMAIN list : list[k].cnt # 0 } }
nonfreed3 == { list[n] : n \in { k \in DOMAIN list : list[k].cnt > 0 } }

\* The average divides by the number of calls.
Fini1 == report' = {}
Fini2 == report' = IF n_freeb < n_allocb THEN nonfreed2 ELSE {}
Fini3 == report' = IF n_freeb < n_allocb THEN nonfreed3 ELSE {}

Fini ==
    /\ status = "run"
    /\ IF n_calls = 0 THEN status' = "division by zero" /\ report' = {}
       ELSE /\ status' = "fini"
            /\ (part = 1 /\ Fini1) \/ (part = 2 /\ Fini2) \/ (part = 3 /\ Fini3)
    /\ UNCHANGED <<part, tracer, live, held, calls, history>>

Next == Call \/ Fini
Spec == Init /\ [][Next]_vars

-----------------------------------------------------------------------------
\* No call reaches the library with a pointer to a block that is not in
\* use: whatever the program of part 3 does, and for a correct program,
\* except after a realloc of part 1 that returned the pointer of a block
\* that has moved or has been freed.
LibcCallsLegal == status = "undefined" => part = 1 /\ moved

\* Part 3 reports a free or realloc just when it is not of a block in use
\* (realloc(NULL, n) is not, and is reported although it is legal),
\* as long as the library has not refused memory: a realloc that fails
\* takes the block that stays for a freed one.
AlarmsExact == part = 3 /\ ~failed => alarm.raised = alarm.right

\* The leak report, as long as the library has not refused memory and, in
\* part 3, blocks have not grown in place (which it counts as freed with the
\* new size): the bytes not counted as freed are those in use, and when
\* there are any, the blocks reported at the end are those in use, with the
\* sizes asked for.  Blocks of no bytes alone are not reported.
LeakReportExact ==
    part # 1 /\ ~failed /\ (part = 3 => grown = 0) /\ status \in {"run", "fini"} =>
      LET sizes == { [ptr |-> a, size |-> live[a], cnt |-> 1] : a \in DOMAIN live }
          bytes == FoldSet(LAMBDA a, sum : live[a] + sum, 0, DOMAIN live)
      IN  /\ n_allocb - n_freeb = bytes
          /\ status = "fini" => report = IF bytes > 0 THEN sizes ELSE {}
=============================================================================
