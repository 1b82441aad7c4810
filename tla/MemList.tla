----------------------------- MODULE MemList -----------------------------
(***************************************************************************)
(* utils/memlist.c: the tracer's list of blocks, in the order of their     *)
(* addresses.  A block stays in the list when it is freed, with count 0.   *)
(* There is a list: calls before the tracer's constructor are left out.    *)
(***************************************************************************)
EXTENDS Integers, FiniteSets, SequencesExt

new_list == <<>>

first_from(list, p) == SelectInSeq(list, LAMBDA i : i.ptr >= p)     \* 0 when there is none
first_at(list, p)   == SelectInSeq(list, LAMBDA i : i.ptr = p)

allocFirst(list, p, size) ==         \* mutant: the count of a known block is not raised
    IF first_at(list, p) # 0 THEN [list EXCEPT ![first_at(list, p)].size = size]
    ELSE InsertAt(list, 1 + Cardinality({ n \in DOMAIN list : list[n].ptr < p }), [ptr |-> p, size |-> size, cnt |-> 1])

alloc(list, p, size) ==
    LET n == first_from(list, p)
        i == [ptr |-> p, size |-> size, cnt |-> 1]
    IN  IF n = 0 THEN Append(list, i)
        ELSE IF list[n].ptr = p THEN [list EXCEPT ![n].size = size, ![n].cnt = @ + 1]
        ELSE InsertAt(list, n, i)

dealloc(list, p) == LET n == first_at(list, p)
                    IN  IF n = 0 THEN list ELSE [list EXCEPT ![n].cnt = @ - 1]

\* What find returns: the item, or None for its NULL.
None == [ptr |-> -1, size |-> 0, cnt |-> 0]
find(list, p) == LET n == first_from(list, p)
                 IN  IF n # 0 /\ list[n].ptr = p THEN list[n] ELSE None
=============================================================================
