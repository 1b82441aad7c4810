----------------------------- MODULE ExplicitMM -----------------------------
(***************************************************************************)
(* mm-2014-17831.c: one free list, headed by the prologue block.           *)
(***************************************************************************)
EXTENDS Blocks

CONSTANT CHUNKSIZE

free_listp == mem_start_brk + DSIZE      \* also heap_listp
first_block == mem_start_brk + 8 * WSIZE

insert_block(h, bp) == LinkBetween(h, bp, free_listp, NEXT_FREE(h, free_listp))
remove_block(h, bp) == Unlink(h, bp)

larger_fit(h, asize) ==                            \* mutant: never an exact fit
    LET fits == SelectSeq(FreeList(h, free_listp), LAMBDA p : asize < GET_SIZE(h, HDRP(p)))
    IN  IF fits = <<>> THEN NULL ELSE Head(fits)
\* The prologue is marked allocated, so the search passes over it.
find_fit(h, asize) ==
    LET free == FreeList(h, free_listp)
        n    == SelectInSeq(free, LAMBDA p : GET_ALLOC(h, HDRP(p)) = 0 /\ asize <= GET_SIZE(h, HDRP(p)))
    IN  IF n = 0 THEN NULL ELSE free[n]

LOCAL Tags == INSTANCE BoundaryTags
mm_malloc(h, size) == Tags!mm_malloc(h, size)
mm_free(h, ptr) == Tags!mm_free(h, ptr)
mm_realloc(h, ptr, size) == Tags!mm_realloc(h, ptr, size)

\* Padding, the prologue with the head of the list, the epilogue, and a
\* first chunk; NULL when there is no room.
mm_init(h) ==
    LET start == mem_sbrk(h, 8 * WSIZE)
        word(n) == CASE n \in {1, 4} -> PACK(FSIZE, 1) [] n = 7 -> PACK(0, 1) [] OTHER -> 0
        empty == [start.h EXCEPT !.mem =
                    [a \in Words |-> IF a < first_block THEN word((a - start.p) \div WSIZE) ELSE @[a]]]
    IN  IF start.p = Failed THEN [h |-> h, p |-> NULL]
        ELSE Tags!extend_heap(empty, CHUNKSIZE \div WSIZE)
=============================================================================
