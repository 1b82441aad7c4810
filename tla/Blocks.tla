------------------------------- MODULE Blocks -------------------------------
(***************************************************************************)
(* The macros of mm-2014-17831.c and mm.c: a block is a header word, the   *)
(* payload at bp, and a footer word.  Header and footer hold the block's   *)
(* size, a multiple of eight, with the lowest bit set when the block is    *)
(* allocated.  The first two payload words of a free block are the links   *)
(* of its free list.                                                       *)
(***************************************************************************)
EXTENDS MemLib, SequencesExt

DSIZE == 8
FSIZE == 24          \* "Minimum free block size"

GET(h, p) == h.mem[p]
PUT(h, p, val) == [h EXCEPT !.mem[p] = val]
PACK(size, alloc) == size + alloc
GET_SIZE(h, p) == 8 * (GET(h, p) \div 8)
GET_ALLOC(h, p) == GET(h, p) % 2

HDRP(bp) == bp - WSIZE
FTRP(h, bp) == bp + GET_SIZE(h, HDRP(bp)) - DSIZE
NEXT_BLKP(h, bp) == bp + GET_SIZE(h, bp - WSIZE)
PREV_BLKP(h, bp) == bp - GET_SIZE(h, bp - DSIZE)

NEXT_FREEP(bp) == bp
PREV_FREEP(bp) == bp + WSIZE
NEXT_FREE(h, bp) == GET(h, NEXT_FREEP(bp))
PREV_FREE(h, bp) == GET(h, PREV_FREEP(bp))

asizeNoTags(size) == IF size <= DSIZE THEN 2 * DSIZE ELSE DSIZE * ((size + DSIZE - 1) \div DSIZE)   \* mutant
get_asize(size) ==
    IF size <= DSIZE THEN 2 * DSIZE ELSE DSIZE * ((size + DSIZE + DSIZE - 1) \div DSIZE)

-----------------------------------------------------------------------------
\* Both boundary tags of the block at bp, as every caller writes them.
Tag(h, bp, size, alloc) ==
    PUT(PUT(h, HDRP(bp), PACK(size, alloc)), bp + size - DSIZE, PACK(size, alloc))

\* The blocks a free list threads together, after its head; no list is
\* longer than the words of the heap.
FreeList(h, head) ==
    LET list[n \in 0 .. MAX_HEAP \div (2 * DSIZE)] ==
            IF n = 0 THEN <<head>>
            ELSE LET before == list[n - 1]
                     next   == NEXT_FREE(h, Last(before))
                 IN  IF next = NULL THEN before ELSE Append(before, next)
    IN  Tail(list[MAX_HEAP \div (2 * DSIZE)])

\* Links block bp between the nodes prev and next, either of them a list's
\* head or, for next, NULL.
LinkBetween(h, bp, prev, next) ==
    LET here  == PUT(PUT(h, PREV_FREEP(bp), prev), NEXT_FREEP(bp), next)
        right == IF next = NULL THEN here ELSE PUT(here, PREV_FREEP(next), bp)
    IN  PUT(right, NEXT_FREEP(prev), bp)

UnlinkForward(h, bp) == PUT(h, NEXT_FREEP(PREV_FREE(h, bp)), NEXT_FREE(h, bp))   \* mutant: one link only
Unlink(h, bp) ==
    LET prev == PREV_FREE(h, bp)
        next == NEXT_FREE(h, bp)
        left == PUT(h, NEXT_FREEP(prev), next)
    IN  IF next = NULL THEN left ELSE PUT(left, PREV_FREEP(next), prev)
=============================================================================
