---------------------------- MODULE BoundaryTags ----------------------------
(***************************************************************************)
(* The allocator mm-2014-17831.c, which mm.c repeats with another free     *)
(* list: blocks with boundary tags, coalesced when they are freed and      *)
(* split when they are placed.  How free blocks are listed is a parameter. *)
(***************************************************************************)
EXTENDS Blocks

CONSTANTS CHUNKSIZE,             \* what the heap grows by, at least
          insert_block(_, _),    \* the heap after listing a free block
          remove_block(_, _),    \* the heap after unlisting it
          find_fit(_, _)         \* a listed block of the size, or NULL

coalesceRight(h, bp) ==                          \* mutant: forgets the block before
    LET next  == NEXT_BLKP(h, bp)
        size  == GET_SIZE(h, HDRP(bp))
        whole == Tag(remove_block(h, next), bp, size + GET_SIZE(h, HDRP(next)), 0)
    IN  [h |-> insert_block(IF GET_ALLOC(h, HDRP(next)) = 1 THEN h ELSE whole, bp), p |-> bp]

\* The block at bp is free but not listed yet.  It is joined with the free
\* blocks beside it, which leave the list, and the whole is listed.  The
\* word before the first block is 0, which makes that block its own
\* predecessor.
coalesce(h, bp) ==
    LET prev  == PREV_BLKP(h, bp)
        next  == NEXT_BLKP(h, bp)
        prev_alloc == GET_ALLOC(h, FTRP(h, prev)) = 1 \/ prev = bp
        next_alloc == GET_ALLOC(h, HDRP(next)) = 1
        first == IF prev_alloc THEN bp ELSE prev
        size  == GET_SIZE(h, HDRP(bp))
                 + (IF prev_alloc THEN 0 ELSE GET_SIZE(h, HDRP(prev)))
                 + (IF next_alloc THEN 0 ELSE GET_SIZE(h, HDRP(next)))
        right == IF next_alloc THEN h ELSE remove_block(h, next)
        left  == IF prev_alloc THEN right ELSE remove_block(right, prev)
    IN  [h |-> insert_block(Tag(left, first, size, 0), first), p |-> first]

\* A free block at the end of the heap and a new epilogue, then coalesce.
extend_heap(h, words) ==
    LET size == WSIZE * (words + (words % 2))
        more == mem_sbrk(h, size)
        bp   == more.p
    IN  IF bp = Failed THEN [h |-> h, p |-> NULL]
        ELSE coalesce(PUT(Tag(more.h, bp, size, 0), HDRP(bp + size), PACK(0, 1)), bp)

\* The block leaves the free list; what is left of it beyond FSIZE is a
\* free block again.
place(h, bp, asize) ==
    LET csize == GET_SIZE(h, HDRP(bp))
        whole == remove_block(Tag(h, bp, csize, 1), bp)
        front == remove_block(Tag(h, bp, asize, 1), bp)
    IN  IF csize - asize > FSIZE
        THEN coalesce(Tag(front, bp + asize, csize - asize, 0), bp + asize).h
        ELSE whole

mm_malloc(h, size) ==
    LET asize == get_asize(size)
        fit   == find_fit(h, asize)
        more  == IF fit # NULL THEN [h |-> h, p |-> fit]
                 ELSE extend_heap(h, (IF asize > CHUNKSIZE THEN asize ELSE CHUNKSIZE) \div WSIZE)
    IN  IF size = 0 \/ more.p = NULL THEN [h |-> h, p |-> NULL]
        ELSE [h |-> place(more.h, more.p, asize), p |-> more.p]

mm_free(h, ptr) == coalesce(Tag(h, ptr, GET_SIZE(h, HDRP(ptr)), 0), ptr).h

\* A new block, a copy, and the old block freed: never in place, and a
\* failure leaves the old block as it was.
mm_realloc(h, ptr, size) ==
    LET new  == mm_malloc(h, size)
        copy == GET_SIZE(h, HDRP(ptr))
    IN  IF size = 0 THEN [h |-> mm_free(h, ptr), p |-> NULL]
        ELSE IF ptr = NULL \/ new.p = NULL THEN new
        ELSE [h |-> mm_free(memcpy(new.h, new.p, ptr, IF copy < size THEN copy ELSE size), ptr),
              p |-> new.p]
=============================================================================
