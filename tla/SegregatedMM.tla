---------------------------- MODULE SegregatedMM ----------------------------
(***************************************************************************)
(* mm.c: an array of free lists, one for each class of sizes, each in      *)
(* descending order of size.  The heads of the lists are words before the  *)
(* prologue, used as if they were the next field of a block.               *)
(***************************************************************************)
EXTENDS Blocks

CONSTANTS CHUNKSIZE, NUM_CLASSES

free_listp == mem_start_brk + WSIZE
heap_listp == free_listp + NUM_CLASSES * WSIZE
first_block == mem_start_brk + (NUM_CLASSES + 12) * WSIZE

Classes == 0 .. NUM_CLASSES - 1
head(class) == free_listp + class * WSIZE

\* The loop counts down to the largest class whose bound the size exceeds.
class_num(size) ==
    LET below == { c \in Classes : get_asize(size) > FSIZE * 2 ^ c }
    IN  IF below = {} THEN 0 ELSE CHOOSE c \in below : \A d \in below : d <= c

\* After the blocks that are at least as large.
insert_block(h, bp) ==
    LET size == GET_SIZE(h, HDRP(bp))
        list == FreeList(h, head(class_num(size)))
        n    == SelectInSeq(list, LAMBDA p : size > GET_SIZE(h, HDRP(p)))
        before == IF n = 0 THEN list ELSE SubSeq(list, 1, n - 1)
    IN  LinkBetween(h, bp, IF before = <<>> THEN head(class_num(size)) ELSE Last(before),
                    IF n = 0 THEN NULL ELSE list[n])
remove_block(h, bp) == Unlink(h, bp)

\* A class is searched only if the address of its head is NULL, which it
\* never is: nothing is found, and every request extends the heap.
find_fit(h, asize) ==
    LET tried == { c \in Classes : asize <= FSIZE * 2 ^ c /\ head(c) = NULL }
        list  == <<free_listp>> \o FreeList(h, free_listp)
        n     == SelectInSeq(list, LAMBDA p : GET_ALLOC(h, HDRP(p)) = 0 /\ asize <= GET_SIZE(h, HDRP(p)))
    IN  IF tried = {} \/ n = 0 THEN NULL ELSE list[n]

LOCAL Tags == INSTANCE BoundaryTags
extend_heap(h, words) == Tags!extend_heap(h, words)
mm_malloc(h, size) == Tags!mm_malloc(h, size)
mm_free(h, ptr) == Tags!mm_free(h, ptr)
mm_realloc(h, ptr, size) == Tags!mm_realloc(h, ptr, size)

mm_init(h) ==
    LET start == mem_sbrk(h, (NUM_CLASSES + 12) * WSIZE)
        word(n) == CASE n \in {1, 4} -> PACK(FSIZE, 1) [] n = 7 -> PACK(0, 1) [] OTHER -> 0
        empty == [start.h EXCEPT !.mem =
                    [a \in Words |->
                        IF a \in { head(c) : c \in Classes } THEN NULL
                        ELSE IF a >= heap_listp /\ a <= heap_listp + 7 * WSIZE
                        THEN word((a - heap_listp) \div WSIZE) ELSE @[a]]]
    IN  IF start.p = Failed THEN [h |-> h, p |-> NULL]
        ELSE extend_heap(empty, CHUNKSIZE \div WSIZE)
=============================================================================
