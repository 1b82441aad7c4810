------------------------------ MODULE Lab5MM ------------------------------
(***************************************************************************)
(* lab5/mm.c and mm-gc.c: the list of free blocks the lab starts from.  A  *)
(* block is named by its header word, sizeAndTags, whose two lowest bits   *)
(* say whether the block and the one before it are in use; a free block    *)
(* has its links after the header and the header's copy in its last word.  *)
(*                                                                         *)
(* mm_malloc and mm_free are left to be written: mm_malloc computes the    *)
(* size of a block and returns NULL, mm_free does nothing, and neither     *)
(* does mm-realloc.c.  With written they do what the comments of the file  *)
(* ask for, by the functions it provides.                                  *)
(***************************************************************************)
EXTENDS MemLib, SequencesExt, FiniteSets

CONSTANT pagesize       \* mem_pagesize()

ASSUME PageAssumption == pagesize \in Nat \ {0} /\ pagesize % 8 = 0

MIN_BLOCK_SIZE == 4 * WSIZE
ALIGNMENT == 8
SIZE(x) == ALIGNMENT * (x \div ALIGNMENT)
used(x) == x % 2                         \* TAG_USED
preceding_used(x) == (x \div 2) % 2      \* TAG_PRECEDING_USED
TAG_USED == 1
TAG_PRECEDING_USED == 2

put(h, p, val) == [h EXCEPT !.mem[p] = val]
FREE_LIST_HEAD(h) == h.mem[mem_heap_lo]
next(h, b) == h.mem[b + WSIZE]
prev(h, b) == h.mem[b + 2 * WSIZE]
first_block == mem_heap_lo + WSIZE
heap_footer(h) == h.brk - WSIZE

MaxBlocks == MAX_HEAP \div MIN_BLOCK_SIZE

\* The blocks of the free list, in its order.
free_list(h) ==
    LET list[n \in 0 .. MaxBlocks] ==
            IF n = 0 THEN (IF FREE_LIST_HEAD(h) = NULL THEN <<>> ELSE <<FREE_LIST_HEAD(h)>>)
            ELSE LET before == list[n - 1]
                 IN  IF before = <<>> \/ next(h, Last(before)) = NULL THEN before
                     ELSE Append(before, next(h, Last(before)))
    IN  list[MaxBlocks]

searchFreeList(h, reqSize) ==
    LET fits == SelectSeq(free_list(h), LAMBDA b : SIZE(h.mem[b]) >= reqSize)
    IN  IF fits = <<>> THEN NULL ELSE Head(fits)

insertFreeBlock(h, b) ==
    LET old  == FREE_LIST_HEAD(h)
        here == put(put(h, b + WSIZE, old), b + 2 * WSIZE, NULL)
    IN  put(IF old = NULL THEN here ELSE put(here, old + 2 * WSIZE, b), mem_heap_lo, b)

removeTail(h, b) == put(h, prev(h, b) + WSIZE, next(h, b))      \* mutant: a block in the middle only

removeFreeBlock(h, b) ==
    LET right == IF next(h, b) = NULL THEN h ELSE put(h, next(h, b) + 2 * WSIZE, prev(h, b))
    IN  IF b = FREE_LIST_HEAD(h) THEN put(right, mem_heap_lo, next(h, b))
        ELSE put(right, prev(h, b) + WSIZE, next(h, b))

\* The free blocks before and after leave the list; if there were any, so
\* does the block, and the whole is inserted.  A cursor is [h, at, size]:
\* the heap, the block it has reached, and the bytes it has passed.
coalesceFreeBlock(h, old) ==
    LET oldSize == SIZE(h.mem[old])
        back[n \in 0 .. MaxBlocks] ==
            IF n = 0 THEN [h |-> h, at |-> old, size |-> oldSize]
            ELSE LET c == back[n - 1]
                     size == SIZE(c.h.mem[c.at - WSIZE])
                 IN  IF preceding_used(c.h.mem[c.at]) = 1 THEN c
                     ELSE [h |-> removeFreeBlock(c.h, c.at - size), at |-> c.at - size, size |-> c.size + size]
        start == back[MaxBlocks]
        on[n \in 0 .. MaxBlocks] ==
            IF n = 0 THEN [start EXCEPT !.at = old + oldSize]
            ELSE LET c == on[n - 1]
                     size == SIZE(c.h.mem[c.at])
                 IN  IF used(c.h.mem[c.at]) = 1 THEN c
                     ELSE [h |-> removeFreeBlock(c.h, c.at), at |-> c.at + size, size |-> c.size + size]
        end == on[MaxBlocks]
        tags == end.size + TAG_PRECEDING_USED
        whole == put(put(removeFreeBlock(end.h, old), start.at, tags), end.at - WSIZE, tags)
    IN  IF end.size = oldSize THEN h ELSE insertFreeBlock(whole, start.at)

\* The last word of the heap becomes the header of the new block and keeps
\* what it says of the block before; NULL is the end of the process.
mostRecent(h, reqSize) == LET more == mem_sbrk(h, pagesize) IN
    IF more.p = Failed THEN [h |-> h, p |-> NULL]                \* mutant: the block before said to be used
    ELSE [h |-> insertFreeBlock(put(put(put(more.h, more.p - WSIZE, pagesize + TAG_PRECEDING_USED),
                more.p + pagesize - 2 * WSIZE, pagesize + TAG_PRECEDING_USED), more.p + pagesize - WSIZE, TAG_USED),
                more.p - WSIZE), p |-> more.p]
requestMoreSpace(h, reqSize) ==
    LET total == pagesize * ((reqSize + pagesize - 1) \div pagesize)
        more  == mem_sbrk(h, total)
        block == more.p - WSIZE
        tags  == total + TAG_PRECEDING_USED * preceding_used(more.h.mem[block])
        block_tagged == put(put(more.h, block, tags), block + total - WSIZE, tags)
    IN  IF more.p = Failed THEN [h |-> h, p |-> NULL]
        ELSE [h |-> coalesceFreeBlock(insertFreeBlock(put(block_tagged, block + total, TAG_USED), block), block),
              p |-> block]

mm_init(h) ==
    LET start == mem_sbrk(h, WSIZE + MIN_BLOCK_SIZE + WSIZE).h
        tags  == MIN_BLOCK_SIZE + TAG_PRECEDING_USED
        word  == [a \in Words |-> CASE a = mem_heap_lo -> first_block
                                    [] a = first_block \/ a = first_block + MIN_BLOCK_SIZE - WSIZE -> tags
                                    [] a = heap_footer(start) -> TAG_USED
                                    [] OTHER -> NULL]
    IN  [start EXCEPT !.mem = [a \in Words |-> IF a < start.brk THEN word[a] ELSE @[a]]]

\* What mm_malloc computes before it gives up.
reqSize(size) ==
    IF size + WSIZE <= MIN_BLOCK_SIZE THEN MIN_BLOCK_SIZE
    ELSE ALIGNMENT * ((size + WSIZE + ALIGNMENT - 1) \div ALIGNMENT)

\* mm-gc.c: whether ptr is the payload of an allocated block.
walk(h) ==
    LET list[n \in 0 .. MaxBlocks] ==
            IF n = 0 THEN <<first_block>>
            ELSE LET before == list[n - 1]
                     after  == Last(before) + SIZE(h.mem[Last(before)])
                 IN  IF Last(before) >= heap_footer(h) THEN before ELSE Append(before, after)
    IN  list[MaxBlocks]
is_pointer(h, ptr) ==
    \E n \in 1 .. Len(walk(h)) - 1 : walk(h)[n] + WSIZE = ptr /\ used(h.mem[walk(h)[n]]) = 1

-----------------------------------------------------------------------------
\* A free block is taken, with the rest of it left free when it can be a
\* block: the header says it is in use, and so does its successor's.
split(h, b, size) ==
    LET rest == SIZE(h.mem[b]) - size
        off  == removeFreeBlock(h, b)
        preceding == TAG_PRECEDING_USED * preceding_used(h.mem[b])
        whole == put(off, b, SIZE(h.mem[b]) + preceding + TAG_USED)
        after == b + SIZE(h.mem[b])
        part  == put(put(put(off, b, size + preceding + TAG_USED), b + size, rest + TAG_PRECEDING_USED),
                     after - WSIZE, rest + TAG_PRECEDING_USED)
    IN  IF rest < MIN_BLOCK_SIZE THEN put(whole, after, h.mem[after] + TAG_PRECEDING_USED)
        ELSE insertFreeBlock(part, b + size)

\* Out of memory is the end of the process.
mm_malloc(h, size, written) ==
    LET found == searchFreeList(h, reqSize(size))
        more  == IF found # NULL THEN [h |-> h, p |-> found] ELSE requestMoreSpace(h, reqSize(size))
        b     == searchFreeList(more.h, reqSize(size))
    IN  IF size = 0 \/ ~written THEN [h |-> h, p |-> NULL]
        ELSE IF more.p = NULL THEN [h |-> more.h, p |-> Failed]
        ELSE [h |-> split(more.h, b, reqSize(size)), p |-> b + WSIZE]

\* The block's tags are cleared, it is inserted, and coalesced.
release(h, b) ==
    LET free  == h.mem[b] - TAG_USED
        after == b + SIZE(free)
    IN  coalesceFreeBlock(insertFreeBlock(
          put(put(put(h, b, free), after - WSIZE, free), after, h.mem[after] - TAG_PRECEDING_USED), b), b)

mm_free(h, ptr, written) == IF written THEN release(h, ptr - WSIZE) ELSE h

mm_realloc(h, ptr, size) == [h |-> h, p |-> NULL]
=============================================================================
