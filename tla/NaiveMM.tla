------------------------------ MODULE NaiveMM ------------------------------
(***************************************************************************)
(* mm_naive.c: every request extends the heap, nothing is reused, and the  *)
(* size of a payload is kept in front of it.                               *)
(***************************************************************************)
EXTENDS MemLib

ALIGNMENT == 8
SIZE_T_SIZE == 8
ALIGN(size) == ALIGNMENT * ((size + ALIGNMENT - 1) \div ALIGNMENT)

mm_init(h) == [h |-> h, p |-> mem_heap_lo]

mm_malloc(h, size) ==
    LET more == mem_sbrk(h, ALIGN(size + SIZE_T_SIZE))
    IN  IF more.p = Failed THEN [h |-> h, p |-> NULL]
        ELSE [h |-> [more.h EXCEPT !.mem[more.p] = size], p |-> more.p + SIZE_T_SIZE]

mm_free(h, ptr) == h

mm_realloc(h, ptr, size) ==
    LET new  == mm_malloc(h, size)
        copy == h.mem[ptr - SIZE_T_SIZE]
    IN  IF new.p = NULL THEN new
        ELSE [new EXCEPT !.h = mm_free(memcpy(@, new.p, ptr, IF size < copy THEN size ELSE copy), ptr)]
=============================================================================
