------------------------------- MODULE MemLib -------------------------------
(***************************************************************************)
(* memlib.c, the memory an allocator works in: one array of MAX_HEAP       *)
(* bytes, of which the bytes below brk are the heap.                       *)
(*                                                                         *)
(* A heap is a record [mem, brk]; mem maps the address of every machine    *)
(* word to the integer in it, and address 0 is NULL.  An operation takes a *)
(* heap and returns [h, p]: the heap after the call and the pointer the    *)
(* call returns.                                                           *)
(***************************************************************************)
EXTENDS Integers, Sequences

CONSTANTS MAX_HEAP,  \* the bytes of the array
          WSIZE      \* the bytes of a word: 4 for src/ (gcc -m32), 8 for lab5/

ASSUME HeapAssumption == MAX_HEAP \in Nat /\ MAX_HEAP % 8 = 0 /\ WSIZE \in {4, 8}

NULL == 0
Failed == -1                     \* (void *)-1
mem_start_brk == 8               \* any address malloc may return
Words == { mem_start_brk + WSIZE * n : n \in 0 .. (MAX_HEAP \div WSIZE) - 1 }

\* The array comes from a fresh mapping, so its words are zero.
mem_init == [mem |-> [a \in Words |-> 0], brk |-> mem_start_brk]

keep_brk(h) == h                                 \* mutant: the heap stays as it is
\* Nothing is cleared: the words of the last trace stay.
mem_reset_brk(h) == [h EXCEPT !.brk = mem_start_brk]

mem_sbrk(h, incr) ==
    IF incr < 0 \/ h.brk + incr > mem_start_brk + MAX_HEAP
    THEN [h |-> h, p |-> Failed]
    ELSE [h |-> [h EXCEPT !.brk = @ + incr], p |-> h.brk]

mem_heap_lo == mem_start_brk
mem_heap_hi(h) == h.brk - 1
mem_heapsize(h) == h.brk - mem_start_brk

-----------------------------------------------------------------------------
\* The C library on this memory, in whole words.
memset(h, p, word, n) ==
    [h EXCEPT !.mem = [a \in Words |-> IF a >= p /\ a < p + n THEN word ELSE @[a]]]
memcpy(h, to, from, n) ==
    [h EXCEPT !.mem = [a \in Words |-> IF a >= to /\ a < to + n THEN @[from + a - to] ELSE @[a]]]
=============================================================================
