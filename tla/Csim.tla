------------------------------- MODULE Csim -------------------------------
(***************************************************************************)
(* csim.c: the simulator of a cache of S = 2^s sets of E lines, with       *)
(* blocks of 2^b bytes, as operators on a record of its variables.         *)
(*                                                                         *)
(* Addresses are cut to an unsigned of WIDTH bits (32 in the code), but    *)
(* the number of tag bits, t, is computed for addresses of twice that, so  *)
(* GET_SET_INDEX shifts by WIDTH or more, which is undefined: the machine  *)
(* shifts by the amount modulo WIDTH.                                      *)
(***************************************************************************)
EXTENDS Integers, FiniteSetsExt, SequencesExt

CONSTANT WIDTH
ASSUME WidthAssumption == WIDTH \in Nat \ {0}

pow2[n \in 0 .. WIDTH] == IF n = 0 THEN 1 ELSE 2 * pow2[n - 1]
shl(x, n) == (x % pow2[WIDTH - (n % WIDTH)]) * pow2[n % WIDTH]
shr(x, n) == x \div pow2[n % WIDTH]

t(c) == 2 * WIDTH - c.s - c.b
GET_SET_INDEX(c, x) == shr(shl(shr(x, c.b), c.b + t(c)), c.b + t(c))
GET_TAG(c, x) == shr(x, c.b + c.s)

empty == [is_valid |-> FALSE, tag |-> 0, lru_count |-> 0]

\* The options of main, in any order: the last of a kind counts, and others
\* than s, E and b make no difference to the counts.
parsed(options) ==
    FoldLeft(LAMBDA a, o : IF o[1] \in DOMAIN a THEN [a EXCEPT ![o[1]] = o[2]] ELSE a,
             [s |-> 0, E |-> 0, b |-> 0], options)

\* main, once it has read them.
started(s, E, b) ==
    [s |-> s, E |-> E, b |-> b, cache |-> [n \in 0 .. (pow2[s] * E - 1) |-> empty],
     op_counter |-> 0, hit |-> 0, miss |-> 0, evict |-> 0, defined |-> TRUE]

\* The line to evict: the first of those with the least lru_count.
lru_idx(c, lines) ==
    LET oldest == Min({ c.cache[n].lru_count : n \in lines })
    IN  Min({ n \in lines : c.cache[n].lru_count = oldest })

untouched(c, n) == [c EXCEPT !.hit = @ + 1]              \* mutant: the line keeps its lru_count
touched(c, n) == [c EXCEPT !.hit = @ + 1, !.cache[n].lru_count = c.op_counter]

\* The line found keeps its tag; else the first empty line takes the block;
\* else the line used least recently.  Lines out of the array are undefined.
get_cache(c, address) ==
    LET first == GET_SET_INDEX(c, address) * c.E
        lines == first .. (first + c.E - 1)
        new_block == [is_valid |-> TRUE, tag |-> GET_TAG(c, address), lru_count |-> c.op_counter]
        found   == { n \in lines : c.cache[n].is_valid /\ c.cache[n].tag = new_block.tag }
        unused == { n \in lines : ~c.cache[n].is_valid }
        missed(n) == [c EXCEPT !.miss = @ + 1, !.cache[n] = new_block]
    IN  IF ~(lines \subseteq DOMAIN c.cache) THEN [c EXCEPT !.defined = FALSE]
        ELSE IF found # {} THEN touched(c, Min(found))
        ELSE IF unused # {} THEN missed(Min(unused))
        ELSE [missed(lru_idx(c, lines)) EXCEPT !.evict = @ + 1]

\* One line of the trace: M is a load and a store, I is ignored, and only
\* the lowest bits of the address are read.
access(c, operation, address) ==
    LET x == address % pow2[WIDTH]
        once  == get_cache(c, x)
        after == CASE operation = "M" -> get_cache(once, x)
                   [] operation \in {"L", "S"} -> once
    IN  IF operation = "I" THEN c ELSE [after EXCEPT !.op_counter = @ + 1]
=============================================================================
