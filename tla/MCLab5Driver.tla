---------------------------- MODULE MCLab5Driver ----------------------------
(***************************************************************************)
(* The drivers of lab5 for TLC: one long trace, or two short ones.         *)
(***************************************************************************)
EXTENDS Lab5Driver

Lines == [type : {"ALLOC"}, index : 0 .. 3, size : {8, 40}] \union [type : {"FREE"}, index : 0 .. 3, size : {0}]
Resizes == [type : {"REALLOC"}, index : {0}, size : {40}]

\* What may follow in a trace: the next block, or one that is allocated.
follows(t, r) ==
    LET lines(id) == SelectSeq(t, LAMBDA x : x.index = id)
    IN  IF r.type = "ALLOC" THEN r.index = Cardinality({ x.index : x \in ToSet(t) })
        ELSE lines(r.index) # <<>> /\ Last(lines(r.index)).type # "FREE"

traces(lines, length) ==
    LET upto[n \in 0 .. length] ==
            IF n = 0 THEN {<<>>}
            ELSE upto[n - 1] \union UNION { { Append(t, r) : r \in { x \in lines : follows(t, x) } } : t \in upto[n - 1] }
    IN  upto[length] \ {<<>>}

Long == traces(Lines, 7)
Short == traces(Lines \union Resizes, 2)
MCFileLists == { <<t>> : t \in { x \in Long : Len(x) = 7 } } \union (Short \X Short)

Plain == [driver |-> "mdriver", written |-> TRUE, timer |-> "itimer", l |-> FALSE]
MCSetups == { Plain, [Plain EXCEPT !.timer = "fcyc"], [Plain EXCEPT !.written = FALSE],
              [Plain EXCEPT !.driver = "mdriver-realloc"], [Plain EXCEPT !.driver = "mdriver-realloc", !.l = TRUE] }
MCDurations == {0, 3}
=============================================================================
