----------------------------- MODULE MCMDriver -----------------------------
(***************************************************************************)
(* The malloc driver for TLC: small traces, a heap of a few blocks.        *)
(***************************************************************************)
EXTENDS MDriver

MCIds == 0 .. 2
MCSizes == {8, 40}
MCMaxOps == [explicit |-> 5, segregated |-> 5, naive |-> 4]
MCBuilds == {<<"explicit", "gettod">>, <<"segregated", "itimer">>, <<"naive", "fcyc">>}
MCDurations == {1, 3}
MCCounts == {3, 14}
MCGaps == {[cycles |-> 3, ticks |-> 1], [cycles |-> 6, ticks |-> 2], [cycles |-> 2, ticks |-> 1],
           [cycles |-> 1, ticks |-> 1], [cycles |-> 5, ticks |-> 0]}
=============================================================================
