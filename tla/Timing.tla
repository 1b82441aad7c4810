------------------------------- MODULE Timing -------------------------------
(***************************************************************************)
(* fsecs.c and what it may be built on: the average of some runs by the    *)
(* time of day or by the interval timer (ftimer.c), or the best of K       *)
(* samples (fcyc.c) of the cycle counter (clock.c).  A time is a number of *)
(* microseconds or cycles, a double a fraction [num, den] of them.         *)
(***************************************************************************)
EXTENDS Integers, Sequences

CONSTANTS WORD,          \* the values of an unsigned: 2^32
          USEC,          \* the microseconds of a second: 10^6
          MAX_ETIME,     \* what the interval timers start from
          runs,          \* how often ftimer calls the function: 10
          kbest, maxsamples,
          epsilon,       \* in percent
          NEVENT, THRESHOLD, RECORDTHRESH,
          Mhz            \* the cycles of a microsecond

\* A counter is read in two words.
access_counter(c) == [hi |-> (c \div WORD) % WORD, lo |-> c % WORD]

noBorrow(cyc, ncyc) == ((ncyc.hi - cyc.hi) % WORD) * WORD + ((ncyc.lo - cyc.lo) % WORD)   \* mutant
get_counter(cyc, ncyc) ==
    LET lo == (ncyc.lo - cyc.lo) % WORD
        borrow == IF lo > ncyc.lo THEN 1 ELSE 0
    IN  ((ncyc.hi - cyc.hi - borrow) % WORD) * WORD + lo

mhz_full(c, sleeptime) ==
    [num |-> get_counter(access_counter(c), access_counter(c + Mhz * USEC * sleeptime)), den |-> USEC * sleeptime]

\* What an interrupt of the timer costs, from the gaps between two readings
\* of the counter during which the process was charged ticks.
callibrate(cyc_per_tick, gaps) ==
    LET cpt(e) == gaps[e].cycles \div gaps[e].ticks
        best[e \in 0 .. NEVENT] ==
            IF e = 0 THEN cyc_per_tick
            ELSE IF (best[e - 1] = 0 \/ best[e - 1] > cpt(e)) /\ cpt(e) > RECORDTHRESH THEN cpt(e)
            ELSE best[e - 1]
    IN  best[NEVENT]
Events(gaps) == [1 .. NEVENT -> { g \in gaps : g.cycles >= THRESHOLD /\ g.ticks > 0 }]

get_comp_counter(time, ticks, cyc_per_tick) == time - ticks * cyc_per_tick

-----------------------------------------------------------------------------
init_sampler == [values |-> <<>>, samplecount |-> 0]

\* A sample that is good enough replaces the worst of K and moves left past
\* the larger ones.
add_sample(s, val) ==
    LET best   == IF s.samplecount < kbest THEN s.values ELSE SubSeq(s.values, 1, kbest - 1)
        stored == s.samplecount < kbest \/ val < s.values[kbest]
    IN  [values |-> IF stored THEN SelectSeq(best, LAMBDA v : v <= val) \o <<val>>
                                   \o SelectSeq(best, LAMBDA v : v > val)
                    ELSE s.values,
         samplecount |-> s.samplecount + 1]

has_converged(s) ==
    s.samplecount >= kbest /\ (100 + epsilon) * s.values[1] >= 100 * s.values[kbest]

sampled(s) == has_converged(s) \/ s.samplecount >= maxsamples

-----------------------------------------------------------------------------
timeval(t) == [tv_sec |-> t \div USEC, tv_usec |-> t % USEC]
timediff(stv, etv) == USEC * (etv.tv_sec - stv.tv_sec) + (etv.tv_usec - stv.tv_usec)

\* The interval timers count down from MAX_ETIME seconds.
get_etime(t) == timediff(timeval(USEC * MAX_ETIME - t), [tv_sec |-> MAX_ETIME, tv_usec |-> 0])

ftimer_gettod(start, end) == [num |-> timediff(timeval(start), timeval(end)), den |-> runs]
ftimer_itimer(start, end) == [num |-> get_etime(end) - get_etime(start), den |-> runs]

fcyc(s) == [num |-> s.values[1], den |-> 1]

\* In microseconds.
fsecs(timer, s, start, end) ==
    CASE timer = "fcyc" -> [num |-> fcyc(s).num * mhz_full(0, 2).den, den |-> mhz_full(0, 2).num]
      [] timer = "itimer" -> ftimer_itimer(start, end)
      [] timer = "gettod" -> ftimer_gettod(start, end)
=============================================================================
