-------------------------------- MODULE Rio --------------------------------
(***************************************************************************)
(* The buffered reads of csapp.c on one end of a connection.  A stream     *)
(* holds the bytes on their way and whether the peer has closed; rp is a   *)
(* rio_t, by the bytes left in its buffer, with the line a rio_readlineb   *)
(* in progress has so far.  A read returns any number of the bytes there   *)
(* are up to the buffer's size; one that EINTR ends is made again.         *)
(***************************************************************************)
EXTENDS Integers, Sequences, SequencesExt

CONSTANTS MAXLINE, RIO_BUFSIZE

ASSUME RioAssumption == MAXLINE \in Nat \ {0, 1} /\ RIO_BUFSIZE \in Nat \ {0}

NL == "\n"
IsLine(bytes) == bytes # <<>> /\ \A i \in DOMAIN bytes : bytes[i] = NL <=> i = Len(bytes)
least(m, n) == IF m < n THEN m ELSE n
from(bytes, k) == SubSeq(bytes, k, Len(bytes))

\* A line ends with its newline, or when its room is used up but for a 0.
complete(line) == Len(line) = MAXLINE - 1 \/ (line # <<>> /\ Last(line) = NL)

\* What the buffer has goes to the line, up to its end.
copied(rp) ==
    LET newline == SelectInSeq(rp.buf, LAMBDA c : c = NL)
        room == MAXLINE - 1 - Len(rp.line)
        k == least(room, IF newline = 0 THEN Len(rp.buf) ELSE newline)
    IN  [buf |-> from(rp.buf, k + 1), line |-> rp.line \o SubSeq(rp.buf, 1, k)]

rio_readinitb == [buf |-> <<>>, line |-> <<>>]

\* rio_read finds the buffer empty and reads: the stream and rp after it.
reads(stream, rp) ==
    IF complete(rp.line) \/ rp.buf # <<>> THEN {}
    ELSE { [stream |-> [stream EXCEPT !.bytes = from(@, k + 1)],
            rp |-> copied([rp EXCEPT !.buf = SubSeq(stream.bytes, 1, k)])] :
           k \in 1 .. least(RIO_BUFSIZE, Len(stream.bytes)) }

\* rio_readlineb returns: a line, or at the end of the file what there is
\* of one, or nothing.
returns(stream, rp) == complete(rp.line) \/ (rp.buf = <<>> /\ stream.bytes = <<>> /\ stream.eof)

\* The next rio_readlineb begins with what is left in the buffer.
againEmpty(rp) == rio_readinitb                                \* mutant: as if initialised again
again(rp) == copied([rp EXCEPT !.line = <<>>])
=============================================================================
