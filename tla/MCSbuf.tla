------------------------------- MODULE MCSbuf -------------------------------
(* An instance of Sbuf; proxy.c has one producer.                          *)
EXTENDS Sbuf

CONSTANTS main, other, w1, w2

TwoProducers == {main, other}
TwoConsumers == {w1, w2}
=============================================================================
