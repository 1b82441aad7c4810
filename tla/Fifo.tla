-------------------------------- MODULE Fifo --------------------------------
(***************************************************************************)
(* What sbuf_insert and sbuf_remove promise their callers: a queue of at   *)
(* most n items from which items come out in the order they went in, each  *)
(* one to one caller.  An operation is a single step here; sbuf.c takes    *)
(* six (module Sbuf).                                                      *)
(***************************************************************************)
EXTENDS Naturals, Sequences

CONSTANTS
  n,          \* capacity
  Producers,  \* threads that insert
  Consumers   \* threads that remove

VARIABLES
  queue,      \* the items in the buffer, the oldest one first
  offered,    \* producer -> the item it is about to insert
  item        \* consumer -> the item it removed last

Init == /\ queue = <<>>
        /\ offered \in [Producers -> Nat]
        /\ item \in [Consumers -> Nat]

Offer == /\ offered' \in [Producers -> Nat]
         /\ UNCHANGED <<queue, item>>

Insert == \E p \in Producers :
            /\ Len(queue) < n
            /\ queue' = Append(queue, offered[p])
            /\ UNCHANGED <<offered, item>>

Remove == \E c \in Consumers :
            /\ queue # <<>>
            /\ item' = [item EXCEPT ![c] = Head(queue)]
            /\ queue' = Tail(queue)
            /\ UNCHANGED offered

Next == Offer \/ Insert \/ Remove

Spec == Init /\ [][Next]_<<queue, offered, item>>
=============================================================================
