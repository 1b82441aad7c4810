---------------------------- MODULE PayloadHeap ----------------------------
(***************************************************************************)
(* What a client of malloc relies on: a live block is a range of bytes no  *)
(* other live block touches, and keeps what the client stored in it until  *)
(* the client frees or resizes it.                                         *)
(***************************************************************************)
EXTENDS Integers, Functions

CONSTANTS Ids, Sizes, Places,
          fill     \* fill[id] is the word the client stores all over its block

VARIABLE store     \* store[id] = [lo, size, data] for the live blocks

Data(id, size) == [n \in 0 .. (size \div 4) - 1 |-> fill[id]]
Disjoint(lo, size, b) == lo + size <= b.lo \/ b.lo + b.size <= lo

Init == store = <<>>

Malloc(id, lo, size) ==
    /\ \A j \in DOMAIN store \ {id} : Disjoint(lo, size, store[j])
    /\ store' = [j \in DOMAIN store \union {id} |->
                    IF j = id THEN [lo |-> lo, size |-> size, data |-> Data(id, size)] ELSE store[j]]

Free(id) ==
    /\ id \in DOMAIN store
    /\ store' = Restrict(store, DOMAIN store \ {id})

\* The whole memory is taken back.
Reset == store' = <<>>

Next ==
    \/ \E id \in Ids, lo \in Places, size \in Sizes : Malloc(id, lo, size)
    \/ \E id \in Ids : Free(id)
    \/ Reset

Spec == Init /\ [][Next]_store
=============================================================================
