-------------------------------- MODULE Sbuf --------------------------------
(***************************************************************************)
(* sbuf.c of the proxy (src/sp_06_proxylab/proxylab-handout): the bounded  *)
(* buffer through which the accepting thread hands connections to the      *)
(* worker threads, made of an array and three POSIX semaphores.            *)
(*                                                                         *)
(* P and V are one step each; a ++ of a shared index is two, a read and a  *)
(* write, so that what the mutex is for can be seen.  A connection is the  *)
(* number of its accept.                                                   *)
(***************************************************************************)
EXTENDS Semaphore, FiniteSets

CONSTANTS
  n,          \* slots of the buffer (SBUFSIZE)
  Producers,  \* threads that call sbuf_insert (main)
  Consumers,  \* threads that call sbuf_remove (the workers)
  ConnBound   \* bound: number of connections accepted

ASSUME SbufAssumption ==
  /\ n \in Nat \ {0}
  /\ ConnBound \in Nat
  /\ IsFiniteSet(Producers) /\ IsFiniteSet(Consumers)
  /\ Producers \cap Consumers = {}

VARIABLES
  buf, front, rear,      \* sbuf_t: the array and its two indices,
  mutex, slots, items,   \* ... and its semaphores
  pc,                    \* thread -> where it is
  index,                 \* thread -> the index it read
  item,                  \* thread -> the connection it inserts or removed
  accepted               \* number of connections accepted

Threads == Producers \cup Consumers
vars == <<buf, front, rear, mutex, slots, items, pc, index, item, accepted>>

-----------------------------------------------------------------------------
goto(t, from, to) == pc[t] = from /\ pc' = [pc EXCEPT ![t] = to]

(* sbuf_init.  A thread outside of the two operations is "out".            *)
sbuf_init ==
  /\ buf = [i \in 0 .. n - 1 |-> 0]
  /\ front = 0 /\ rear = 0
  /\ mutex = 1 /\ slots = n /\ items = 0

Init == /\ sbuf_init
        /\ pc = [t \in Threads |-> "out"]
        /\ index = [t \in Threads |-> 0]
        /\ item = [t \in Threads |-> 0]
        /\ accepted = 0

-----------------------------------------------------------------------------
(* main accepts a connection and calls sbuf_insert with it.                *)
Accept(p) ==
  /\ goto(p, "out", "wait")
  /\ accepted < ConnBound
  /\ accepted' = accepted + 1
  /\ item' = [item EXCEPT ![p] = accepted + 1]
  /\ UNCHANGED <<buf, front, rear, mutex, slots, items, index>>

(* A worker is back from doit and Close and calls sbuf_remove.             *)
Return(c) ==
  /\ goto(c, "out", "wait")
  /\ UNCHANGED <<buf, front, rear, mutex, slots, items, index, item, accepted>>

(* P(&sp->slots), P(&sp->items), and the mistake of not waiting.           *)
waitNothing(p) == goto(p, "wait", "lock") /\ UNCHANGED slots
waitSlot(p) == goto(p, "wait", "lock") /\ P(slots)
WaitSlot(p) ==
  /\ waitSlot(p)
  /\ UNCHANGED <<buf, front, rear, mutex, items, index, item, accepted>>

WaitItem(c) ==
  /\ goto(c, "wait", "lock")
  /\ P(items)
  /\ UNCHANGED <<buf, front, rear, mutex, slots, index, item, accepted>>

(* P(&sp->mutex), and the mistake of leaving it out.                       *)
lockNothing(t) == UNCHANGED mutex
lock(t) == P(mutex)
Lock(t) ==
  /\ goto(t, "lock", "read")
  /\ lock(t)
  /\ UNCHANGED <<buf, front, rear, slots, items, index, item, accepted>>

(* buf[(++rear) % n] = item                                                *)
ReadRear(p) ==
  /\ goto(p, "read", "write")
  /\ index' = [index EXCEPT ![p] = rear + 1]
  /\ UNCHANGED <<buf, front, rear, mutex, slots, items, item, accepted>>

WriteItem(p) ==
  /\ goto(p, "write", "unlock")
  /\ rear' = index[p]
  /\ buf' = [buf EXCEPT ![index[p] % n] = item[p]]
  /\ UNCHANGED <<front, mutex, slots, items, index, item, accepted>>

(* item = buf[(++front) % n]                                               *)
ReadFront(c) ==
  /\ goto(c, "read", "write")
  /\ index' = [index EXCEPT ![c] = front + 1]
  /\ UNCHANGED <<buf, front, rear, mutex, slots, items, item, accepted>>

TakeItem(c) ==
  /\ goto(c, "write", "unlock")
  /\ front' = index[c]
  /\ item' = [item EXCEPT ![c] = buf[index[c] % n]]
  /\ UNCHANGED <<buf, rear, mutex, slots, items, index, accepted>>

(* V(&sp->mutex), and the mistake of leaving it out.                       *)
unlockNothing(t) == UNCHANGED mutex
unlock(t) == V(mutex)
Unlock(t) ==
  /\ goto(t, "unlock", "post")
  /\ unlock(t)
  /\ UNCHANGED <<buf, front, rear, slots, items, index, item, accepted>>

(* V(&sp->items), V(&sp->slots), and the mistake of posting the semaphore  *)
(* the thread waited for.                                                  *)
PostItem(p) ==
  /\ goto(p, "post", "out")
  /\ V(items)
  /\ UNCHANGED <<buf, front, rear, mutex, slots, index, item, accepted>>

postItems(c) == V(items) /\ UNCHANGED slots
postSlots(c) == V(slots) /\ UNCHANGED items
PostSlot(c) ==
  /\ goto(c, "post", "out")
  /\ postSlots(c)
  /\ UNCHANGED <<buf, front, rear, mutex, index, item, accepted>>

-----------------------------------------------------------------------------
sbuf_insert(p) == \/ WaitSlot(p) \/ Lock(p) \/ ReadRear(p) \/ WriteItem(p)
                  \/ Unlock(p) \/ PostItem(p)

sbuf_remove(c) == \/ WaitItem(c) \/ Lock(c) \/ ReadFront(c) \/ TakeItem(c)
                  \/ Unlock(c) \/ PostSlot(c)

Next == \/ \E p \in Producers : Accept(p) \/ sbuf_insert(p)
        \/ \E c \in Consumers : Return(c) \/ sbuf_remove(c)

Spec == Init /\ [][Next]_vars

(* A thread that can go on does, sooner or later.  sem_post wakes a waiter *)
(* but gives it no precedence: a thread that waits for a semaphore others  *)
(* keep taking may wait forever, so fairness is weak.  Nothing makes a     *)
(* client connect or a worker return from doit.                            *)
Fairness == /\ \A p \in Producers : WF_vars(sbuf_insert(p))
            /\ \A c \in Consumers : WF_vars(sbuf_remove(c))

FairSpec == Spec /\ Fairness

-----------------------------------------------------------------------------
Locations == {"out", "wait", "lock", "read", "write", "unlock", "post"}

(* Type invariant; the semaphores are never negative and the mutex is      *)
(* binary, although V adds to it without looking (lines 26 and 35).        *)
TypeOK ==
  /\ buf \in [0 .. n - 1 -> Nat]
  /\ front \in Nat /\ rear \in Nat
  /\ mutex \in {0, 1}
  /\ slots \in 0 .. n /\ items \in 0 .. n
  /\ pc \in [Threads -> Locations]
  /\ index \in [Threads -> Nat]
  /\ item \in [Threads -> Nat]
  /\ accepted \in Nat

(* At most one thread is between P(&mutex) and V(&mutex).                  *)
Critical == {"read", "write", "unlock"}
MutualExclusion ==
  \A t, u \in Threads : pc[t] \in Critical /\ pc[u] \in Critical => t = u

(* The buffer as its callers see it: the items between front and rear.     *)
queue == [i \in 1 .. rear - front |-> buf[(front + i) % n]]

(* sbuf.c implements a bounded first-in first-out queue: an item is never  *)
(* overwritten before it was removed, removed twice, or out of order, and  *)
(* the queue never holds more than n.                                      *)
Queue == INSTANCE Fifo WITH queue <- queue,
                            offered <- [p \in Producers |-> item[p]],
                            item <- [c \in Consumers |-> item[c]]
ImplementsFifo == Queue!Spec

(* A connection in the buffer is removed, although no thread has a turn of *)
(* its own at a semaphore, unless from some time on all workers are in     *)
(* doit (lines 104-106 of proxy.c).                                        *)
SomeWorkerReturns == []<>(\E c \in Consumers : pc[c] # "out")
Buffered(x) == \E i \in 1 .. rear - front : queue[i] = x
ConnectionsTaken ==
  SomeWorkerReturns =>
     \A x \in 1 .. ConnBound : Buffered(x) ~> ~Buffered(x)

(* A connection that was accepted gets into the buffer, with the same      *)
(* exception: sbuf_insert blocks while the buffer is full.                 *)
InsertReturns ==
  SomeWorkerReturns => \A p \in Producers : pc[p] = "wait" ~> pc[p] = "out"
=============================================================================
