----------------------------- MODULE SbufProofs -----------------------------
(***************************************************************************)
(* Theorems about the bounded buffer (module Sbuf), for any number of      *)
(* slots, producers, consumers and connections: the semaphores stay within *)
(* their bounds, the mutex is one, and the code implements the queue of    *)
(* module Fifo.                                                            *)
(***************************************************************************)
EXTENDS Sbuf, TLAPS, FiniteSetTheorems, SequenceTheorems

Waited == {"lock", "read", "write"}   \* has a slot or an item to itself
Moved == {"unlock", "post"}           \* has moved its item

At(T, locs) == {t \in T : pc[t] \in locs}
Count(T, locs) == Cardinality(At(T, locs))

(* Each semaphore, with the threads that are between its P and the V of    *)
(* the other one, accounts for all n slots; and what is between front and  *)
(* rear is what items will have been, once the threads under way are done. *)
Counts ==
  /\ slots + items + Count(Producers, Waited) + Count(Producers, Moved)
       + Count(Consumers, Waited) + Count(Consumers, Moved) = n
  /\ rear - front = items + Count(Producers, Moved) + Count(Consumers, Waited)

(* The mutex is taken exactly while some thread is in its critical section, *)
(* and the index that thread read is still up to date.                     *)
MutexTaken == mutex = 1 => \A t \in Threads : pc[t] \notin Critical

IndexFresh ==
  /\ \A p \in Producers : pc[p] = "write" => index[p] = rear + 1
  /\ \A c \in Consumers : pc[c] = "write" => index[c] = front + 1

(* Types, without the upper bounds that follow from Counts.                *)
Types ==
  /\ buf \in [0 .. n - 1 -> Nat]
  /\ front \in Nat /\ rear \in Nat
  /\ mutex \in {0, 1} /\ slots \in Nat /\ items \in Nat
  /\ pc \in [Threads -> Locations]
  /\ index \in [Threads -> Nat]
  /\ item \in [Threads -> Nat]
  /\ accepted \in Nat

Inv == Types /\ MutualExclusion /\ MutexTaken /\ IndexFresh /\ Counts

-----------------------------------------------------------------------------
(* Arithmetic of the array index.                                          *)
LEMMA ModRange == ASSUME NEW a \in Int PROVE a % n \in 0 .. n - 1
  BY SbufAssumption, SMT

(* Indices less than n apart are different slots.                          *)
LEMMA ModDistinct ==
  ASSUME NEW a \in Nat, NEW b \in Nat, NEW k \in Nat \ {0}, a < b, b - a < k
  PROVE  a % k # b % k
<1>1. SUFFICES ASSUME a % k = b % k PROVE FALSE
  OBVIOUS
<1> DEFINE q == a \div k
           r == b \div k
<1>2. /\ q \in Int /\ r \in Int
      /\ a = k * q + (a % k)
      /\ b = k * r + (b % k)
  BY SMT
<1>3. b - a = k * (r - q)
  BY <1>1, <1>2, SMT
<1>4. r - q >= 1
  BY <1>2, <1>3, SMT
<1>5. k * (r - q) >= k
  BY <1>2, <1>4, SMT
<1> QED
  BY <1>3, <1>5

-----------------------------------------------------------------------------
(* How a step of one thread changes the counts.                            *)
LEMMA CountNat ==
  ASSUME NEW T, IsFiniteSet(T), NEW L
  PROVE  IsFiniteSet(At(T, L)) /\ Count(T, L) \in Nat
<1>1. IsFiniteSet(At(T, L))
  <2>1. At(T, L) \subseteq T
    BY DEF At
  <2> QED
    BY <2>1, FS_Subset
<1> QED
  BY <1>1, FS_CardinalityType DEF Count

(* The threads outside of T do not matter to its counts.                   *)
LEMMA CountOther ==
  ASSUME NEW T, NEW L, NEW t, NEW from, NEW to, T \subseteq Threads,
         pc \in [Threads -> Locations], goto(t, from, to),
         t \notin T \/ (from \in L <=> to \in L)
  PROVE  Count(T, L)' = Count(T, L)
<1>1. At(T, L)' = At(T, L)
  BY DEF At, goto
<1> QED
  BY <1>1 DEF Count

LEMMA CountEnter ==
  ASSUME NEW T, NEW L, NEW t \in T, NEW from, NEW to, T \subseteq Threads,
         pc \in [Threads -> Locations], goto(t, from, to), IsFiniteSet(T),
         from \notin L, to \in L
  PROVE  Count(T, L)' = Count(T, L) + 1
<1>1. At(T, L)' = At(T, L) \cup {t} /\ t \notin At(T, L)
  BY DEF At, goto
<1>2. IsFiniteSet(At(T, L))
  BY CountNat
<1> QED
  BY <1>1, <1>2, FS_AddElement DEF Count

LEMMA CountLeave ==
  ASSUME NEW T, NEW L, NEW t \in T, NEW from, NEW to, T \subseteq Threads,
         pc \in [Threads -> Locations], goto(t, from, to), IsFiniteSet(T),
         from \in L, to \notin L
  PROVE  /\ Count(T, L)' = Count(T, L) - 1
         /\ Count(T, L) > 0
<1>1. At(T, L)' = At(T, L) \ {t} /\ t \in At(T, L)
  BY DEF At, goto
<1>2. IsFiniteSet(At(T, L))
  BY CountNat
<1>3. Cardinality(At(T, L) \ {t}) = Cardinality(At(T, L)) - 1
  BY <1>1, <1>2, FS_RemoveElement
<1>4. At(T, L) # {} /\ Cardinality(At(T, L)) \in Nat
  BY <1>1, <1>2, FS_CardinalityType
<1>5. Cardinality(At(T, L)) # 0
  BY <1>2, <1>4, FS_EmptySet
<1> QED
  BY <1>1, <1>3, <1>4, <1>5 DEF Count

-----------------------------------------------------------------------------
(* The invariant.  Producers and consumers are different threads.          *)
LEMMA ThreadSets ==
  /\ IsFiniteSet(Producers) /\ IsFiniteSet(Consumers)
  /\ Producers \subseteq Threads /\ Consumers \subseteq Threads
  /\ Producers \cap Consumers = {}
  BY SbufAssumption DEF Threads

LEMMA CountTypes ==
  /\ Count(Producers, Waited) \in Nat /\ Count(Producers, Moved) \in Nat
  /\ Count(Consumers, Waited) \in Nat /\ Count(Consumers, Moved) \in Nat
  BY ThreadSets, CountNat

LEMMA InvInit == Init => Inv
<1> SUFFICES ASSUME Init PROVE Inv
  OBVIOUS
<1> USE SbufAssumption DEF Init, sbuf_init
<1>1. Types
  BY DEF Types, Locations
<1>2. MutualExclusion /\ MutexTaken /\ IndexFresh
  BY DEF MutualExclusion, MutexTaken, IndexFresh, Critical, Threads
<1>3. ASSUME NEW T, T \subseteq Threads, NEW L, "out" \notin L
      PROVE  Count(T, L) = 0
  <2>1. At(T, L) = {}
    BY <1>3 DEF At
  <2> QED
    BY <2>1, FS_EmptySet DEF Count
<1>4. /\ Count(Producers, Waited) = 0 /\ Count(Producers, Moved) = 0
      /\ Count(Consumers, Waited) = 0 /\ Count(Consumers, Moved) = 0
  BY <1>3, ThreadSets DEF Waited, Moved
<1>5. Counts
  BY <1>4 DEF Counts
<1> QED
  BY <1>1, <1>2, <1>5 DEF Inv

(* A step outside of the critical section keeps what is said of it.        *)
LEMMA QuietStep ==
  ASSUME Inv, NEW t \in Threads, NEW from, NEW to, goto(t, from, to),
         from \notin Critical, to \notin Critical,
         UNCHANGED <<mutex, index, front, rear>>
  PROVE  (MutualExclusion /\ MutexTaken /\ IndexFresh)'
<1>1. \A u \in Threads : pc'[u] \in Critical => pc'[u] = pc[u]
  BY DEF Inv, Types, goto
<1> QED
  BY <1>1, ThreadSets
     DEF Inv, MutualExclusion, MutexTaken, IndexFresh, Critical

(* A step inside of it that does not move an index.                        *)
LEMMA InsideStep ==
  ASSUME Inv, NEW t \in Threads, NEW from, NEW to, goto(t, from, to),
         from \in Critical, to \in Critical, UNCHANGED mutex
  PROVE  (MutualExclusion /\ MutexTaken)'
  BY DEF Inv, Types, MutualExclusion, MutexTaken, goto

(* While a thread is in the critical section, no other one is.             *)
LEMMA Alone ==
  ASSUME Inv, NEW t \in Threads, pc[t] \in Critical
  PROVE  /\ mutex = 0
         /\ \A u \in Threads : u # t => pc[u] \notin Critical
  BY DEF Inv, Types, MutualExclusion, MutexTaken

LEMMA InvCall ==
  ASSUME Inv, NEW t \in Threads, Accept(t) \/ Return(t)
  PROVE  Inv'
<1>1. goto(t, "out", "wait") /\ UNCHANGED <<buf, front, rear, mutex, slots, items, index>>
  BY DEF Accept, Return
<1>2. Types'
  BY <1>1 DEF Inv, Types, goto, Accept, Return, Locations
<1>3. (MutualExclusion /\ MutexTaken /\ IndexFresh)'
  BY <1>1, QuietStep DEF Critical
<1>4. /\ Count(Producers, Waited)' = Count(Producers, Waited)
      /\ Count(Producers, Moved)' = Count(Producers, Moved)
      /\ Count(Consumers, Waited)' = Count(Consumers, Waited)
      /\ Count(Consumers, Moved)' = Count(Consumers, Moved)
  BY <1>1, CountOther, ThreadSets DEF Inv, Types, Waited, Moved
<1>5. Counts'
  BY <1>1, <1>4 DEF Inv, Counts
<1> QED
  BY <1>2, <1>3, <1>5 DEF Inv

LEMMA InvWaitSlot ==
  ASSUME Inv, NEW p \in Producers, WaitSlot(p)
  PROVE  Inv'
<1>1. /\ goto(p, "wait", "lock") /\ slots > 0 /\ slots' = slots - 1
      /\ UNCHANGED <<buf, front, rear, mutex, items, index, item, accepted>>
  BY DEF WaitSlot, waitSlot, P
<1>2. Types'
  BY <1>1, ThreadSets DEF Inv, Types, goto, Locations
<1>3. (MutualExclusion /\ MutexTaken /\ IndexFresh)'
  BY <1>1, ThreadSets, QuietStep DEF Critical
<1>4. Count(Producers, Waited)' = Count(Producers, Waited) + 1
  BY <1>1, CountEnter, ThreadSets DEF Inv, Types, Waited
<1>5. /\ Count(Producers, Moved)' = Count(Producers, Moved)
      /\ Count(Consumers, Waited)' = Count(Consumers, Waited)
      /\ Count(Consumers, Moved)' = Count(Consumers, Moved)
  BY <1>1, CountOther, ThreadSets DEF Inv, Types, Moved
<1>6. Counts'
  <2>1. /\ slots \in Nat /\ items \in Nat /\ front \in Nat /\ rear \in Nat /\ n \in Nat
        /\ slots + items + Count(Producers, Waited) + Count(Producers, Moved)
             + Count(Consumers, Waited) + Count(Consumers, Moved) = n
        /\ rear - front = items + Count(Producers, Moved) + Count(Consumers, Waited)
    BY SbufAssumption DEF Inv, Types, Counts
  <2> QED
    BY <1>1, <1>4, <1>5, <2>1, CountTypes DEF Counts
<1> QED
  BY <1>2, <1>3, <1>6 DEF Inv

LEMMA InvWaitItem ==
  ASSUME Inv, NEW c \in Consumers, WaitItem(c)
  PROVE  Inv'
<1>1. /\ goto(c, "wait", "lock") /\ items > 0 /\ items' = items - 1
      /\ UNCHANGED <<buf, front, rear, mutex, slots, index, item, accepted>>
  BY DEF WaitItem, P
<1>2. Types'
  BY <1>1, ThreadSets DEF Inv, Types, goto, Locations
<1>3. (MutualExclusion /\ MutexTaken /\ IndexFresh)'
  BY <1>1, ThreadSets, QuietStep DEF Critical
<1>4. Count(Consumers, Waited)' = Count(Consumers, Waited) + 1
  BY <1>1, CountEnter, ThreadSets DEF Inv, Types, Waited
<1>5. /\ Count(Producers, Waited)' = Count(Producers, Waited)
      /\ Count(Producers, Moved)' = Count(Producers, Moved)
      /\ Count(Consumers, Moved)' = Count(Consumers, Moved)
  BY <1>1, CountOther, ThreadSets DEF Inv, Types, Moved
<1>6. Counts'
  <2>1. /\ slots \in Nat /\ items \in Nat /\ front \in Nat /\ rear \in Nat /\ n \in Nat
        /\ slots + items + Count(Producers, Waited) + Count(Producers, Moved)
             + Count(Consumers, Waited) + Count(Consumers, Moved) = n
        /\ rear - front = items + Count(Producers, Moved) + Count(Consumers, Waited)
    BY SbufAssumption DEF Inv, Types, Counts
  <2> QED
    BY <1>1, <1>4, <1>5, <2>1, CountTypes DEF Counts
<1> QED
  BY <1>2, <1>3, <1>6 DEF Inv

LEMMA InvLock ==
  ASSUME Inv, NEW t \in Threads, Lock(t)
  PROVE  Inv'
<1>1. /\ goto(t, "lock", "read") /\ mutex > 0 /\ mutex' = mutex - 1
      /\ UNCHANGED <<buf, front, rear, slots, items, index, item, accepted>>
  BY DEF Lock, lock, P
<1>2. mutex = 1 /\ mutex' = 0
  BY <1>1 DEF Inv, Types
<1>3. Types'
  BY <1>1, <1>2 DEF Inv, Types, goto, Locations
<1>4. (MutualExclusion /\ MutexTaken)'
  BY <1>1, <1>2 DEF Inv, Types, MutualExclusion, MutexTaken, goto
<1>5. IndexFresh'
  BY <1>1 DEF Inv, Types, IndexFresh, goto
<1>6. /\ Count(Producers, Waited)' = Count(Producers, Waited)
      /\ Count(Producers, Moved)' = Count(Producers, Moved)
      /\ Count(Consumers, Waited)' = Count(Consumers, Waited)
      /\ Count(Consumers, Moved)' = Count(Consumers, Moved)
  BY <1>1, CountOther, ThreadSets DEF Inv, Types, Waited, Moved
<1>7. Counts'
  BY <1>1, <1>6 DEF Inv, Counts
<1> QED
  BY <1>3, <1>4, <1>5, <1>7 DEF Inv

LEMMA InvRead ==
  ASSUME Inv, NEW t \in Threads,
         (t \in Producers /\ ReadRear(t)) \/ (t \in Consumers /\ ReadFront(t))
  PROVE  Inv'
<1>1. /\ goto(t, "read", "write")
      /\ UNCHANGED <<buf, front, rear, mutex, slots, items, item, accepted>>
      /\ index' = [index EXCEPT ![t] = IF t \in Producers THEN rear + 1 ELSE front + 1]
  BY ThreadSets DEF ReadRear, ReadFront
<1>2. Types'
  BY <1>1, ThreadSets DEF Inv, Types, goto, Locations
<1>3. (MutualExclusion /\ MutexTaken)'
  BY <1>1, InsideStep DEF Critical
<1>4. IndexFresh'
  BY <1>1, ThreadSets DEF Inv, Types, IndexFresh, goto
<1>5. /\ Count(Producers, Waited)' = Count(Producers, Waited)
      /\ Count(Producers, Moved)' = Count(Producers, Moved)
      /\ Count(Consumers, Waited)' = Count(Consumers, Waited)
      /\ Count(Consumers, Moved)' = Count(Consumers, Moved)
  BY <1>1, CountOther, ThreadSets DEF Inv, Types, Waited, Moved
<1>6. Counts'
  BY <1>1, <1>5 DEF Inv, Counts
<1> QED
  BY <1>2, <1>3, <1>4, <1>6 DEF Inv

LEMMA InvWriteItem ==
  ASSUME Inv, NEW p \in Producers, WriteItem(p)
  PROVE  Inv'
<1>1. /\ goto(p, "write", "unlock") /\ rear' = rear + 1
      /\ buf' = [buf EXCEPT ![(rear + 1) % n] = item[p]]
      /\ UNCHANGED <<front, mutex, slots, items, index, item, accepted>>
  BY ThreadSets DEF WriteItem, goto, Inv, Types, IndexFresh
<1>2. Types'
  <2>1. buf' \in [0 .. n - 1 -> Nat]
    BY <1>1, ModRange, ThreadSets DEF Inv, Types
  <2> QED
    BY <1>1, <2>1, ThreadSets DEF Inv, Types, goto, Locations
<1>3. (MutualExclusion /\ MutexTaken)'
  BY <1>1, ThreadSets, InsideStep DEF Critical
<1>4. IndexFresh'
  <2>1. \A u \in Threads : pc'[u] # "write"
    BY <1>1, Alone, ThreadSets DEF goto, Critical, Inv, Types
  <2> QED
    BY <2>1, ThreadSets DEF IndexFresh
<1>5. Count(Producers, Waited)' = Count(Producers, Waited) - 1
  BY <1>1, CountLeave, ThreadSets DEF Inv, Types, Waited
<1>6. Count(Producers, Moved)' = Count(Producers, Moved) + 1
  BY <1>1, CountEnter, ThreadSets DEF Inv, Types, Moved
<1>7. /\ Count(Consumers, Waited)' = Count(Consumers, Waited)
      /\ Count(Consumers, Moved)' = Count(Consumers, Moved)
  BY <1>1, CountOther, ThreadSets DEF Inv, Types
<1>8. Counts'
  <2>1. /\ slots \in Nat /\ items \in Nat /\ front \in Nat /\ rear \in Nat /\ n \in Nat
        /\ slots + items + Count(Producers, Waited) + Count(Producers, Moved)
             + Count(Consumers, Waited) + Count(Consumers, Moved) = n
        /\ rear - front = items + Count(Producers, Moved) + Count(Consumers, Waited)
    BY SbufAssumption DEF Inv, Types, Counts
  <2> QED
    BY <1>1, <1>5, <1>6, <1>7, <2>1, CountTypes DEF Counts
<1> QED
  BY <1>2, <1>3, <1>4, <1>8 DEF Inv

LEMMA InvTakeItem ==
  ASSUME Inv, NEW c \in Consumers, TakeItem(c)
  PROVE  Inv'
<1>1. /\ goto(c, "write", "unlock") /\ front' = front + 1
      /\ item' = [item EXCEPT ![c] = buf[(front + 1) % n]]
      /\ UNCHANGED <<buf, rear, mutex, slots, items, index, accepted>>
  BY ThreadSets DEF TakeItem, goto, Inv, Types, IndexFresh
<1>2. Types'
  <2>1. buf[(front + 1) % n] \in Nat
    <3>1. front + 1 \in Int
      BY DEF Inv, Types
    <3>2. (front + 1) % n \in 0 .. n - 1
      BY <3>1, ModRange
    <3> QED
      BY <3>2 DEF Inv, Types
  <2> QED
    BY <1>1, <2>1, ThreadSets DEF Inv, Types, goto, Locations
<1>3. (MutualExclusion /\ MutexTaken)'
  BY <1>1, ThreadSets, InsideStep DEF Critical
<1>4. IndexFresh'
  <2>1. \A u \in Threads : pc'[u] # "write"
    BY <1>1, Alone, ThreadSets DEF goto, Critical, Inv, Types
  <2> QED
    BY <2>1, ThreadSets DEF IndexFresh
<1>5. Count(Consumers, Waited)' = Count(Consumers, Waited) - 1
  BY <1>1, CountLeave, ThreadSets DEF Inv, Types, Waited
<1>6. Count(Consumers, Moved)' = Count(Consumers, Moved) + 1
  BY <1>1, CountEnter, ThreadSets DEF Inv, Types, Moved
<1>7. /\ Count(Producers, Waited)' = Count(Producers, Waited)
      /\ Count(Producers, Moved)' = Count(Producers, Moved)
  BY <1>1, CountOther, ThreadSets DEF Inv, Types
<1>8. Counts'
  <2>1. /\ slots \in Nat /\ items \in Nat /\ front \in Nat /\ rear \in Nat /\ n \in Nat
        /\ slots + items + Count(Producers, Waited) + Count(Producers, Moved)
             + Count(Consumers, Waited) + Count(Consumers, Moved) = n
        /\ rear - front = items + Count(Producers, Moved) + Count(Consumers, Waited)
    BY SbufAssumption DEF Inv, Types, Counts
  <2> QED
    BY <1>1, <1>5, <1>6, <1>7, <2>1, CountTypes DEF Counts
<1> QED
  BY <1>2, <1>3, <1>4, <1>8 DEF Inv

LEMMA InvUnlock ==
  ASSUME Inv, NEW t \in Threads, Unlock(t)
  PROVE  Inv'
<1>1. /\ goto(t, "unlock", "post") /\ mutex' = mutex + 1
      /\ UNCHANGED <<buf, front, rear, slots, items, index, item, accepted>>
  BY DEF Unlock, unlock, V
<1>2. mutex = 0 /\ \A u \in Threads : u # t => pc[u] \notin Critical
  BY <1>1, Alone DEF goto, Critical
<1>3. Types'
  BY <1>1, <1>2 DEF Inv, Types, goto, Locations
<1>4. \A u \in Threads : pc'[u] \notin Critical
  BY <1>1, <1>2 DEF Inv, Types, goto, Critical
<1>5. (MutualExclusion /\ MutexTaken /\ IndexFresh)'
  BY <1>4, ThreadSets DEF MutualExclusion, MutexTaken, IndexFresh, Critical
<1>6. /\ Count(Producers, Waited)' = Count(Producers, Waited)
      /\ Count(Producers, Moved)' = Count(Producers, Moved)
      /\ Count(Consumers, Waited)' = Count(Consumers, Waited)
      /\ Count(Consumers, Moved)' = Count(Consumers, Moved)
  BY <1>1, CountOther, ThreadSets DEF Inv, Types, Waited, Moved
<1>7. Counts'
  BY <1>1, <1>6 DEF Inv, Counts
<1> QED
  BY <1>3, <1>5, <1>7 DEF Inv

LEMMA InvPostItem ==
  ASSUME Inv, NEW p \in Producers, PostItem(p)
  PROVE  Inv'
<1>1. /\ goto(p, "post", "out") /\ items' = items + 1
      /\ UNCHANGED <<buf, front, rear, mutex, slots, index, item, accepted>>
  BY DEF PostItem, V
<1>2. Types'
  BY <1>1, ThreadSets DEF Inv, Types, goto, Locations
<1>3. (MutualExclusion /\ MutexTaken /\ IndexFresh)'
  BY <1>1, ThreadSets, QuietStep DEF Critical
<1>4. Count(Producers, Moved)' = Count(Producers, Moved) - 1
  BY <1>1, CountLeave, ThreadSets DEF Inv, Types, Moved
<1>5. /\ Count(Producers, Waited)' = Count(Producers, Waited)
      /\ Count(Consumers, Waited)' = Count(Consumers, Waited)
      /\ Count(Consumers, Moved)' = Count(Consumers, Moved)
  BY <1>1, CountOther, ThreadSets DEF Inv, Types, Waited
<1>6. Counts'
  <2>1. /\ slots \in Nat /\ items \in Nat /\ front \in Nat /\ rear \in Nat /\ n \in Nat
        /\ slots + items + Count(Producers, Waited) + Count(Producers, Moved)
             + Count(Consumers, Waited) + Count(Consumers, Moved) = n
        /\ rear - front = items + Count(Producers, Moved) + Count(Consumers, Waited)
    BY SbufAssumption DEF Inv, Types, Counts
  <2> QED
    BY <1>1, <1>4, <1>5, <2>1, CountTypes DEF Counts
<1> QED
  BY <1>2, <1>3, <1>6 DEF Inv

LEMMA InvPostSlot ==
  ASSUME Inv, NEW c \in Consumers, PostSlot(c)
  PROVE  Inv'
<1>1. /\ goto(c, "post", "out") /\ slots' = slots + 1
      /\ UNCHANGED <<buf, front, rear, mutex, items, index, item, accepted>>
  BY DEF PostSlot, postSlots, V
<1>2. Types'
  BY <1>1, ThreadSets DEF Inv, Types, goto, Locations
<1>3. (MutualExclusion /\ MutexTaken /\ IndexFresh)'
  BY <1>1, ThreadSets, QuietStep DEF Critical
<1>4. Count(Consumers, Moved)' = Count(Consumers, Moved) - 1
  BY <1>1, CountLeave, ThreadSets DEF Inv, Types, Moved
<1>5. /\ Count(Producers, Waited)' = Count(Producers, Waited)
      /\ Count(Producers, Moved)' = Count(Producers, Moved)
      /\ Count(Consumers, Waited)' = Count(Consumers, Waited)
  BY <1>1, CountOther, ThreadSets DEF Inv, Types, Waited
<1>6. Counts'
  <2>1. /\ slots \in Nat /\ items \in Nat /\ front \in Nat /\ rear \in Nat /\ n \in Nat
        /\ slots + items + Count(Producers, Waited) + Count(Producers, Moved)
             + Count(Consumers, Waited) + Count(Consumers, Moved) = n
        /\ rear - front = items + Count(Producers, Moved) + Count(Consumers, Waited)
    BY SbufAssumption DEF Inv, Types, Counts
  <2> QED
    BY <1>1, <1>4, <1>5, <2>1, CountTypes DEF Counts
<1> QED
  BY <1>2, <1>3, <1>6 DEF Inv

LEMMA InvStutter == Inv /\ UNCHANGED vars => Inv'
<1> SUFFICES ASSUME Inv, UNCHANGED vars PROVE Inv'
  OBVIOUS
<1>1. \A T, L : Count(T, L)' = Count(T, L)
  BY DEF vars, Count, At
<1> QED
  BY <1>1 DEF vars, Inv, Types, MutualExclusion, MutexTaken, IndexFresh, Counts

LEMMA InvNext == Inv /\ [Next]_vars => Inv'
<1> SUFFICES ASSUME Inv, [Next]_vars PROVE Inv'
  OBVIOUS
<1>1. ASSUME NEW p \in Producers, Accept(p) \/ sbuf_insert(p) PROVE Inv'
  BY <1>1, ThreadSets, InvCall, InvWaitSlot, InvLock, InvRead, InvWriteItem,
     InvUnlock, InvPostItem DEF sbuf_insert
<1>2. ASSUME NEW c \in Consumers, Return(c) \/ sbuf_remove(c) PROVE Inv'
  BY <1>2, ThreadSets, InvCall, InvWaitItem, InvLock, InvRead, InvTakeItem,
     InvUnlock, InvPostSlot DEF sbuf_remove
<1> QED
  BY <1>1, <1>2, InvStutter DEF Next

LEMMA BufferInvariant == Spec => []Inv
  BY InvInit, InvNext, PTL DEF Spec

(* The semaphores stay within their bounds: slots and items never exceed n *)
(* and the mutex is binary, however the threads interleave.                *)
THEOREM BufferType == Spec => []TypeOK
<1>1. Inv => TypeOK
  BY CountTypes, SbufAssumption DEF Inv, Types, Counts, TypeOK
<1> QED
  BY <1>1, BufferInvariant, PTL

(* At most one thread is in the critical section.                          *)
THEOREM BufferMutex == Spec => []MutualExclusion
<1>1. Inv => MutualExclusion
  BY DEF Inv
<1> QED
  BY <1>1, BufferInvariant, PTL

-----------------------------------------------------------------------------
(* The refinement of module Fifo.  The slots between two indices are a     *)
(* sequence of numbers; so is queue, before and after a step.              *)
Slots(b, f, m) == [i \in 1 .. m |-> b[(f + i) % n]]

LEMMA SlotsAreSeq ==
  ASSUME NEW b \in [0 .. n - 1 -> Nat], NEW f \in Nat, NEW m \in Nat
  PROVE  Slots(b, f, m) \in Seq(Nat) /\ Len(Slots(b, f, m)) = m
<1> DEFINE q == Slots(b, f, m)
<1>1. ASSUME NEW i \in 1 .. m
      PROVE  b[(f + i) % n] \in Nat
  <2>1. f + i \in Int
    OBVIOUS
  <2>2. (f + i) % n \in 0 .. n - 1
    BY <2>1, ModRange
  <2> QED
    BY <2>2
<1>2. q \in [1 .. m -> Nat]
  BY <1>1 DEF Slots
<1> HIDE DEF q
<1>3. q \in Seq(Nat)
  BY <1>2, SeqDef
<1>4. Len(q) = m
  BY <1>2, <1>3, LenProperties
<1> QED
  BY <1>3, <1>4 DEF q

LEMMA QueueIsSeq ==
  ASSUME Inv
  PROVE  /\ rear - front \in Nat
         /\ queue \in Seq(Nat)
         /\ Len(queue) = rear - front
<1>1. rear - front \in Nat
  BY CountTypes DEF Inv, Types, Counts
<1>2. queue = Slots(buf, front, rear - front)
  BY DEF queue, Slots
<1> QED
  BY <1>1, <1>2, SlotsAreSeq DEF Inv, Types

LEMMA InitRefines == Init => Queue!Init
<1> SUFFICES ASSUME Init PROVE Queue!Init
  OBVIOUS
<1>1. Inv
  BY InvInit
<1>2. queue \in Seq(Nat) /\ Len(queue) = 0
  BY <1>1, QueueIsSeq DEF Init, sbuf_init
<1>3. queue = <<>>
  BY <1>2, EmptySeq
<1> QED
  BY <1>3, ThreadSets DEF Init, Queue!Init

(* Writing the array is inserting: there is room, and the other items stay. *)
LEMMA WriteInserts ==
  ASSUME Inv, NEW p \in Producers, WriteItem(p)
  PROVE  Len(queue) < n /\ queue' = Append(queue, item[p])
<1>1. /\ goto(p, "write", "unlock") /\ rear' = rear + 1
      /\ buf' = [buf EXCEPT ![(rear + 1) % n] = item[p]]
      /\ UNCHANGED <<front, mutex, slots, items, index, item, accepted>>
  BY ThreadSets DEF WriteItem, goto, Inv, Types, IndexFresh
<1>2. Inv'
  BY InvWriteItem
<1> DEFINE k == rear - front
<1>3. /\ front \in Nat /\ rear \in Nat /\ n \in Nat \ {0} /\ item[p] \in Nat
      /\ k \in Nat
  BY QueueIsSeq, ThreadSets, SbufAssumption DEF Inv, Types
<1>4. k < n
  <2>1. Count(Producers, Waited) > 0
    BY <1>1, CountLeave, ThreadSets DEF Inv, Types, Waited
  <2> QED
    BY <2>1, CountTypes, SbufAssumption DEF Inv, Types, Counts
<1>5. queue \in Seq(Nat) /\ Len(queue) = k
  BY QueueIsSeq
<1>6. queue' \in Seq(Nat) /\ Len(queue') = k + 1
  <2>1. /\ buf' \in [0 .. n - 1 -> Nat] /\ front' \in Nat
        /\ rear' - front' = k + 1 /\ k + 1 \in Nat
    BY <1>1, <1>2, <1>3 DEF Inv, Types
  <2>2. queue' = Slots(buf', front', k + 1)
    BY <2>1 DEF queue, Slots
  <2> HIDE DEF k
  <2> QED
    BY <2>1, <2>2, SlotsAreSeq
<1>7. ASSUME NEW i \in 1 .. k
      PROVE  queue'[i] = queue[i]
  <2>1. (front + i) % n # (rear + 1) % n
    <3>1. /\ front + i \in Nat /\ rear + 1 \in Nat
          /\ front + i < rear + 1 /\ (rear + 1) - (front + i) < n
      BY <1>3, <1>4
    <3> QED
      BY <1>3, <3>1, ModDistinct
  <2>2. queue'[i] = buf'[(front + i) % n]
    BY <1>1, <1>3 DEF queue
  <2>3. buf'[(front + i) % n] = buf[(front + i) % n]
    BY <1>1, <2>1 DEF Inv, Types
  <2> QED
    BY <2>2, <2>3 DEF queue
<1>8. queue'[k + 1] = item[p]
  <2>1. queue'[k + 1] = buf'[(front + (k + 1)) % n]
    BY <1>1, <1>3 DEF queue
  <2>2. front + (k + 1) = rear + 1
    BY <1>3
  <2>3. (rear + 1) % n \in 0 .. n - 1
    BY <1>3, ModRange
  <2> QED
    BY <1>1, <2>1, <2>2, <2>3 DEF Inv, Types
<1>9. queue' = Append(queue, item[p])
  <2> DEFINE q == Append(queue, item[p])
  <2>1. /\ q \in Seq(Nat) /\ Len(q) = k + 1
        /\ \A i \in 1 .. k + 1 : q[i] = IF i = k + 1 THEN item[p] ELSE queue[i]
    BY <1>3, <1>5
  <2>2. \A i \in 1 .. k + 1 : queue'[i] = q[i]
    BY <1>3, <1>7, <1>8, <2>1
  <2> HIDE DEF q
  <2>3. queue' = q
    BY <1>6, <2>1, <2>2, SeqEqual
  <2> QED
    BY <2>3 DEF q
<1> QED
  BY <1>4, <1>5, <1>9

(* Reading the array is removing: there is an item, and it is the oldest.  *)
LEMMA TakeRemoves ==
  ASSUME Inv, NEW c \in Consumers, TakeItem(c)
  PROVE  /\ queue # <<>>
         /\ item'[c] = Head(queue)
         /\ queue' = Tail(queue)
<1>1. /\ goto(c, "write", "unlock") /\ front' = front + 1
      /\ item' = [item EXCEPT ![c] = buf[(front + 1) % n]]
      /\ UNCHANGED <<buf, rear, mutex, slots, items, index, accepted>>
  BY ThreadSets DEF TakeItem, goto, Inv, Types, IndexFresh
<1>2. Inv'
  BY InvTakeItem
<1> DEFINE k == rear - front
<1>3. /\ front \in Nat /\ rear \in Nat /\ n \in Nat \ {0} /\ k \in Nat
  BY QueueIsSeq, SbufAssumption DEF Inv, Types
<1>4. k > 0
  <2>1. Count(Consumers, Waited) > 0
    BY <1>1, CountLeave, ThreadSets DEF Inv, Types, Waited
  <2> QED
    BY <2>1, CountTypes DEF Inv, Types, Counts
<1>5. queue \in Seq(Nat) /\ Len(queue) = k
  BY QueueIsSeq
<1>6. queue # <<>>
  BY <1>4, <1>5, EmptySeq
<1>7. queue' \in Seq(Nat) /\ Len(queue') = k - 1
  <2>1. /\ buf' \in [0 .. n - 1 -> Nat] /\ front' \in Nat
        /\ rear' - front' = k - 1 /\ k - 1 \in Nat
    BY <1>1, <1>2, <1>3, <1>4 DEF Inv, Types
  <2>2. queue' = Slots(buf', front', k - 1)
    BY <2>1 DEF queue, Slots
  <2> HIDE DEF k
  <2> QED
    BY <2>1, <2>2, SlotsAreSeq
<1>8. item'[c] = Head(queue)
  <2>1. item'[c] = buf[(front + 1) % n]
    BY <1>1, ThreadSets DEF Inv, Types
  <2>2. queue[1] = buf[(front + 1) % n]
    BY <1>3, <1>4 DEF queue
  <2> QED
    BY <1>5, <1>6, <2>1, <2>2
<1>9. queue' = Tail(queue)
  <2>1. /\ Tail(queue) \in Seq(Nat) /\ Len(Tail(queue)) = k - 1
        /\ \A i \in 1 .. k - 1 : Tail(queue)[i] = queue[i + 1]
    BY <1>5, <1>6, HeadTailProperties
  <2>2. ASSUME NEW i \in 1 .. k - 1
        PROVE  queue'[i] = queue[i + 1]
    <3>1. queue'[i] = buf[((front + 1) + i) % n]
      BY <1>1, <1>3 DEF queue
    <3>2. queue[i + 1] = buf[(front + (i + 1)) % n]
      BY <1>3 DEF queue
    <3>3. (front + 1) + i = front + (i + 1)
      BY <1>3
    <3> QED
      BY <3>1, <3>2, <3>3
  <2>3. \A i \in 1 .. k - 1 : queue'[i] = Tail(queue)[i]
    BY <2>1, <2>2
  <2> QED
    BY <1>7, <2>1, <2>3, SeqEqual
<1> QED
  BY <1>6, <1>8, <1>9

(* Every step is a step of the queue, or none of its steps.                *)
LEMMA StepRefines ==
  ASSUME Inv, [Next]_vars
  PROVE  [Queue!Next]_<<queue, [p \in Producers |-> item[p]],
                        [c \in Consumers |-> item[c]]>>
<1> DEFINE offered == [p \in Producers |-> item[p]]
           got == [c \in Consumers |-> item[c]]
<1>1. ASSUME UNCHANGED <<buf, front, rear, item>>
      PROVE  UNCHANGED <<queue, offered, got>>
  BY <1>1 DEF queue
<1>2. ASSUME NEW p \in Producers, Accept(p)
      PROVE  Queue!Offer
  <2>1. UNCHANGED queue
    BY <1>2 DEF Accept, queue
  <2>2. item' = [item EXCEPT ![p] = accepted + 1] /\ accepted + 1 \in Nat
    BY <1>2 DEF Accept, Inv, Types
  <2>3. UNCHANGED got
    BY <2>2, ThreadSets DEF Inv, Types
  <2>4. offered' \in [Producers -> Nat]
    BY <2>2, ThreadSets DEF Inv, Types
  <2> QED
    BY <2>1, <2>3, <2>4 DEF Queue!Offer
<1>3. ASSUME NEW p \in Producers, WriteItem(p)
      PROVE  Queue!Insert
  <2>1. Len(queue) < n /\ queue' = Append(queue, offered[p])
    BY <1>3, WriteInserts
  <2>2. UNCHANGED <<offered, got>>
    BY <1>3 DEF WriteItem
  <2> QED
    BY <2>1, <2>2 DEF Queue!Insert
<1>4. ASSUME NEW c \in Consumers, TakeItem(c)
      PROVE  Queue!Remove
  <2>1. queue # <<>> /\ item'[c] = Head(queue) /\ queue' = Tail(queue)
    BY <1>4, TakeRemoves
  <2>2. item' = [item EXCEPT ![c] = item'[c]]
    BY <1>4, ThreadSets DEF TakeItem, Inv, Types
  <2>3. got' = [got EXCEPT ![c] = Head(queue)] /\ UNCHANGED offered
    BY <2>1, <2>2, ThreadSets DEF Inv, Types
  <2> QED
    BY <2>1, <2>3 DEF Queue!Remove
<1>5. ASSUME NEW p \in Producers, sbuf_insert(p)
      PROVE  Queue!Insert \/ UNCHANGED <<queue, offered, got>>
  BY <1>1, <1>3, <1>5
     DEF sbuf_insert, WaitSlot, Lock, ReadRear, Unlock, PostItem
<1>6. ASSUME NEW c \in Consumers, Return(c) \/ sbuf_remove(c)
      PROVE  Queue!Remove \/ UNCHANGED <<queue, offered, got>>
  BY <1>1, <1>4, <1>6
     DEF sbuf_remove, Return, WaitItem, Lock, ReadFront, Unlock, PostSlot, postSlots
<1>7. CASE UNCHANGED vars
  BY <1>1, <1>7 DEF vars
<1>8. CASE Next
  BY <1>2, <1>5, <1>6, <1>8 DEF Next, Queue!Next
<1> QED
  BY <1>7, <1>8

(* sbuf.c implements the bounded queue, for any number of threads.         *)
THEOREM BufferIsFifo == Spec => ImplementsFifo
<1>1. Inv /\ [Next]_vars =>
        [Queue!Next]_<<queue, [p \in Producers |-> item[p]],
                       [c \in Consumers |-> item[c]]>>
  BY StepRefines
<1> QED
  BY <1>1, InitRefines, BufferInvariant, PTL DEF Spec, ImplementsFifo, Queue!Spec
=============================================================================
