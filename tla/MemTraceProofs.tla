-------------------------- MODULE MemTraceProofs --------------------------
(***************************************************************************)
(* Theorems about the memory tracer (module MemTrace), for programs that   *)
(* make any number of calls and any addresses and sizes.                   *)
(***************************************************************************)
EXTENDS MemTrace, SetInduction, FiniteSetTheorems

Pointers == Addr \cup {NULL}
Item == [ptr : Pointers, size : Nat, cnt : Int]
Lists == {l \in Seq(Item) : \A i, j \in DOMAIN l : i < j => l[i].ptr < l[j].ptr}

-----------------------------------------------------------------------------
(* The inductive invariant.                                                *)

Blocks == {f \in UNION {[D -> Nat] : D \in SUBSET Addr} : IsFiniteSet(DOMAIN f)}
Bytes(f) == FoldSet(LAMBDA a, sum : f[a] + sum, 0, DOMAIN f)

Types ==
  /\ part \in Parts /\ list \in Lists /\ live \in Blocks /\ held \subseteq Addr
  /\ n_allocb \in Int /\ n_freeb \in Int /\ grown \in Int /\ failed \in BOOLEAN /\ moved \in BOOLEAN

(* A correct program has no pointer to a block that is not in use, unless  *)
(* part 1 gave it one.                                                     *)
HeldLive == part = 2 \/ (part = 1 /\ ~moved) => held \subseteq DOMAIN live

(* A block with a positive count is in use, and listed with its size.      *)
Tracked ==
  part # 1 =>
    \A p \in Addr :
      /\ find(list, p).cnt <= 1
      /\ find(list, p).cnt = 1 => p \in DOMAIN live /\ find(list, p).size = live[p]
      /\ part = 3 => find(list, p).cnt >= 0

(* While no request for memory has failed, every block in use has one, and *)
(* NULL is not in the list.                                                *)
Complete ==
  part # 1 /\ ~failed =>
    /\ find(list, NULL) = None
    /\ \A p \in Addr : find(list, p).cnt >= 0
    /\ \A p \in DOMAIN live : find(list, p).cnt = 1

Balanced ==
  part # 1 /\ ~failed => n_allocb - n_freeb = Bytes(live) - (IF part = 3 THEN grown ELSE 0)

InUse == {[ptr |-> a, size |-> live[a], cnt |-> 1] : a \in DOMAIN live}

Reported ==
  part # 1 /\ ~failed /\ status = "fini" => report = IF n_freeb < n_allocb THEN InUse ELSE {}

Inv == Types /\ HeldLive /\ Tracked /\ Complete /\ Balanced /\ Reported /\ LibcCallsLegal /\ AlarmsExact

-----------------------------------------------------------------------------
(* The list.                                                               *)

LEMMA PointersNat == Pointers \subseteq Nat /\ NULL = 0 /\ NULL \in Pointers /\ -1 \notin Pointers
<1>1. Pointers \subseteq Nat /\ NULL = 0 /\ NULL \in Pointers
  BY MemTraceAssumption DEF Pointers, NULL
<1> QED
  BY <1>1

LEMMA ItemFields ==
  ASSUME NEW l \in Lists, NEW n \in DOMAIN l
  PROVE  l[n] \in Item /\ l[n].ptr \in Nat /\ l[n].ptr \in Pointers /\ l[n].size \in Nat
         /\ l[n].cnt \in Int /\ n \in Nat /\ n \in 1 .. Len(l) /\ Len(l) \in Nat
<1>1. l \in Seq(Item)
  BY DEF Lists
<1>2. l[n] \in Item /\ DOMAIN l = 1 .. Len(l) /\ Len(l) \in Nat
  BY <1>1
<1>3. l[n].ptr \in Pointers /\ l[n].size \in Nat /\ l[n].cnt \in Int
  BY <1>2 DEF Item
<1>4. l[n].ptr \in Nat
  BY <1>3, PointersNat
<1>5. n \in 1 .. Len(l) /\ n \in Nat
  BY <1>2
<1> QED
  BY <1>2, <1>3, <1>4, <1>5

LEMMA FirstFrom ==
  ASSUME NEW l \in Lists, NEW p \in Pointers
  PROVE  LET n == first_from(l, p)
         IN  \/ n = 0 /\ \A i \in DOMAIN l : l[i].ptr < p
             \/ n \in DOMAIN l /\ l[n].ptr >= p /\ \A i \in DOMAIN l : i < n => l[i].ptr < p
<1> DEFINE I == {i \in 1 .. Len(l) : l[i].ptr >= p}
<1>1. first_from(l, p) = IF I # {} THEN Min(I) ELSE 0
  BY DEF first_from, SelectInSeq
<1>2. Len(l) \in Nat /\ DOMAIN l = 1 .. Len(l) /\ p \in Nat
  BY PointersNat DEF Lists
<1>3. \A i \in DOMAIN l : l[i].ptr \in Nat
  BY ItemFields
<1>4. CASE I = {}
  BY <1>1, <1>2, <1>3, <1>4
<1>5. CASE I # {}
  <2>1. I \in SUBSET Nat
    BY <1>2
  <2>2. \E x \in I : \A y \in I : x <= y
    <3> HIDE DEF I
    <3> QED
      BY <2>1, <1>5, LeastNat
  <2>3. Min(I) \in I /\ \A y \in I : Min(I) <= y
    <3> HIDE DEF I
    <3> QED
      BY <2>2 DEF Min
  <2>4. first_from(l, p) = Min(I)
    BY <1>1, <1>5
  <2> DEFINE n == Min(I)
  <2>5. n \in 1 .. Len(l) /\ l[n].ptr >= p
    BY <2>3
  <2>6. \A i \in DOMAIN l : i < n => l[i].ptr < p
    <3> SUFFICES ASSUME NEW i \in DOMAIN l, i < n, ~(l[i].ptr < p) PROVE FALSE
      OBVIOUS
    <3>1. i \in I
      BY <1>2, <1>3
    <3>2. n <= i
      BY <2>3, <3>1
    <3> HIDE DEF n
    <3> QED
      BY <1>2, <2>5, <3>2
  <2> QED
    BY <1>2, <2>4, <2>5, <2>6
<1> QED
  BY <1>4, <1>5

LEMMA FirstAt ==
  ASSUME NEW l \in Lists, NEW p \in Pointers
  PROVE  LET n == first_at(l, p)
         IN  \/ n = 0 /\ \A i \in DOMAIN l : l[i].ptr # p
             \/ n \in DOMAIN l /\ l[n].ptr = p
<1> DEFINE I == {i \in 1 .. Len(l) : l[i].ptr = p}
<1>1. first_at(l, p) = IF I # {} THEN Min(I) ELSE 0
  BY DEF first_at, SelectInSeq
<1>2. Len(l) \in Nat /\ DOMAIN l = 1 .. Len(l)
  BY DEF Lists
<1>3. CASE I = {}
  BY <1>1, <1>2, <1>3
<1>4. CASE I # {}
  <2>1. I \in SUBSET Nat
    BY <1>2
  <2>2. \E x \in I : \A y \in I : x <= y
    <3> HIDE DEF I
    <3> QED
      BY <2>1, <1>4, LeastNat
  <2>3. Min(I) \in I
    <3> HIDE DEF I
    <3> QED
      BY <2>2 DEF Min
  <2> QED
    BY <1>1, <1>2, <1>4, <2>3
<1> QED
  BY <1>3, <1>4

(* An address is in the list once.                                         *)
LEMMA ListedOnce ==
  ASSUME NEW l \in Lists, NEW i \in DOMAIN l, NEW j \in DOMAIN l, l[i].ptr = l[j].ptr
  PROVE  i = j
<1>1. i \in Nat /\ j \in Nat /\ l[i].ptr \in Nat /\ l[j].ptr \in Nat
  BY ItemFields
<1>2. (i < j => l[i].ptr < l[j].ptr) /\ (j < i => l[j].ptr < l[i].ptr)
  BY DEF Lists
<1> QED
  BY <1>1, <1>2

(* What find returns: the item at the pointer, or None.                    *)
LEMMA FindIs ==
  ASSUME NEW l \in Lists, NEW p \in Pointers
  PROVE  /\ \A n \in DOMAIN l : l[n].ptr = p => find(l, p) = l[n]
         /\ (\A n \in DOMAIN l : l[n].ptr # p) => find(l, p) = None
<1> DEFINE n == first_from(l, p)
<1>1. \/ n = 0 /\ \A i \in DOMAIN l : l[i].ptr < p
      \/ n \in DOMAIN l /\ l[n].ptr >= p /\ \A i \in DOMAIN l : i < n => l[i].ptr < p
  BY FirstFrom
<1>2. find(l, p) = IF n # 0 /\ l[n].ptr = p THEN l[n] ELSE None
  BY DEF find
<1>3. p \in Nat /\ 0 \notin DOMAIN l /\ \A i \in DOMAIN l : i \in Nat /\ l[i].ptr \in Nat
  BY PointersNat, ItemFields DEF Lists
<1>4. ASSUME NEW i \in DOMAIN l, l[i].ptr = p PROVE find(l, p) = l[i]
  <2>1. n \in DOMAIN l /\ n # 0 /\ ~(i < n)
    BY <1>1, <1>3, <1>4
  <2>2. n < i => l[n].ptr < l[i].ptr
    BY <2>1 DEF Lists
  <2>3. l[n].ptr >= p
    BY <1>1, <2>1, <1>3
  <2>4. n = i
    <3> HIDE DEF n
    <3> QED
      BY <1>3, <1>4, <2>1, <2>2, <2>3
  <2> QED
    BY <1>2, <1>4, <2>1, <2>4
<1>5. ASSUME \A i \in DOMAIN l : l[i].ptr # p PROVE find(l, p) = None
  BY <1>1, <1>2, <1>5
<1> QED
  BY <1>4, <1>5

LEMMA FindType ==
  ASSUME NEW l \in Lists, NEW p \in Pointers
  PROVE  /\ find(l, p) # None => find(l, p) \in Item /\ find(l, p).ptr = p
         /\ find(l, p).size \in Nat /\ find(l, p).cnt \in Int
<1>1. CASE \E n \in DOMAIN l : l[n].ptr = p
  BY <1>1, FindIs, ItemFields
<1>2. CASE \A n \in DOMAIN l : l[n].ptr # p
  BY <1>2, FindIs DEF None
<1> QED
  BY <1>1, <1>2

(* An item in the place of one with the same pointer.                      *)
LEMMA UpdateIs ==
  ASSUME NEW l \in Lists, NEW n \in DOMAIN l, NEW it \in Item, it.ptr = l[n].ptr
  PROVE  /\ [l EXCEPT ![n] = it] \in Lists
         /\ \A q \in Pointers :
              find([l EXCEPT ![n] = it], q) = IF q = it.ptr THEN it ELSE find(l, q)
<1> DEFINE m == [l EXCEPT ![n] = it]
<1>1. l \in Seq(Item)
  BY DEF Lists
<1>2. DOMAIN m = DOMAIN l /\ m[n] = it /\ \A i \in DOMAIN l : i # n => m[i] = l[i]
  BY <1>1
<1>3. \A i \in DOMAIN l : m[i].ptr = l[i].ptr
  BY <1>2
<1>4. m \in Seq(Item)
  BY <1>1
<1> HIDE DEF m
<1>5. m \in Lists
  BY <1>2, <1>3, <1>4 DEF Lists
<1>6. ASSUME NEW q \in Pointers PROVE find(m, q) = IF q = it.ptr THEN it ELSE find(l, q)
  <2>1. CASE q = it.ptr
    BY <1>2, <1>5, <2>1, FindIs
  <2>2. CASE q # it.ptr /\ \E i \in DOMAIN l : l[i].ptr = q
    <3>1. PICK i \in DOMAIN l : l[i].ptr = q
      BY <2>2
    <3>2. i # n /\ i \in DOMAIN m /\ m[i] = l[i]
      BY <1>2, <2>2, <3>1
    <3> QED
      BY <1>5, <2>2, <3>1, <3>2, FindIs
  <2>3. CASE q # it.ptr /\ \A i \in DOMAIN l : l[i].ptr # q
    BY <1>2, <1>3, <1>5, <2>3, FindIs
  <2> QED
    BY <2>1, <2>2, <2>3
<1> QED
  BY <1>5, <1>6 DEF m

(* An item between those with lower and those with higher pointers.        *)
LEMMA InsertIs ==
  ASSUME NEW l \in Lists, NEW n \in 1 .. Len(l) + 1, NEW it \in Item,
         \A i \in DOMAIN l : IF i < n THEN l[i].ptr < it.ptr ELSE l[i].ptr > it.ptr,
         NEW m, m \in Seq(Item), Len(m) = Len(l) + 1,
         \A i \in 1 .. Len(l) + 1 :
            m[i] = IF i < n THEN l[i] ELSE IF i = n THEN it ELSE l[i - 1]
  PROVE  /\ m \in Lists
         /\ \A q \in Pointers : find(m, q) = IF q = it.ptr THEN it ELSE find(l, q)
<1>1. /\ Len(l) \in Nat /\ DOMAIN l = 1 .. Len(l) /\ DOMAIN m = 1 .. Len(l) + 1 /\ n \in Nat
      /\ l \in Seq(Item)
  BY DEF Lists
<1>2. it.ptr \in Nat /\ it.ptr \in Pointers /\ \A i \in DOMAIN l : l[i].ptr \in Nat
  <2>1. it.ptr \in Pointers
    BY DEF Item
  <2> QED
    BY <2>1, PointersNat, ItemFields
<1>3. ASSUME NEW i \in DOMAIN m, NEW j \in DOMAIN m, i < j PROVE m[i].ptr < m[j].ptr
  <2>1. i \in Nat /\ j \in Nat /\ i \in 1 .. Len(l) + 1 /\ j \in 1 .. Len(l) + 1
    BY <1>1
  <2>2. \A a, b \in DOMAIN l : a < b => l[a].ptr < l[b].ptr
    BY DEF Lists
  <2>3. CASE j < n
    <3>1. i \in DOMAIN l /\ j \in DOMAIN l /\ i < n
      BY <1>1, <1>3, <2>1, <2>3
    <3> QED
      BY <1>3, <2>1, <2>2, <2>3, <3>1
  <2>4. CASE j = n
    <3>1. i \in DOMAIN l /\ i < n
      BY <1>1, <1>3, <2>1, <2>4
    <3> QED
      BY <1>1, <1>3, <2>1, <2>4, <3>1
  <2>5. CASE j > n /\ i < n
    <3>1. i \in DOMAIN l /\ j - 1 \in DOMAIN l /\ i < j - 1
      BY <1>1, <1>3, <2>1, <2>5
    <3>2. m[i] = l[i] /\ m[j] = l[j - 1]
      BY <1>1, <2>1, <2>5
    <3> QED
      BY <2>2, <3>1, <3>2
  <2>6. CASE j > n /\ i = n
    <3>1. j - 1 \in DOMAIN l /\ ~(j - 1 < n)
      BY <1>1, <2>1, <2>6
    <3>2. m[i] = it /\ m[j] = l[j - 1]
      BY <1>1, <2>1, <2>6
    <3>3. it.ptr < l[j - 1].ptr
      BY <1>2, <3>1
    <3> QED
      BY <3>2, <3>3
  <2>7. CASE j > n /\ i > n
    <3>1. i - 1 \in DOMAIN l /\ j - 1 \in DOMAIN l /\ i - 1 < j - 1
      BY <1>1, <1>3, <2>1, <2>7
    <3>2. m[i] = l[i - 1] /\ m[j] = l[j - 1]
      BY <1>1, <2>1, <2>7
    <3> QED
      BY <2>2, <3>1, <3>2
  <2> QED
    BY <1>1, <2>1, <2>3, <2>4, <2>5, <2>6, <2>7
<1>4. m \in Lists
  BY <1>3 DEF Lists
<1>5. ASSUME NEW q \in Pointers PROVE find(m, q) = IF q = it.ptr THEN it ELSE find(l, q)
  <2>1. CASE q = it.ptr
    <3>1. n \in DOMAIN m /\ m[n] = it
      BY <1>1
    <3> QED
      BY <1>4, <2>1, <3>1, FindIs
  <2>2. CASE q # it.ptr /\ \E i \in DOMAIN l : l[i].ptr = q
    <3>1. PICK i \in DOMAIN l : l[i].ptr = q
      BY <2>2
    <3>2. \E j \in DOMAIN m : m[j] = l[i]
      <4>1. CASE i < n
        <5>1. i \in DOMAIN m /\ m[i] = l[i]
          BY <1>1, <4>1
        <5> QED
          BY <5>1
      <4>2. CASE ~(i < n)
        <5>1. i + 1 \in DOMAIN m /\ i + 1 > n /\ (i + 1) - 1 = i
          BY <1>1, <4>2
        <5>2. m[i + 1] = l[i]
          BY <1>1, <5>1
        <5> QED
          BY <5>1, <5>2
      <4> QED
        BY <4>1, <4>2
    <3>3. find(m, q) = l[i] /\ find(l, q) = l[i]
      BY <1>4, <3>1, <3>2, FindIs
    <3> QED
      BY <2>2, <3>3
  <2>3. CASE q # it.ptr /\ \A i \in DOMAIN l : l[i].ptr # q
    <3>1. ASSUME NEW j \in DOMAIN m PROVE m[j].ptr # q
      <4>1. j \in 1 .. Len(l) + 1 /\ j \in Nat
        BY <1>1
      <4>2. \/ j < n /\ j \in DOMAIN l
            \/ j = n
            \/ j > n /\ j - 1 \in DOMAIN l
        BY <1>1, <4>1
      <4> QED
        BY <1>1, <2>3, <4>1, <4>2
    <3>2. find(m, q) = None /\ find(l, q) = None
      BY <1>4, <2>3, <3>1, FindIs
    <3> QED
      BY <2>3, <3>2
  <2> QED
    BY <2>1, <2>2, <2>3
<1> QED
  BY <1>4, <1>5

(* dealloc lowers the count of the item at the pointer, if there is one.   *)
LEMMA DeallocIs ==
  ASSUME NEW l \in Lists, NEW p \in Pointers
  PROVE  /\ dealloc(l, p) \in Lists
         /\ \A q \in Pointers :
              find(dealloc(l, p), q) =
                IF q = p /\ find(l, p) # None
                THEN [ptr |-> p, size |-> find(l, p).size, cnt |-> find(l, p).cnt - 1]
                ELSE find(l, q)
<1> DEFINE n == first_at(l, p)
<1>1. \/ n = 0 /\ \A i \in DOMAIN l : l[i].ptr # p
      \/ n \in DOMAIN l /\ l[n].ptr = p
  BY FirstAt
<1>2. dealloc(l, p) = IF n = 0 THEN l ELSE [l EXCEPT ![n].cnt = @ - 1]
  BY DEF dealloc
<1>3. CASE n = 0
  <2>1. dealloc(l, p) = l /\ \A i \in DOMAIN l : l[i].ptr # p
    BY <1>1, <1>2, <1>3, ItemFields
  <2>2. find(l, p) = None
    BY <2>1, FindIs
  <2> QED
    BY <2>1, <2>2
<1>4. CASE n \in DOMAIN l /\ l[n].ptr = p
  <2>1. l[n] \in Item /\ n # 0
    BY <1>4, ItemFields
  <2> DEFINE it == [ptr |-> p, size |-> l[n].size, cnt |-> l[n].cnt - 1]
  <2>2. it \in Item /\ [l[n] EXCEPT !.cnt = @ - 1] = it /\ it.ptr = p
    BY <1>4, <2>1 DEF Item
  <2>3. dealloc(l, p) = [l EXCEPT ![n] = it]
    BY <1>2, <2>1, <2>2
  <2>4. find(l, p) = l[n]
    BY <1>4, FindIs
  <2>5. l[n] # None
    BY <1>4, PointersNat DEF None
  <2>6. it = [ptr |-> p, size |-> find(l, p).size, cnt |-> find(l, p).cnt - 1]
    BY <2>4
  <2> HIDE DEF n, it
  <2>7. [l EXCEPT ![n] = it] \in Lists
        /\ \A q \in Pointers : find([l EXCEPT ![n] = it], q) = IF q = it.ptr THEN it ELSE find(l, q)
    <3>1. n \in DOMAIN l /\ it \in Item /\ it.ptr = l[n].ptr
      BY <1>4, <2>2
    <3> QED
      BY <3>1, UpdateIs
  <2> QED
    BY <2>2, <2>3, <2>4, <2>5, <2>6, <2>7
<1> QED
  BY <1>1, <1>3, <1>4

(* alloc raises the count of the item at the pointer and sets its size, or *)
(* inserts one.                                                            *)
LEMMA AllocIs ==
  ASSUME NEW l \in Lists, NEW p \in Pointers, NEW size \in Nat
  PROVE  /\ alloc(l, p, size) \in Lists
         /\ \A q \in Pointers :
              find(alloc(l, p, size), q) =
                IF q = p
                THEN [ptr |-> p, size |-> size, cnt |-> find(l, p).cnt + 1]
                ELSE find(l, q)
<1> DEFINE n == first_from(l, p)
           it == [ptr |-> p, size |-> size, cnt |-> 1]
           up == [ptr |-> p, size |-> size, cnt |-> find(l, p).cnt + 1]
           m == alloc(l, p, size)
<1>1. \/ n = 0 /\ \A i \in DOMAIN l : l[i].ptr < p
      \/ n \in DOMAIN l /\ l[n].ptr >= p /\ \A i \in DOMAIN l : i < n => l[i].ptr < p
  BY FirstFrom
<1>2. m = IF n = 0 THEN Append(l, it)
          ELSE IF l[n].ptr = p THEN [l EXCEPT ![n].size = size, ![n].cnt = @ + 1]
          ELSE InsertAt(l, n, it)
  BY DEF alloc
<1>3. it \in Item /\ up \in Item /\ it.ptr = p /\ up.ptr = p
  BY FindType DEF Item
<1>4. /\ l \in Seq(Item) /\ Len(l) \in Nat /\ DOMAIN l = 1 .. Len(l) /\ p \in Nat
      /\ \A i \in DOMAIN l : l[i].ptr \in Nat
  BY PointersNat, ItemFields DEF Lists
<1>5. ASSUME \A i \in DOMAIN l : l[i].ptr # p PROVE up = it
  BY <1>5, FindIs DEF None
<1>6. CASE n = 0
  <2>1. m = Append(l, it) /\ \A i \in DOMAIN l : l[i].ptr < p /\ l[i].ptr # p
    BY <1>1, <1>2, <1>4, <1>6
  <2>2. up = it
    BY <1>5, <2>1
  <2> HIDE DEF n, it, up, m
  <2>3. m \in Seq(Item) /\ Len(m) = Len(l) + 1 /\ Len(l) + 1 \in 1 .. Len(l) + 1
    BY <1>3, <1>4, <2>1
  <2>4. \A i \in 1 .. Len(l) + 1 :
           m[i] = IF i < Len(l) + 1 THEN l[i] ELSE IF i = Len(l) + 1 THEN it ELSE l[i - 1]
    BY <1>3, <1>4, <2>1
  <2>5. \A i \in DOMAIN l : IF i < Len(l) + 1 THEN l[i].ptr < it.ptr ELSE l[i].ptr > it.ptr
    BY <1>3, <1>4, <2>1
  <2>6. m \in Lists /\ \A q \in Pointers : find(m, q) = IF q = it.ptr THEN it ELSE find(l, q)
    BY <1>3, <2>3, <2>4, <2>5, InsertIs
  <2> QED
    BY <1>3, <2>2, <2>6 DEF m, up
<1>7. CASE n \in DOMAIN l /\ l[n].ptr = p
  <2>1. l[n] \in Item /\ n # 0
    BY <1>7, ItemFields
  <2>2. find(l, p) = l[n]
    BY <1>7, FindIs
  <2>3. [ptr |-> l[n].ptr, size |-> size, cnt |-> l[n].cnt + 1] = up
    BY <1>7, <2>2
  <2>4. m = [l EXCEPT ![n].size = size, ![n].cnt = @ + 1]
    BY <1>2, <1>7, <2>1
  <2>5. m = [l EXCEPT ![n] = up]
    <3> DEFINE k == [l EXCEPT ![n].size = size]
    <3> HIDE DEF m, n, up
    <3>1. k[n] = [ptr |-> l[n].ptr, size |-> size, cnt |-> l[n].cnt] /\ DOMAIN k = DOMAIN l
          /\ \A i \in DOMAIN l : i # n => k[i] = l[i]
      BY <1>4, <1>7, <2>1 DEF Item
    <3>2. m = [k EXCEPT ![n].cnt = @ + 1]
      BY <2>4
    <3>3. [k[n] EXCEPT !.cnt = @ + 1] = up
      <4> HIDE DEF k
      <4> QED
        BY <2>3, <3>1
    <3>4. m = [k EXCEPT ![n] = up]
      BY <3>2, <3>3
    <3> QED
      BY <3>4
  <2> HIDE DEF n, it, up, m
  <2>6. m \in Lists /\ \A q \in Pointers : find(m, q) = IF q = up.ptr THEN up ELSE find(l, q)
    <3>1. n \in DOMAIN l /\ up \in Item /\ up.ptr = l[n].ptr
      BY <1>3, <1>7
    <3> QED
      BY <2>5, <3>1, UpdateIs
  <2> QED
    BY <1>3, <2>6 DEF m, up
<1>8. CASE n \in DOMAIN l /\ l[n].ptr # p
  <2>1. n # 0 /\ n \in 1 .. Len(l) /\ n \in Nat /\ l[n].ptr > p
    BY <1>1, <1>4, <1>8
  <2>2. m = SubSeq(l, 1, n - 1) \o <<it>> \o SubSeq(l, n, Len(l))
    BY <1>2, <1>8, <2>1 DEF InsertAt
  <2>3. ASSUME NEW i \in DOMAIN l
        PROVE  IF i < n THEN l[i].ptr < it.ptr ELSE l[i].ptr > it.ptr
    <3>1. n < i => l[n].ptr < l[i].ptr
      BY <1>8 DEF Lists
    <3> QED
      BY <1>1, <1>3, <1>4, <1>8, <2>1, <3>1
  <2>4. ASSUME NEW i \in DOMAIN l PROVE l[i].ptr # p
    BY <1>3, <1>4, <2>3
  <2>5. up = it
    BY <1>5, <2>4
  <2> HIDE DEF n, it, up, m
  <2> DEFINE a == SubSeq(l, 1, n - 1)
             b == SubSeq(l, n, Len(l))
  <2>6. a \in Seq(Item) /\ Len(a) = n - 1 /\ \A i \in 1 .. n - 1 : a[i] = l[i]
    BY <1>4, <2>1
  <2>7. b \in Seq(Item) /\ Len(b) = Len(l) - n + 1 /\ \A i \in 1 .. Len(l) - n + 1 : b[i] = l[n + i - 1]
    BY <1>4, <2>1
  <2>8. m = a \o <<it>> \o b
    BY <2>2
  <2> HIDE DEF a, b
  <2>9. m \in Seq(Item) /\ Len(m) = Len(l) + 1
    <3>1. <<it>> \in Seq(Item) /\ Len(<<it>>) = 1
      BY <1>3
    <3>2. a \o <<it>> \in Seq(Item) /\ Len(a \o <<it>>) = n
      BY <1>4, <2>1, <2>6, <3>1
    <3> DEFINE c == a \o <<it>>
    <3>3. c \in Seq(Item) /\ b \in Seq(Item) /\ m = c \o b
      BY <2>7, <2>8, <3>2
    <3>4. m \in Seq(Item) /\ Len(m) = Len(c) + Len(b)
      <4> HIDE DEF c
      <4> QED
        BY <3>3
    <3>5. Len(c) = n /\ Len(b) = Len(l) - n + 1
      BY <2>7, <3>2
    <3>6. Len(m) = n + (Len(l) - n + 1)
      BY <3>4, <3>5
    <3> HIDE DEF c
    <3>7. n \in Nat /\ Len(l) \in Nat
      BY <1>4, <2>1
    <3>8. n + (Len(l) - n + 1) = Len(l) + 1
      BY <3>7
    <3> QED
      BY <3>4, <3>6, <3>8
  <2>10. ASSUME NEW i \in 1 .. Len(l) + 1
         PROVE  m[i] = IF i < n THEN l[i] ELSE IF i = n THEN it ELSE l[i - 1]
    <3>1. CASE i < n
      BY <1>3, <1>4, <2>1, <2>6, <2>7, <2>8, <3>1
    <3>2. CASE i = n
      BY <1>3, <1>4, <2>1, <2>6, <2>7, <2>8, <3>2
    <3>3. CASE i > n
      <4>1. i - n \in 1 .. Len(l) - n + 1 /\ n + (i - n) - 1 = i - 1
        BY <1>4, <2>1, <3>3
      <4>2. b[i - n] = l[i - 1]
        BY <2>7, <4>1
      <4>3. m[i] = b[i - n]
        BY <1>3, <1>4, <2>1, <2>6, <2>7, <2>8, <3>3
      <4> QED
        BY <2>1, <3>3, <4>2, <4>3
    <3> QED
      BY <1>4, <2>1, <3>1, <3>2, <3>3
  <2>11. m \in Lists /\ \A q \in Pointers : find(m, q) = IF q = it.ptr THEN it ELSE find(l, q)
    <3>1. n \in 1 .. Len(l) + 1
      BY <1>4, <2>1
    <3>2. it \in Item
      BY <1>3
    <3>3. m \in Seq(Item) /\ Len(m) = Len(l) + 1
      BY <2>9
    <3>4. \A i \in DOMAIN l : IF i < n THEN l[i].ptr < it.ptr ELSE l[i].ptr > it.ptr
      BY <2>3
    <3>5. \A i \in 1 .. Len(l) + 1 : m[i] = IF i < n THEN l[i] ELSE IF i = n THEN it ELSE l[i - 1]
      BY <2>10
    <3> HIDE DEF find
    <3> QED
      BY <3>1, <3>2, <3>3, <3>4, <3>5, InsertIs
  <2> QED
    BY <1>3, <2>5, <2>11 DEF m, up
<1> HIDE DEF n, m
<1> QED
  BY <1>1, <1>6, <1>7, <1>8 DEF m

-----------------------------------------------------------------------------
(* Sums over a finite set, in the order in which CHOOSE takes its members. *)

Take(s) == CHOOSE x \in s : TRUE
Sums(g, f, s) == g[s] = IF s = {} THEN 0 ELSE f[Take(s)] + g[s \ {Take(s)}]

(* A set without one of its members.                                       *)
LEMMA Less ==
  ASSUME NEW D, IsFiniteSet(D), NEW s \in SUBSET D, NEW a \in s
  PROVE  /\ IsFiniteSet(s) /\ Cardinality(s) \in Nat /\ Cardinality(s) <= Cardinality(D)
         /\ s \ {a} \in SUBSET D /\ Cardinality(s \ {a}) = Cardinality(s) - 1
         /\ Cardinality(s) > 0
<1>1. IsFiniteSet(s) /\ Cardinality(s) \in Nat /\ Cardinality(s) <= Cardinality(D)
  BY FS_Subset, FS_CardinalityType
<1>2. IsFiniteSet(s \ {a}) /\ Cardinality(s \ {a}) = Cardinality(s) - 1
  BY <1>1, FS_RemoveElement
<1>3. Cardinality(s \ {a}) \in Nat
  BY <1>2, FS_CardinalityType
<1> QED
  BY <1>1, <1>2, <1>3

LEMMA NotEmpty ==
  ASSUME NEW D, IsFiniteSet(D), NEW s \in SUBSET D
  PROVE  /\ Cardinality(s) \in Nat /\ Cardinality(s) <= Cardinality(D)
         /\ Cardinality(D) \in Nat
         /\ s = {} <=> Cardinality(s) = 0
         /\ s # {} => Take(s) \in s
<1>1. IsFiniteSet(s) /\ Cardinality(s) <= Cardinality(D)
  BY FS_Subset
<1>2. Cardinality(s) \in Nat /\ Cardinality(D) \in Nat
  BY <1>1, FS_CardinalityType
<1>3. s = {} <=> Cardinality(s) = 0
  BY <1>1, FS_EmptySet
<1>4. s # {} => Take(s) \in s
  BY DEF Take
<1> QED
  BY <1>1, <1>2, <1>3, <1>4

LEMMA SumsExist ==
  ASSUME NEW D, IsFiniteSet(D), NEW f \in [D -> Nat]
  PROVE  \E g \in [SUBSET D -> Nat] : \A s \in SUBSET D : Sums(g, f, s)
<1> DEFINE Ok(g, n) == \A s \in SUBSET D : Cardinality(s) <= n => Sums(g, f, s)
           S == {n \in 0 .. Cardinality(D) : \E g \in [SUBSET D -> Nat] : Ok(g, n)}
<1>1. Cardinality(D) \in Nat
  BY FS_CardinalityType
<1>2. 0 \in S
  <2> DEFINE g == [s \in SUBSET D |-> 0]
  <2>1. g \in [SUBSET D -> Nat]
    OBVIOUS
  <2>2. Ok(g, 0)
    <3>1. ASSUME NEW s \in SUBSET D, Cardinality(s) <= 0 PROVE Sums(g, f, s)
      <4>1. s = {}
        BY <3>1, NotEmpty
      <4> QED
        BY <4>1 DEF Sums
    <3> QED
      BY <3>1
  <2> HIDE DEF g, Ok
  <2> QED
    BY <1>1, <2>1, <2>2
<1>3. ASSUME NEW n \in 0 .. Cardinality(D) - 1, n \in S PROVE n + 1 \in S
  <2>1. PICK g \in [SUBSET D -> Nat] : Ok(g, n)
    BY <1>3
  <2> DEFINE h == [s \in SUBSET D |-> IF Cardinality(s) <= n THEN g[s]
                                     ELSE f[Take(s)] + g[s \ {Take(s)}]]
  <2>2. h \in [SUBSET D -> Nat]
    <3>1. ASSUME NEW s \in SUBSET D, ~(Cardinality(s) <= n)
          PROVE  f[Take(s)] + g[s \ {Take(s)}] \in Nat
      <4>1. Take(s) \in s
        BY <1>1, <3>1, NotEmpty
      <4>2. f[Take(s)] \in Nat /\ g[s \ {Take(s)}] \in Nat
        BY <4>1
      <4> QED
        BY <4>2
    <3> QED
      BY <3>1
  <2>3. Ok(h, n + 1)
    <3>1. ASSUME NEW s \in SUBSET D, Cardinality(s) <= n + 1 PROVE Sums(h, f, s)
      <4> DEFINE x == Take(s)
      <4>1. CASE s = {}
        <5>1. Cardinality(s) <= n /\ g[s] = 0
          <6>1. Cardinality(s) <= n
            BY <1>1, <4>1, NotEmpty
          <6>2. Sums(g, f, s)
            BY <2>1, <6>1
          <6> QED
            BY <4>1, <6>1, <6>2 DEF Sums
        <5> QED
          BY <4>1, <5>1 DEF Sums
      <4>2. CASE s # {}
        <5>1. x \in s
          BY <4>2, NotEmpty
        <5>2. s \ {x} \in SUBSET D /\ Cardinality(s \ {x}) = Cardinality(s) - 1 /\ Cardinality(s) \in Nat
          BY <5>1, Less
        <5>3. h[s \ {x}] = g[s \ {x}]
          BY <1>1, <3>1, <5>2
        <5>4. h[s] = f[x] + g[s \ {x}]
          <6>1. CASE Cardinality(s) <= n
            <7>1. Sums(g, f, s) /\ h[s] = g[s]
              BY <2>1, <6>1
            <7> QED
              BY <4>2, <7>1 DEF Sums
          <6>2. CASE ~(Cardinality(s) <= n)
            BY <6>2
          <6> QED
            BY <6>1, <6>2
        <5> HIDE DEF h
        <5> QED
          BY <4>2, <5>3, <5>4 DEF Sums
      <4> QED
        BY <4>1, <4>2
    <3> QED
      BY <3>1
  <2>4. n + 1 \in 0 .. Cardinality(D)
    BY <1>1
  <2> HIDE DEF h, Ok
  <2> QED
    BY <2>2, <2>3, <2>4
<1>4. 0 .. Cardinality(D) \subseteq S
  <2> HIDE DEF S
  <2> QED
    BY <1>1, <1>2, <1>3, UpTo
<1>5. PICK g \in [SUBSET D -> Nat] : Ok(g, Cardinality(D))
  <2>1. Cardinality(D) \in S
    <3> HIDE DEF S
    <3> QED
      BY <1>1, <1>4
  <2> QED
    BY <2>1
<1>6. \A s \in SUBSET D : Sums(g, f, s)
  BY <1>5, NotEmpty
<1> QED
  BY <1>6

(* Two sums agree on the sets on which what they add agrees.               *)
LEMMA SumsAgree ==
  ASSUME NEW D, IsFiniteSet(D), NEW f, NEW g, \A s \in SUBSET D : Sums(g, f, s),
         NEW e, NEW h, \A s \in SUBSET D : Sums(h, e, s),
         \A x \in D : e[x] = f[x]
  PROVE  g[D] = h[D]
<1> DEFINE S == {n \in 0 .. Cardinality(D) :
                   \A s \in SUBSET D : Cardinality(s) <= n => g[s] = h[s]}
<1>1. Cardinality(D) \in Nat
  BY FS_CardinalityType
<1>2. 0 \in S
  <2>1. ASSUME NEW s \in SUBSET D, Cardinality(s) <= 0 PROVE g[s] = h[s]
    <3>1. s = {}
      BY <2>1, NotEmpty
    <3> QED
      BY <3>1 DEF Sums
  <2> QED
    BY <1>1, <2>1
<1>3. ASSUME NEW n \in 0 .. Cardinality(D) - 1, n \in S PROVE n + 1 \in S
  <2>1. ASSUME NEW s \in SUBSET D, Cardinality(s) <= n + 1 PROVE g[s] = h[s]
    <3>1. CASE s = {}
      BY <3>1 DEF Sums
    <3>2. CASE s # {}
      <4>1. Take(s) \in s
        BY <3>2, NotEmpty
      <4>2. s \ {Take(s)} \in SUBSET D /\ Cardinality(s \ {Take(s)}) <= n
        BY <1>1, <2>1, <4>1, Less
      <4>3. g[s \ {Take(s)}] = h[s \ {Take(s)}]
        BY <1>3, <4>2
      <4>4. f[Take(s)] = e[Take(s)]
        BY <4>1
      <4> QED
        BY <3>2, <4>3, <4>4 DEF Sums
    <3> QED
      BY <3>1, <3>2
  <2> QED
    BY <1>1, <2>1
<1>4. 0 .. Cardinality(D) \subseteq S
  <2> HIDE DEF S
  <2> QED
    BY <1>1, <1>2, <1>3, UpTo
<1> QED
  BY <1>1, <1>4

(* Any member may be taken first.                                          *)
LEMMA SumsTake ==
  ASSUME NEW D, IsFiniteSet(D), NEW f \in [D -> Nat], NEW g \in [SUBSET D -> Nat],
         \A s \in SUBSET D : Sums(g, f, s), NEW d \in D
  PROVE  g[D] = f[d] + g[D \ {d}]
<1> DEFINE S == {n \in 0 .. Cardinality(D) :
                   \A s \in SUBSET D : Cardinality(s) <= n =>
                     \A a \in s : g[s] = f[a] + g[s \ {a}]}
<1>1. Cardinality(D) \in Nat
  BY FS_CardinalityType
<1>2. 0 \in S
  <2>1. ASSUME NEW s \in SUBSET D, Cardinality(s) <= 0 PROVE s = {}
    BY <2>1, NotEmpty
  <2> QED
    BY <1>1, <2>1
<1>3. ASSUME NEW n \in 0 .. Cardinality(D) - 1, n \in S PROVE n + 1 \in S
  <2>1. ASSUME NEW s \in SUBSET D, Cardinality(s) <= n + 1, NEW a \in s
        PROVE  g[s] = f[a] + g[s \ {a}]
    <3> DEFINE x == Take(s)
    <3>1. x \in s /\ x \in D /\ a \in D
      BY NotEmpty
    <3>2. g[s] = f[x] + g[s \ {x}]
      BY <3>1 DEF Sums
    <3>3. CASE a = x
      BY <3>2, <3>3
    <3>4. CASE a # x
      <4>1. /\ s \ {x} \in SUBSET D /\ Cardinality(s \ {x}) <= n /\ a \in s \ {x}
            /\ s \ {a} \in SUBSET D /\ Cardinality(s \ {a}) <= n /\ x \in s \ {a}
        BY <1>1, <2>1, <3>1, <3>4, Less
      <4>2. g[s \ {x}] = f[a] + g[(s \ {x}) \ {a}] /\ g[s \ {a}] = f[x] + g[(s \ {a}) \ {x}]
        BY <1>3, <4>1
      <4>3. (s \ {x}) \ {a} = (s \ {a}) \ {x} /\ (s \ {a}) \ {x} \in SUBSET D
        OBVIOUS
      <4>4. f[a] \in Nat /\ f[x] \in Nat /\ g[(s \ {a}) \ {x}] \in Nat
        BY <3>1, <4>3
      <4> DEFINE rest == g[(s \ {a}) \ {x}]
      <4>5. g[s] = f[x] + (f[a] + rest) /\ f[a] + g[s \ {a}] = f[a] + (f[x] + rest)
        BY <3>2, <4>2, <4>3
      <4>6. f[a] \in Nat /\ f[x] \in Nat /\ rest \in Nat
        BY <4>4
      <4> HIDE DEF x, rest
      <4> QED
        BY <4>5, <4>6
    <3> QED
      BY <3>3, <3>4
  <2> QED
    BY <1>1, <2>1
<1>4. 0 .. Cardinality(D) \subseteq S
  <2> HIDE DEF S
  <2> QED
    BY <1>1, <1>2, <1>3, UpTo
<1> QED
  BY <1>1, <1>4

LEMMA BytesAre ==
  ASSUME NEW D, IsFiniteSet(D), NEW f \in [D -> Nat],
         NEW g \in [SUBSET D -> Nat], \A s \in SUBSET D : Sums(g, f, s)
  PROVE  Bytes(f) = g[D]
<1> DEFINE Is(h) == h = [s \in SUBSET D |-> IF s = {} THEN 0
                                           ELSE LET x == CHOOSE x \in s : TRUE IN f[x] + h[s \ {x}]]
           iter == CHOOSE h : Is(h)
<1>1. Bytes(f) = iter[D]
  BY DEF Bytes, FoldSet, MapThenFoldSet
<1>2. Is(g)
  <2>1. \A s \in SUBSET D : g[s] = IF s = {} THEN 0
                                   ELSE LET x == CHOOSE x \in s : TRUE IN f[x] + g[s \ {x}]
    BY DEF Sums, Take
  <2> QED
    BY <2>1
<1>3. Is(iter)
  <2> HIDE DEF Is
  <2> QED
    BY <1>2
<1>4. \A s \in SUBSET D : Sums(iter, f, s)
  <2>1. \A s \in SUBSET D : iter[s] = IF s = {} THEN 0
                                   ELSE LET x == CHOOSE x \in s : TRUE IN f[x] + iter[s \ {x}]
    <3> HIDE DEF iter
    <3> QED
      BY <1>3
  <2> HIDE DEF iter
  <2> QED
    BY <2>1 DEF Sums, Take
<1> HIDE DEF iter
<1> QED
  BY <1>1, <1>4, SumsAgree

-----------------------------------------------------------------------------
(* The library's blocks.                                                   *)

LEMMA BlocksAre ==
  ASSUME NEW f
  PROVE  f \in Blocks <=> /\ f \in [DOMAIN f -> Nat]
                          /\ DOMAIN f \subseteq Addr /\ IsFiniteSet(DOMAIN f)
BY DEF Blocks

LEMMA BytesNat ==
  ASSUME NEW f \in Blocks
  PROVE  \E g \in [SUBSET DOMAIN f -> Nat] :
            (\A s \in SUBSET DOMAIN f : Sums(g, f, s)) /\ Bytes(f) = g[DOMAIN f]
<1>1. f \in [DOMAIN f -> Nat] /\ IsFiniteSet(DOMAIN f)
  BY BlocksAre
<1> QED
  BY <1>1, SumsExist, BytesAre

LEMMA WithoutIs ==
  ASSUME NEW f \in Blocks, NEW p \in DOMAIN f
  PROVE  /\ without(f, p) \in Blocks /\ DOMAIN without(f, p) = DOMAIN f \ {p}
         /\ \A x \in DOMAIN f \ {p} : without(f, p)[x] = f[x]
         /\ f[p] \in Nat /\ Bytes(without(f, p)) \in Nat /\ Bytes(f) \in Nat
         /\ Bytes(f) = Bytes(without(f, p)) + f[p]
<1> DEFINE D == DOMAIN f
           e == without(f, p)
<1>1. f \in [D -> Nat] /\ IsFiniteSet(D) /\ D \subseteq Addr
  BY BlocksAre
<1>2. e \in [D \ {p} -> Nat] /\ DOMAIN e = D \ {p} /\ \A x \in D \ {p} : e[x] = f[x]
  BY <1>1 DEF without
<1>3. e \in Blocks
  BY <1>1, <1>2, FS_RemoveElement, BlocksAre
<1>4. PICK g \in [SUBSET D -> Nat] : (\A s \in SUBSET D : Sums(g, f, s)) /\ Bytes(f) = g[D]
  BY BytesNat
<1>5. PICK h \in [SUBSET (D \ {p}) -> Nat] :
         (\A s \in SUBSET (D \ {p}) : Sums(h, e, s)) /\ Bytes(e) = h[D \ {p}]
  BY <1>2, <1>3, BytesNat
<1> HIDE DEF e, D
<1>6. g[D] = f[p] + g[D \ {p}]
  BY <1>1, <1>4, SumsTake DEF D
<1>7. g[D \ {p}] = h[D \ {p}]
  <2>1. IsFiniteSet(D \ {p}) /\ \A s \in SUBSET (D \ {p}) : Sums(g, f, s)
    BY <1>1, <1>4, FS_RemoveElement
  <2> QED
    BY <1>2, <1>5, <2>1, SumsAgree
<1>8. f[p] \in Nat /\ g[D \ {p}] \in Nat /\ g[D] \in Nat
  BY <1>1, <1>4 DEF D
<1>9. Bytes(f) = Bytes(e) + f[p]
  BY <1>4, <1>5, <1>6, <1>7, <1>8
<1> QED
  BY <1>2, <1>3, <1>4, <1>5, <1>7, <1>8, <1>9 DEF D, e

Adds(e, f, a, size) ==
  /\ e \in Blocks /\ DOMAIN e = DOMAIN f \cup {a} /\ e[a] = size
  /\ \A x \in DOMAIN f : e[x] = f[x]
  /\ Bytes(f) \in Nat /\ Bytes(e) = Bytes(f) + size

LEMMA WithIs ==
  ASSUME NEW f \in Blocks, NEW a \in Addr, a \notin DOMAIN f, NEW size \in Nat
  PROVE  Adds(with(f, a, size), f, a, size)
<1> DEFINE e == with(f, a, size)
<1>1. f \in [DOMAIN f -> Nat] /\ IsFiniteSet(DOMAIN f) /\ DOMAIN f \subseteq Addr
  BY BlocksAre
<1>2. /\ e \in [DOMAIN f \cup {a} -> Nat] /\ DOMAIN e = DOMAIN f \cup {a}
      /\ e[a] = size /\ \A x \in DOMAIN f : e[x] = f[x]
  BY <1>1 DEF with
<1>3. e \in Blocks
  BY <1>1, <1>2, FS_AddElement, BlocksAre
<1>4. without(e, a) = f
  <2>1. DOMAIN e \ {a} = DOMAIN f
    BY <1>2
  <2> HIDE DEF e
  <2> QED
    BY <1>1, <1>2, <2>1 DEF without
<1>5. a \in DOMAIN e
  BY <1>2
<1> HIDE DEF e
<1>6. Bytes(e) = Bytes(without(e, a)) + e[a] /\ Bytes(without(e, a)) \in Nat
  BY <1>3, <1>5, WithoutIs
<1> QED
  BY <1>2, <1>3, <1>4, <1>6 DEF e, Adds

(* A block that grows where it is.                                         *)
LEMMA ResizeIs ==
  ASSUME NEW f \in Blocks, NEW p \in DOMAIN f, NEW size \in Nat
  PROVE  /\ [f EXCEPT ![p] = size] \in Blocks
         /\ DOMAIN [f EXCEPT ![p] = size] = DOMAIN f
         /\ [f EXCEPT ![p] = size][p] = size
         /\ \A x \in DOMAIN f \ {p} : [f EXCEPT ![p] = size][x] = f[x]
         /\ f[p] \in Nat /\ Bytes(f) \in Nat
         /\ Bytes([f EXCEPT ![p] = size]) = Bytes(f) - f[p] + size
<1> DEFINE d == without(f, p)
           e == [f EXCEPT ![p] = size]
<1>1. f \in [DOMAIN f -> Nat] /\ DOMAIN f \subseteq Addr
  BY BlocksAre
<1>2. /\ d \in Blocks /\ DOMAIN d = DOMAIN f \ {p} /\ f[p] \in Nat /\ Bytes(d) \in Nat
      /\ Bytes(f) = Bytes(d) + f[p]
      /\ \A x \in DOMAIN f \ {p} : d[x] = f[x]
  BY WithoutIs
<1>3. DOMAIN e = DOMAIN f /\ e[p] = size /\ \A x \in DOMAIN f \ {p} : e[x] = f[x]
  BY <1>1
<1>4. e = with(d, p, size)
  <2>1. e = [x \in DOMAIN f |-> IF x = p THEN size ELSE f[x]]
    BY <1>1
  <2>2. DOMAIN f = DOMAIN d \cup {p}
    BY <1>2
  <2> HIDE DEF d, e
  <2> QED
    BY <1>2, <2>1, <2>2 DEF with
<1> HIDE DEF d, e
<1>5. e \in Blocks /\ Bytes(e) = Bytes(d) + size
  <2>1. p \in Addr /\ p \notin DOMAIN d
    BY <1>1, <1>2
  <2>2. d \in Blocks
    BY <1>2
  <2>3. Adds(with(d, p, size), d, p, size)
    BY <2>1, <2>2, WithIs
  <2> QED
    BY <1>4, <2>3 DEF Adds
<1>6. Bytes(e) = Bytes(f) - f[p] + size /\ Bytes(f) \in Nat
  BY <1>2, <1>5
<1> QED
  BY <1>2, <1>3, <1>5, <1>6 DEF e

LEMMA NoBytes == <<>> \in Blocks /\ DOMAIN <<>> = {} /\ Bytes(<<>>) = 0
<1>1. DOMAIN <<>> = {} /\ <<>> \in [{} -> Nat]
  OBVIOUS
<1>2. <<>> \in Blocks
  BY <1>1, FS_EmptySet, BlocksAre
<1>3. PICK g \in [SUBSET DOMAIN <<>> -> Nat] :
         (\A s \in SUBSET DOMAIN <<>> : Sums(g, <<>>, s)) /\ Bytes(<<>>) = g[DOMAIN <<>>]
  BY <1>2, BytesNat
<1>4. Sums(g, <<>>, {})
  BY <1>3
<1> QED
  BY <1>1, <1>2, <1>3, <1>4 DEF Sums

-----------------------------------------------------------------------------
(* What the library's calls return.                                        *)

LEMMA MallocpIs ==
  ASSUME live \in Blocks, NEW size, NEW m \in mallocp(size)
  PROVE  \/ m.res = NULL /\ m.live = live
         \/ m.res \in Addr \ DOMAIN live /\ m.live = with(live, m.res, size)
BY DEF mallocp

LEMMA ReallocpIs ==
  ASSUME live \in Blocks, NEW p \in DOMAIN live, NEW size \in Nat, size # 0,
         NEW m \in reallocp(p, size)
  PROVE  \/ m.res = p /\ m.live = [live EXCEPT ![p] = size]
         \/ m.res = NULL /\ m.live = live
         \/ m.res \in Addr \ DOMAIN live /\ m.live = with(without(live, p), m.res, size)
<1>1. p # NULL
  BY MemTraceAssumption, BlocksAre DEF NULL
<1> QED
  BY <1>1 DEF reallocp

LEMMA AddrNotNull ==
  ASSUME Types
  PROVE  /\ NULL \notin Addr /\ NULL \notin DOMAIN live /\ DOMAIN live \subseteq Addr
         /\ Sizes \subseteq Nat /\ Addr \subseteq Pointers /\ NULL \in Pointers
         /\ live \in Blocks /\ list \in Lists
         /\ \A p \in DOMAIN live : live[p] \in Nat
         /\ \A p \in Pointers : find(list, p).cnt \in Int /\ find(list, p).size \in Nat
<1>1. live \in [DOMAIN live -> Nat] /\ DOMAIN live \subseteq Addr /\ live \in Blocks /\ list \in Lists
  BY BlocksAre DEF Types
<1>2. NULL \notin Addr /\ Sizes \subseteq Nat
  BY MemTraceAssumption DEF NULL
<1>3. \A p \in Pointers : find(list, p).cnt \in Int /\ find(list, p).size \in Nat
  BY <1>1, FindType
<1>4. Addr \subseteq Pointers /\ NULL \in Pointers
  BY DEF Pointers
<1>5. \A p \in DOMAIN live : live[p] \in Nat
  BY <1>1
<1> QED
  BY <1>1, <1>2, <1>3, <1>4, <1>5

-----------------------------------------------------------------------------
(* The list and the library's blocks after what the calls do to both.      *)

(* malloc and alloc.                                                       *)
LEMMA NewBlock ==
  ASSUME Types, Tracked, Complete, Balanced, part # 1,
         NEW size \in Sizes, NEW m \in mallocp(size),
         live' = m.live, list' = alloc(list, m.res, size), n_allocb' = n_allocb + size,
         failed' = (failed \/ m.res = NULL),
         UNCHANGED <<part, n_freeb, grown>>
  PROVE  list' \in Lists /\ live' \in Blocks /\ Tracked' /\ Complete' /\ Balanced'
<1>1. /\ NULL \notin Addr /\ DOMAIN live \subseteq Addr /\ size \in Nat
      /\ Addr \subseteq Pointers /\ NULL \in Pointers /\ live \in Blocks /\ list \in Lists
      /\ \A p \in Pointers : find(list, p).cnt \in Int
  BY AddrNotNull
<1>2. \/ m.res = NULL /\ m.live = live
      \/ m.res \in Addr \ DOMAIN live /\ m.live = with(live, m.res, size)
  BY <1>1, MallocpIs
<1> DEFINE r == m.res
<1>3. r \in Pointers
  BY <1>1, <1>2
<1>4. /\ list' \in Lists
      /\ \A q \in Pointers :
           find(list', q) = IF q = r THEN [ptr |-> r, size |-> size, cnt |-> find(list, r).cnt + 1]
                            ELSE find(list, q)
  <2> HIDE DEF r
  <2> QED
    BY <1>1, <1>3, AllocIs DEF r
<1>5. CASE r = NULL
  <2>1. live' = live /\ failed'
    BY <1>1, <1>2, <1>5
  <2>2. \A q \in Addr : find(list', q) = find(list, q)
    BY <1>1, <1>4, <1>5
  <2>3. Tracked'
    BY <2>1, <2>2 DEF Tracked
  <2> QED
    BY <1>1, <1>4, <2>1, <2>3 DEF Complete, Balanced
<1>6. CASE r \in Addr \ DOMAIN live
  <2>1. /\ live' \in Blocks /\ DOMAIN live' = DOMAIN live \cup {r} /\ live'[r] = size
        /\ \A x \in DOMAIN live : live'[x] = live[x]
        /\ Bytes(live) \in Nat /\ Bytes(live') = Bytes(live) + size
    <3>1. live' = with(live, r, size)
      BY <1>1, <1>2, <1>6
    <3>2. live \in Blocks /\ size \in Nat /\ r \in Addr /\ r \notin DOMAIN live
      BY <1>1, <1>6
    <3> HIDE DEF r
    <3>3. Adds(with(live, r, size), live, r, size)
      BY <3>2, WithIs
    <3> QED
      BY <3>1, <3>3 DEF Adds
  <2>2. find(list', r).cnt = find(list, r).cnt + 1 /\ find(list', r).size = size
    BY <1>3, <1>4
  <2>3. \A q \in Pointers \ {r} : find(list', q) = find(list, q)
    BY <1>4
  <2>4. find(list, r).cnt <= 0 /\ (part = 3 => find(list, r).cnt >= 0) /\ find(list, r).cnt \in Int
    BY <1>1, <1>6 DEF Tracked
  <2> HIDE DEF r
  <2>5. Tracked'
    <3>1. ASSUME NEW q \in Addr
          PROVE  /\ find(list', q).cnt <= 1
                 /\ find(list', q).cnt = 1 => q \in DOMAIN live' /\ find(list', q).size = live'[q]
                 /\ part = 3 => find(list', q).cnt >= 0
      <4>1. CASE q = r
        BY <2>1, <2>2, <2>4, <4>1
      <4>2. CASE q # r
        <5>1. q \in Pointers \ {r}
          BY <1>1, <4>2
        <5>2. find(list', q) = find(list, q)
          BY <2>3, <5>1
        <5> QED
          BY <2>1, <5>2 DEF Tracked
      <4> QED
        BY <4>1, <4>2
    <3> QED
      BY <3>1 DEF Tracked
  <2>6. Complete'
    <3>1. SUFFICES ASSUME ~failed'
                   PROVE  /\ find(list', NULL) = None
                          /\ \A q \in Addr : find(list', q).cnt >= 0
                          /\ \A q \in DOMAIN live' : find(list', q).cnt = 1
      BY DEF Complete
    <3>2. ~failed
      BY <3>1
    <3>3. find(list', NULL) = None
      BY <1>1, <1>6, <2>3, <3>2 DEF Complete
    <3>4. find(list', r).cnt = 1
      BY <1>6, <2>2, <2>4, <3>2 DEF Complete
    <3>5. \A q \in Addr : find(list', q).cnt >= 0
      BY <1>1, <2>3, <3>2, <3>4 DEF Complete
    <3>6. \A q \in DOMAIN live' : find(list', q).cnt = 1
      BY <1>1, <2>1, <2>3, <3>2, <3>4 DEF Complete
    <3> QED
      BY <3>3, <3>5, <3>6
  <2>7. Balanced'
    <3>1. SUFFICES ASSUME ~failed'
                   PROVE  n_allocb' - n_freeb' = Bytes(live') - (IF part' = 3 THEN grown' ELSE 0)
      BY DEF Balanced
    <3>2. n_allocb - n_freeb = Bytes(live) - (IF part = 3 THEN grown ELSE 0)
      BY <3>1 DEF Balanced
    <3>3. n_allocb \in Int /\ n_freeb \in Int /\ grown \in Int
      BY DEF Types
    <3> QED
      BY <1>1, <2>1, <3>2, <3>3
  <2> QED
    BY <1>4, <2>1, <2>5, <2>6, <2>7
<1> QED
  BY <1>2, <1>5, <1>6

(* realloc of a larger size: dealloc, then alloc.                          *)
Regrows(p, size, m) ==
  /\ p = NULL \/ p \in DOMAIN live
  /\ find(list, p) # None /\ find(list, p).size < size
  /\ part = 3 => find(list, p).cnt # 0
  /\ m \in reallocp(p, size) /\ Refused(p, size, m)
  /\ live' = m.live /\ list' = renew(p, m.res, size)
  /\ n_allocb' = n_allocb + size /\ n_freeb' = n_freeb + freed(p, m.res, size)
  /\ part' = part

LEMMA Regrown ==
  ASSUME Types, Tracked, Complete, Balanced, part # 1,
         NEW p \in Pointers, NEW size \in Sizes, NEW m, Regrows(p, size, m)
  PROVE  list' \in Lists /\ live' \in Blocks /\ Tracked' /\ Complete' /\ Balanced'
         /\ n_freeb' \in Int /\ grown' \in Int
<1>1. /\ NULL \notin Addr /\ NULL \notin DOMAIN live /\ DOMAIN live \subseteq Addr /\ size \in Nat
      /\ Addr \subseteq Pointers /\ NULL \in Pointers /\ live \in Blocks /\ list \in Lists
      /\ \A q \in Pointers : find(list, q).cnt \in Int /\ find(list, q).size \in Nat
      /\ \A q \in DOMAIN live : live[q] \in Nat
  BY AddrNotNull
<1> DEFINE r == m.res
           l == dealloc(list, p)
           lower == [ptr |-> p, size |-> find(list, p).size, cnt |-> find(list, p).cnt - 1]
<1>2. size # 0
  BY <1>1 DEF Regrows
<1>3. l \in Lists /\ \A q \in Pointers : find(l, q) = IF q = p THEN lower ELSE find(list, q)
  <2>1. find(list, p) # None
    BY DEF Regrows
  <2> QED
    BY <1>1, <2>1, DeallocIs
<1>4. r \in Pointers /\ (p = NULL => m \in mallocp(size))
  <2>1. CASE p = NULL
    <3>1. m \in mallocp(size)
      BY <2>1 DEF reallocp, Regrows
    <3> QED
      BY <1>1, <3>1, MallocpIs
  <2>2. CASE p \in DOMAIN live
    BY <1>1, <1>2, <2>2, ReallocpIs DEF Regrows
  <2> QED
    BY <2>1, <2>2 DEF Regrows
<1>5. list' = alloc(l, r, size)
  BY DEF renew, Regrows
<1>6. /\ list' \in Lists
      /\ \A q \in Pointers :
           find(list', q) = IF q = r THEN [ptr |-> r, size |-> size, cnt |-> find(l, r).cnt + 1]
                            ELSE find(l, q)
  <2> HIDE DEF l, r
  <2> QED
    BY <1>1, <1>3, <1>4, <1>5, AllocIs
<1>7. n_freeb' \in Int /\ grown' \in Int
  <2>1. find(list', p).size \in Nat
    BY <1>6, FindType
  <2>2. freed(p, m.res, size) \in Nat
    BY <1>1, <2>1 DEF Regrows, freed
  <2>3. grown + size - find(list, p).size \in Int
    BY <1>1 DEF Types
  <2> QED
    BY <2>2, <2>3 DEF Types, Refused, Regrows
<1>8. p = NULL \/ p \in DOMAIN live
  BY DEF Regrows
<1>9. CASE p = NULL
  <2>1. \/ r = NULL /\ live' = live
        \/ r \in Addr \ DOMAIN live /\ live' = with(live, r, size)
    BY <1>1, <1>4, <1>9, MallocpIs DEF Regrows
  <2>2. failed /\ failed'
    BY <1>9 DEF Complete, Refused, Regrows
  <2>3. \A q \in Addr : find(l, q) = find(list, q)
    BY <1>1, <1>3, <1>9
  <2>4. /\ live' \in Blocks /\ \A x \in DOMAIN live : live'[x] = live[x] /\ x \in DOMAIN live'
        /\ r \in Addr => r \notin DOMAIN live /\ r \in DOMAIN live' /\ live'[r] = size
    <3> HIDE DEF r
    <3>1. CASE r = NULL
      BY <1>1, <2>1, <3>1
    <3>2. CASE r \in Addr \ DOMAIN live /\ live' = with(live, r, size)
      <4>1. live \in Blocks /\ size \in Nat /\ r \in Addr /\ r \notin DOMAIN live
        BY <1>1, <3>2
      <4>2. live' = with(live, r, size)
        BY <3>2
      <4>3. Adds(with(live, r, size), live, r, size)
        BY <4>1, WithIs
      <4> QED
        BY <4>1, <4>2, <4>3 DEF Adds
    <3> QED
      BY <2>1, <3>1, <3>2
  <2>5. Tracked'
    <3>1. ASSUME NEW q \in Addr
          PROVE  /\ find(list', q).cnt <= 1
                 /\ find(list', q).cnt = 1 => q \in DOMAIN live' /\ find(list', q).size = live'[q]
                 /\ part = 3 => find(list', q).cnt >= 0
      <4>1. q \in Pointers /\ find(l, q) = find(list, q)
        BY <1>1, <2>3
      <4>2. CASE q = r
        <5>1. find(list', q).cnt = find(list, q).cnt + 1 /\ find(list', q).size = size
          BY <1>6, <4>1, <4>2
        <5>2. find(list, q).cnt <= 0 /\ (part = 3 => find(list, q).cnt >= 0) /\ find(list, q).cnt \in Int
          BY <1>1, <2>4, <4>2 DEF Regrows, Tracked
        <5> HIDE DEF r
        <5> QED
          BY <2>4, <4>2, <5>1, <5>2
      <4>3. CASE q # r
        <5>1. find(list', q) = find(list, q)
          BY <1>6, <4>1, <4>3
        <5> QED
          BY <2>4, <5>1 DEF Regrows, Tracked
      <4> QED
        BY <4>2, <4>3
    <3> QED
      BY <3>1 DEF Regrows, Tracked
  <2> QED
    BY <1>6, <1>7, <2>2, <2>4, <2>5 DEF Regrows, Complete, Balanced
<1>10. CASE p \in DOMAIN live
  <2> DEFINE c == find(list, p).cnt
             old == find(list, p).size
  <2>1. \/ r = p /\ live' = [live EXCEPT ![p] = size]
        \/ r = NULL /\ live' = live
        \/ r \in Addr \ DOMAIN live /\ live' = with(without(live, p), r, size)
    BY <1>1, <1>2, <1>10, ReallocpIs DEF Regrows
  <2>2. /\ p \in Addr /\ p # NULL /\ c \in Int /\ old \in Nat /\ c <= 1
        /\ (part = 3 => c = 1) /\ (c = 1 => old = live[p])
        /\ (~failed => c = 1)
    BY <1>1, <1>10 DEF Regrows, Tracked, Complete
  <2>3. n_allocb \in Int /\ n_freeb \in Int /\ grown \in Int
    BY DEF Types
  <2>4. ~failed => n_allocb - n_freeb = Bytes(live) - (IF part = 3 THEN grown ELSE 0)
    BY DEF Regrows, Balanced
  <2>5. CASE r = p /\ live' = [live EXCEPT ![p] = size]
    <3>1. find(l, p).cnt = c - 1
      BY <1>3
    <3>2. find(list', p).cnt = c /\ find(list', p).size = size
      BY <1>6, <2>2, <2>5, <3>1
    <3>3. \A q \in Pointers \ {p} : find(list', q) = find(list, q)
      BY <1>3, <1>6, <2>5
    <3>4. /\ live' \in Blocks /\ DOMAIN live' = DOMAIN live /\ live'[p] = size
          /\ \A x \in DOMAIN live \ {p} : live'[x] = live[x]
          /\ live[p] \in Nat /\ Bytes(live) \in Nat /\ Bytes(live') = Bytes(live) - live[p] + size
      <4>1. live \in Blocks /\ size \in Nat /\ live' = [live EXCEPT ![p] = size]
        BY <1>1, <2>5
      <4> QED
        BY <1>10, <4>1, ResizeIs
    <3>5. Tracked'
      <4>1. ASSUME NEW q \in Addr
            PROVE  /\ find(list', q).cnt <= 1
                   /\ find(list', q).cnt = 1 => q \in DOMAIN live' /\ find(list', q).size = live'[q]
                   /\ part = 3 => find(list', q).cnt >= 0
        <5>1. CASE q = p
          BY <1>10, <2>2, <3>2, <3>4, <5>1
        <5>2. CASE q # p
          <6>1. find(list', q) = find(list, q)
            BY <1>1, <3>3, <5>2
          <6> QED
            BY <3>4, <5>2, <6>1 DEF Regrows, Tracked
        <5> QED
          BY <5>1, <5>2
      <4> QED
        BY <4>1 DEF Regrows, Tracked
    <3>6. Complete'
      <4>1. failed' = failed
        BY <2>2, <2>5 DEF Regrows, Refused, Types
      <4> HIDE DEF c, old, r, l
      <4> QED
        BY <1>1, <2>2, <3>2, <3>3, <3>4, <4>1 DEF Regrows, Complete
    <3>7. Balanced'
      <4>1. ASSUME ~failed'
            PROVE  n_allocb' - n_freeb' = Bytes(live') - (IF part' = 3 THEN grown' ELSE 0)
        <5>1. ~failed /\ grown' = grown + size - old
          BY <2>2, <2>5, <4>1 DEF Regrows, Refused
        <5>2. old = live[p]
          BY <2>2, <5>1
        <5>3. freed(p, r, size) = IF part = 3 THEN size ELSE old
          BY <3>2 DEF Regrows, freed
        <5>4. n_freeb' = n_freeb + (IF part = 3 THEN size ELSE old) /\ part' = part
              /\ n_allocb' = n_allocb + size
          BY <5>3 DEF Regrows
        <5>5. n_allocb - n_freeb = Bytes(live) - (IF part = 3 THEN grown ELSE 0)
          BY <2>4, <5>1
        <5> HIDE DEF old
        <5>6. CASE part = 3
          BY <1>1, <2>2, <2>3, <3>4, <5>1, <5>2, <5>4, <5>5, <5>6
        <5>7. CASE part # 3
          BY <1>1, <2>2, <2>3, <3>4, <5>1, <5>2, <5>4, <5>5, <5>7
        <5> QED
          BY <5>6, <5>7
      <4> QED
        BY <4>1 DEF Regrows, Balanced
    <3> QED
      BY <1>6, <1>7, <3>4, <3>5, <3>6, <3>7
  <2>6. CASE r = NULL /\ live' = live
    <3>1. failed'
      BY <2>6 DEF Regrows, Refused
    <3>2. find(list', p).cnt = c - 1
      BY <1>3, <1>6, <2>2, <2>6
    <3>3. \A q \in Addr \ {p} : find(list', q) = find(list, q)
      BY <1>1, <1>3, <1>6, <2>6
    <3>4. Tracked'
      <4>1. ASSUME NEW q \in Addr
            PROVE  /\ find(list', q).cnt <= 1
                   /\ find(list', q).cnt = 1 => q \in DOMAIN live' /\ find(list', q).size = live'[q]
                   /\ part = 3 => find(list', q).cnt >= 0
        <5>1. CASE q = p
          BY <2>2, <3>2, <5>1
        <5>2. CASE q # p
          BY <2>6, <3>3, <5>2 DEF Regrows, Tracked
        <5> QED
          BY <5>1, <5>2
      <4> QED
        BY <4>1 DEF Regrows, Tracked
    <3> QED
      BY <1>1, <1>6, <1>7, <2>6, <3>1, <3>4 DEF Regrows, Complete, Balanced
  <2>7. CASE r \in Addr \ DOMAIN live /\ live' = with(without(live, p), r, size)
    <3>1. r # p /\ r \in Pointers
      BY <1>1, <1>10, <2>7
    <3>2. find(list', p) = lower
      BY <1>3, <1>6, <3>1
    <3>3. find(list', r).cnt = find(list, r).cnt + 1 /\ find(list', r).size = size
      BY <1>3, <1>6, <3>1
    <3>4. \A q \in Pointers \ {p, r} : find(list', q) = find(list, q)
      BY <1>3, <1>6
    <3>5. /\ live' \in Blocks /\ DOMAIN live' = (DOMAIN live \ {p}) \cup {r} /\ live'[r] = size
          /\ \A x \in DOMAIN live \ {p} : live'[x] = live[x]
          /\ live[p] \in Nat /\ Bytes(live) \in Nat /\ Bytes(live') = Bytes(live) - live[p] + size
      <4> DEFINE d == without(live, p)
      <4>1. /\ d \in Blocks /\ DOMAIN d = DOMAIN live \ {p}
            /\ \A x \in DOMAIN live \ {p} : d[x] = live[x]
            /\ live[p] \in Nat /\ Bytes(d) \in Nat /\ Bytes(live) \in Nat
            /\ Bytes(live) = Bytes(d) + live[p]
        BY <1>1, <1>10, WithoutIs
      <4>2. live' = with(d, r, size)
        BY <2>7
      <4> HIDE DEF d, r
      <4>3. d \in Blocks /\ r \in Addr \ DOMAIN d
        BY <2>7, <4>1
      <4>4. /\ live' \in Blocks /\ DOMAIN live' = DOMAIN d \cup {r} /\ live'[r] = size
            /\ \A x \in DOMAIN d : live'[x] = d[x]
            /\ Bytes(live') = Bytes(d) + size
        <5>1. size \in Nat /\ r \in Addr /\ r \notin DOMAIN d
          BY <1>1, <4>3
        <5>2. Adds(with(d, r, size), d, r, size)
          BY <4>3, <5>1, WithIs
        <5> QED
          BY <4>2, <5>2 DEF Adds
      <4> QED
        BY <1>1, <4>1, <4>4
    <3>6. find(list, r).cnt <= 0 /\ (part = 3 => find(list, r).cnt >= 0) /\ find(list, r).cnt \in Int
          /\ (~failed => find(list, r).cnt >= 0)
      BY <1>1, <2>7 DEF Regrows, Tracked, Complete
    <3>7. lower.cnt = c - 1 /\ lower.size = old
      OBVIOUS
    <3> HIDE DEF r, l, lower
    <3>8. Tracked'
      <4>1. ASSUME NEW q \in Addr
            PROVE  /\ find(list', q).cnt <= 1
                   /\ find(list', q).cnt = 1 => q \in DOMAIN live' /\ find(list', q).size = live'[q]
                   /\ part = 3 => find(list', q).cnt >= 0
        <5>1. CASE q = p
          BY <2>2, <3>2, <3>7, <5>1
        <5>2. CASE q = r
          BY <3>3, <3>5, <3>6, <5>2
        <5>3. CASE q # p /\ q # r
          <6>1. find(list', q) = find(list, q)
            BY <1>1, <3>4, <5>3
          <6> QED
            BY <3>5, <5>3, <6>1 DEF Regrows, Tracked
        <5> QED
          BY <5>1, <5>2, <5>3
      <4> QED
        BY <4>1 DEF Regrows, Tracked
    <3>9. failed' = failed
      <4>1. m.res # NULL
        BY <1>1, <2>7 DEF r
      <4> QED
        BY <4>1 DEF Regrows, Refused, Types
    <3>10. Complete'
      <4>1. ASSUME ~failed
            PROVE  /\ find(list', NULL) = None
                   /\ \A q \in Addr : find(list', q).cnt >= 0
                   /\ \A q \in DOMAIN live' : find(list', q).cnt = 1
        <5>1. find(list', p).cnt = 0
          BY <2>2, <3>2, <3>7, <4>1
        <5>2. find(list', r).cnt = 1
          BY <3>3, <3>6, <4>1
        <5>3. find(list', NULL) = None
          BY <1>1, <2>2, <2>7, <3>4, <4>1 DEF Regrows, Complete
        <5>4. \A q \in Addr : find(list', q).cnt >= 0
          BY <1>1, <3>4, <4>1, <5>1, <5>2 DEF Regrows, Complete
        <5>5. \A q \in DOMAIN live' : find(list', q).cnt = 1
          BY <1>1, <3>4, <3>5, <4>1, <5>2 DEF Regrows, Complete
        <5> QED
          BY <5>3, <5>4, <5>5
      <4> QED
        BY <3>9, <4>1 DEF Regrows, Complete
    <3>11. Balanced'
      <4>1. ASSUME ~failed
            PROVE  n_allocb' - n_freeb' = Bytes(live') - (IF part' = 3 THEN grown' ELSE 0)
        <5>1. grown' = grown
          BY <3>1 DEF Regrows, Refused, r
        <5>2. old = live[p]
          BY <2>2, <4>1
        <5>3. freed(p, m.res, size) = old
          BY <3>2, <3>7 DEF Regrows, freed
        <5>4. n_freeb' = n_freeb + old /\ part' = part /\ n_allocb' = n_allocb + size
          BY <5>3 DEF Regrows
        <5>5. n_allocb - n_freeb = Bytes(live) - (IF part = 3 THEN grown ELSE 0)
          BY <2>4, <4>1
        <5>6. Bytes(live) \in Nat /\ Bytes(live') = Bytes(live) - live[p] + size /\ live[p] \in Nat
          BY <3>5
        <5>7. size \in Nat
          BY <1>1
        <5> HIDE DEF old
        <5>8. CASE part = 3
          BY <2>3, <5>1, <5>2, <5>4, <5>5, <5>6, <5>7, <5>8
        <5>9. CASE part # 3
          BY <2>3, <5>2, <5>4, <5>5, <5>6, <5>7, <5>9
        <5> QED
          BY <5>8, <5>9
      <4> QED
        BY <3>9, <4>1 DEF Regrows, Balanced
    <3> QED
      BY <1>6, <1>7, <3>5, <3>8, <3>10, <3>11
  <2> QED
    BY <2>1, <2>5, <2>6, <2>7
<1> QED
  BY <1>9, <1>10, <1>8

(* free and dealloc.                                                       *)
LEMMA Released ==
  ASSUME Types, Tracked, Complete, Balanced, part # 1,
         NEW p \in DOMAIN live, part = 3 => find(list, p).cnt # 0,
         live' = without(live, p), list' = dealloc(list, p),
         n_freeb' = IF find(list, p) = None THEN n_freeb ELSE n_freeb + find(list, p).size,
         UNCHANGED <<part, n_allocb, grown, failed>>
  PROVE  list' \in Lists /\ live' \in Blocks /\ Tracked' /\ Complete' /\ Balanced' /\ n_freeb' \in Int
<1>1. /\ NULL \notin Addr /\ NULL \notin DOMAIN live /\ DOMAIN live \subseteq Addr
      /\ Addr \subseteq Pointers /\ NULL \in Pointers /\ live \in Blocks /\ list \in Lists
      /\ \A q \in Pointers : find(list, q).cnt \in Int /\ find(list, q).size \in Nat
  BY AddrNotNull
<1> DEFINE c == find(list, p).cnt
           old == find(list, p).size
<1>2. /\ list' \in Lists
      /\ \A q \in Pointers :
           find(list', q) = IF q = p /\ find(list, p) # None
                            THEN [ptr |-> p, size |-> old, cnt |-> c - 1] ELSE find(list, q)
  BY <1>1, DeallocIs
<1>3. /\ live' \in Blocks /\ DOMAIN live' = DOMAIN live \ {p}
      /\ \A x \in DOMAIN live \ {p} : live'[x] = live[x]
      /\ live[p] \in Nat /\ Bytes(live') \in Nat /\ Bytes(live) \in Nat
      /\ Bytes(live) = Bytes(live') + live[p]
  BY <1>1, WithoutIs
<1>4. /\ p \in Addr /\ p \in Pointers /\ c \in Int /\ old \in Nat /\ c <= 1
      /\ (part = 3 => c = 1) /\ (c = 1 => old = live[p]) /\ (~failed => c = 1)
  BY <1>1 DEF Tracked, Complete
<1>5. find(list, p) = None => c = 0
  BY DEF None
<1>6. find(list', p).cnt <= 0 /\ (c = 1 => find(list', p).cnt = 0)
  BY <1>2, <1>4, <1>5
<1>7. \A q \in Pointers \ {p} : find(list', q) = find(list, q)
  BY <1>2
<1>8. Tracked'
  <2>1. ASSUME NEW q \in Addr
        PROVE  /\ find(list', q).cnt <= 1
               /\ find(list', q).cnt = 1 => q \in DOMAIN live' /\ find(list', q).size = live'[q]
               /\ part = 3 => find(list', q).cnt >= 0
    <3>1. CASE q = p
      <4>1. find(list', p).cnt \in Int
        BY <1>2, <1>4, FindType
      <4> HIDE DEF c
      <4> QED
        BY <1>4, <1>6, <3>1, <4>1
    <3>2. CASE q # p
      <4>1. find(list', q) = find(list, q)
        BY <1>1, <1>7, <3>2
      <4> QED
        BY <1>3, <3>2, <4>1 DEF Tracked
    <3> QED
      BY <3>1, <3>2
  <2> QED
    BY <2>1 DEF Tracked
<1>9. Complete'
  <2>1. ASSUME ~failed
        PROVE  /\ find(list', NULL) = None
               /\ \A q \in Addr : find(list', q).cnt >= 0
               /\ \A q \in DOMAIN live' : find(list', q).cnt = 1
    <3>1. find(list', p).cnt = 0
      BY <1>4, <1>6, <2>1
    <3>2. find(list', NULL) = None
      BY <1>1, <1>4, <1>7, <2>1 DEF Complete
    <3>3. \A q \in Addr : find(list', q).cnt >= 0
      BY <1>1, <1>7, <2>1, <3>1 DEF Complete
    <3>4. \A q \in DOMAIN live' : find(list', q).cnt = 1
      BY <1>1, <1>3, <1>7, <2>1 DEF Complete
    <3> QED
      BY <3>2, <3>3, <3>4
  <2> QED
    BY <2>1 DEF Complete
<1>10. n_allocb \in Int /\ n_freeb \in Int /\ grown \in Int /\ n_freeb' \in Int
  BY <1>4 DEF Types
<1>11. Balanced'
  <2>1. ASSUME ~failed
        PROVE  n_allocb' - n_freeb' = Bytes(live') - (IF part' = 3 THEN grown' ELSE 0)
    <3>1. n_freeb' = n_freeb + old /\ old = live[p]
      BY <1>4, <1>5, <2>1
    <3>2. n_allocb - n_freeb = Bytes(live) - (IF part = 3 THEN grown ELSE 0)
      BY <2>1 DEF Balanced
    <3> HIDE DEF old
    <3> QED
      BY <1>3, <1>4, <1>10, <3>1, <3>2
  <2> QED
    BY <2>1 DEF Balanced
<1> QED
  BY <1>2, <1>3, <1>8, <1>9, <1>10, <1>11

-----------------------------------------------------------------------------
(* The invariant is inductive: one lemma for each call of the program.     *)

LEMMA InitInv ==
  ASSUME Init
  PROVE  Inv
<1>1. <<>> \in Lists
  BY DEF Lists
<1>2. \A p \in Pointers : find(<<>>, p) = None
  BY <1>1, FindIs
<1>3. list = <<>> /\ live = <<>>
  BY DEF Init, new_list
<1>4. Types
  <2>1. live \in Blocks /\ list \in Lists
    BY <1>1, <1>3, NoBytes
  <2>2. /\ part \in Parts /\ held = {} /\ n_allocb = 0 /\ n_freeb = 0 /\ grown = 0
        /\ failed = FALSE /\ moved = FALSE
    BY DEF Init
  <2>3. n_allocb \in Int /\ n_freeb \in Int /\ grown \in Int
    BY <2>2
  <2>4. failed \in BOOLEAN /\ moved \in BOOLEAN /\ held \subseteq Addr
    BY <2>2
  <2> QED
    BY <2>1, <2>2, <2>3, <2>4 DEF Types
<1>5. \A p \in Addr \cup {NULL} : find(list, p) = None
  BY <1>2, <1>3 DEF Pointers
<1>6. Tracked /\ Complete
  BY <1>3, <1>5, NoBytes DEF Tracked, Complete, None
<1>7. Balanced
  BY <1>3, NoBytes DEF Init, Balanced
<1>8. HeldLive /\ Reported /\ LibcCallsLegal /\ AlarmsExact
  BY DEF Init, HeldLive, Reported, LibcCallsLegal, AlarmsExact
<1> QED
  BY <1>4, <1>6, <1>7, <1>8 DEF Inv

(* A call that leaves the list and the library alone.                      *)
LEMMA Kept ==
  ASSUME Inv,
         UNCHANGED <<part, list, n_allocb, n_freeb, live, held, grown, failed, moved>>,
         status' # "fini", LibcCallsLegal', AlarmsExact'
  PROVE  Inv'
<1>1. Types' /\ HeldLive' /\ Tracked' /\ Complete' /\ Balanced'
  BY DEF Inv, Types, HeldLive, Tracked, Complete, Balanced
<1>2. Reported'
  BY DEF Reported
<1> QED
  BY <1>1, <1>2 DEF Inv

LEMMA MallocInv ==
  ASSUME Inv, status = "run", part' = part, NEW size \in Sizes,
         IF part = 1 THEN Malloc1(size) ELSE Malloc(size)
  PROVE  Inv'
<1>1. Types /\ live \in Blocks /\ size \in Nat /\ held \subseteq Addr
  BY AddrNotNull DEF Inv, Types
<1>2. PICK m \in mallocp(size) :
        Counted(size, m) /\ list' = IF part = 1 THEN list ELSE alloc(list, m.res, size)
  BY DEF Malloc1, Malloc
<1>3. \/ m.res = NULL /\ m.live = live
      \/ m.res \in Addr \ DOMAIN live /\ m.live = with(live, m.res, size)
  BY <1>1, MallocpIs
<1>4. /\ live' = m.live /\ held' = (IF m.res = NULL THEN held ELSE held \cup {m.res})
      /\ n_allocb' = n_allocb + size /\ failed' = (failed \/ m.res = NULL)
      /\ status' = status /\ n_freeb' = n_freeb /\ alarm' = alarm /\ grown' = grown /\ moved' = moved
  BY <1>2 DEF Counted, keep, count
<1>5. live' \in Blocks /\ DOMAIN live \cup (IF m.res = NULL THEN {} ELSE {m.res}) = DOMAIN live'
  <2>1. CASE m.res = NULL
    <3>1. m.live = live
      BY <1>3, <2>1, AddrNotNull, <1>1
    <3> QED
      BY <1>1, <1>4, <2>1, <3>1
  <2>2. CASE m.res \in Addr \ DOMAIN live /\ m.live = with(live, m.res, size)
    <3>1. m.res # NULL
      BY <1>1, <2>2, AddrNotNull
    <3>2. Adds(with(live, m.res, size), live, m.res, size)
      BY <1>1, <2>2, WithIs
    <3> QED
      BY <1>4, <2>2, <3>1, <3>2 DEF Adds
  <2> QED
    BY <1>3, <2>1, <2>2
<1>6. list' \in Lists /\ Tracked' /\ Complete' /\ Balanced'
  <2>1. CASE part = 1
    BY <1>2, <2>1 DEF Inv, Types, Tracked, Complete, Balanced
  <2>2. CASE part # 1
    BY <1>2, <1>4, <2>2, NewBlock DEF Inv
  <2> QED
    BY <2>1, <2>2
<1>7. Types'
  <2>1. held' \subseteq Addr
    BY <1>1, <1>3, <1>4
  <2>2. n_allocb' \in Int
    BY <1>1, <1>4 DEF Types
  <2> QED
    BY <1>1, <1>4, <1>5, <1>6, <2>1, <2>2 DEF Types
<1>8. HeldLive'
  BY <1>4, <1>5 DEF Inv, HeldLive
<1>9. Reported' /\ LibcCallsLegal' /\ AlarmsExact'
  BY <1>4 DEF Inv, Reported, LibcCallsLegal, AlarmsExact
<1> QED
  BY <1>6, <1>7, <1>8, <1>9 DEF Inv

LEMMA Realloc1Inv ==
  ASSUME Inv, status = "run", part = 1, part' = part,
         NEW p \in held \cup {NULL}, NEW size \in Sizes, Realloc1(p, size)
  PROVE  Inv'
<1>1. Types /\ live \in Blocks /\ size \in Nat /\ held \subseteq Addr /\ NULL \notin Addr
      /\ moved \in BOOLEAN
  BY AddrNotNull DEF Inv, Types
<1>2. CASE Undefined(p)
  <2>1. p \in held /\ p \notin DOMAIN live
    BY <1>2 DEF Undefined
  <2>2. moved
    BY <2>1 DEF Inv, HeldLive
  <2>3. /\ status' = "undefined"
        /\ UNCHANGED <<part, list, n_allocb, n_freeb, live, held, grown, failed, moved, alarm>>
    BY <1>2 DEF Realloc1, Ends, tracer, history
  <2>4. LibcCallsLegal' /\ AlarmsExact' /\ status' # "fini"
    BY <2>2, <2>3 DEF Inv, LibcCallsLegal, AlarmsExact
  <2> QED
    BY <2>3, <2>4, Kept
<1>3. CASE ~Undefined(p)
  <2>1. PICK m \in reallocp(p, size) :
           /\ live' = m.live /\ swap(p, p) /\ count(size)
           /\ moved' = (moved \/ m.res # p)
           /\ UNCHANGED <<status, list, n_freeb, alarm, grown, failed>>
    BY <1>3 DEF Realloc1
  <2>2. /\ held' = held /\ n_allocb' = n_allocb + size
        /\ status' = status /\ list' = list /\ n_freeb' = n_freeb /\ alarm' = alarm
        /\ grown' = grown /\ failed' = failed
    BY <1>1, <2>1 DEF swap, count
  <2>3. live' \in Blocks /\ (m.res = p => DOMAIN live' = DOMAIN live)
    <3>1. CASE p = NULL
      <4>1. m \in mallocp(size)
        BY <3>1 DEF reallocp
      <4>2. \/ m.res = NULL /\ m.live = live
            \/ m.res \in Addr \ DOMAIN live /\ m.live = with(live, m.res, size)
        BY <1>1, <4>1, MallocpIs
      <4>3. CASE m.res = NULL /\ m.live = live
        BY <1>1, <2>1, <4>3
      <4>4. CASE m.res \in Addr \ DOMAIN live /\ m.live = with(live, m.res, size)
        <5>1. m.res # p
          BY <1>1, <3>1, <4>4
        <5>2. Adds(with(live, m.res, size), live, m.res, size)
          BY <1>1, <4>4, WithIs
        <5> QED
          BY <2>1, <4>4, <5>1, <5>2 DEF Adds
      <4> QED
        BY <4>2, <4>3, <4>4
    <3>2. CASE p \in DOMAIN live /\ size = 0
      <4>1. m.res = NULL /\ m.live = without(live, p) /\ p # NULL
        BY <1>1, <3>2, AddrNotNull DEF reallocp
      <4>2. without(live, p) \in Blocks
        BY <1>1, <3>2, WithoutIs
      <4> QED
        BY <2>1, <4>1, <4>2
    <3>3. CASE p \in DOMAIN live /\ size # 0
      <4>1. \/ m.res = p /\ m.live = [live EXCEPT ![p] = size]
            \/ m.res = NULL /\ m.live = live
            \/ m.res \in Addr \ DOMAIN live /\ m.live = with(without(live, p), m.res, size)
        BY <1>1, <3>3, ReallocpIs
      <4>2. CASE m.res = p /\ m.live = [live EXCEPT ![p] = size]
        <5>1. [live EXCEPT ![p] = size] \in Blocks /\ DOMAIN [live EXCEPT ![p] = size] = DOMAIN live
          BY <1>1, <3>3, ResizeIs
        <5> QED
          BY <2>1, <4>2, <5>1
      <4>3. CASE m.res = NULL /\ m.live = live
        BY <1>1, <2>1, <4>3
      <4>4. CASE m.res \in Addr \ DOMAIN live /\ m.live = with(without(live, p), m.res, size)
        <5>1. without(live, p) \in Blocks /\ DOMAIN without(live, p) = DOMAIN live \ {p}
          BY <1>1, <3>3, WithoutIs
        <5>2. m.res \in Addr \ DOMAIN without(live, p) /\ m.res # p
          BY <3>3, <4>4, <5>1
        <5>3. Adds(with(without(live, p), m.res, size), without(live, p), m.res, size)
          BY <1>1, <5>1, <5>2, WithIs
        <5> QED
          BY <2>1, <4>4, <5>2, <5>3 DEF Adds
      <4> QED
        BY <4>1, <4>2, <4>3, <4>4
    <3> QED
      BY <1>3, <3>1, <3>2, <3>3 DEF Undefined
  <2>4. Types'
    <3>1. n_allocb' \in Int /\ moved' \in BOOLEAN
      BY <1>1, <2>1, <2>2 DEF Types
    <3> QED
      BY <1>1, <2>2, <2>3, <3>1 DEF Types
  <2>5. HeldLive'
    <3>1. ASSUME ~moved' PROVE held' \subseteq DOMAIN live'
      <4>1. ~moved /\ m.res = p
        BY <2>1, <3>1
      <4> QED
        BY <2>2, <2>3, <4>1 DEF Inv, HeldLive
    <3> QED
      BY <3>1 DEF HeldLive
  <2>6. Tracked' /\ Complete' /\ Balanced' /\ Reported' /\ LibcCallsLegal' /\ AlarmsExact'
    BY <2>2 DEF Tracked, Complete, Balanced, Reported, LibcCallsLegal, AlarmsExact
  <2> QED
    BY <2>4, <2>5, <2>6 DEF Inv
<1> QED
  BY <1>2, <1>3

(* A larger block, in part 2 or 3.                                         *)
LEMMA GrowInv ==
  ASSUME Inv, status = "run", part # 1, part' = part,
         NEW p \in Pointers, NEW size \in Sizes, p = NULL \/ p \in DOMAIN live,
         find(list, p) # None, find(list, p).size < size, part = 3 => find(list, p).cnt # 0,
         part = 2 => p \in held \cup {NULL},
         Grow(p, size)
  PROVE  Inv'
<1>1. /\ Types /\ live \in Blocks /\ size \in Nat /\ held \subseteq Addr /\ NULL \notin Addr
      /\ find(list, p).size \in Nat /\ NULL \notin DOMAIN live /\ DOMAIN live \subseteq Addr
  BY AddrNotNull DEF Inv, Types
<1>2. size # 0 /\ ~Undefined(p)
  BY <1>1 DEF Undefined
<1>3. PICK m \in reallocp(p, size) :
         /\ live' = m.live /\ swap(p, m.res) /\ count(size)
         /\ list' = renew(p, m.res, size)
         /\ n_freeb' = n_freeb + freed(p, m.res, size)
         /\ Refused(p, size, m)
         /\ alarm' = [raised |-> FALSE, right |-> p \notin DOMAIN live]
         /\ UNCHANGED <<status, moved>>
  BY <1>2 DEF Grow
<1>4. /\ Regrows(p, size, m)
      /\ held' = IF m.res = NULL THEN held ELSE (held \ {p}) \cup {m.res}
      /\ failed' = (failed \/ m.res = NULL) /\ n_allocb' = n_allocb + size
      /\ status' = status /\ moved' = moved
  BY <1>3 DEF Regrows, swap, count, Refused
<1>5. list' \in Lists /\ live' \in Blocks /\ Tracked' /\ Complete' /\ Balanced'
      /\ n_freeb' \in Int /\ grown' \in Int
  BY <1>4, Regrown DEF Inv
<1>6. /\ m.res \in Addr \cup {NULL}
      /\ m.res = NULL => live' = live
      /\ m.res # NULL => DOMAIN live' = (DOMAIN live \ {p}) \cup {m.res}
  <2>1. CASE p = NULL
    <3>1. \/ m.res = NULL /\ m.live = live
          \/ m.res \in Addr \ DOMAIN live /\ m.live = with(live, m.res, size)
      BY <1>1, <2>1, MallocpIs DEF reallocp
    <3>2. CASE m.res = NULL /\ m.live = live
      BY <1>3, <3>2
    <3>3. CASE m.res \in Addr \ DOMAIN live /\ m.live = with(live, m.res, size)
      <4>1. DOMAIN with(live, m.res, size) = DOMAIN live \cup {m.res}
        BY DEF with
      <4> QED
        BY <1>1, <1>3, <2>1, <3>3, <4>1
    <3> QED
      BY <3>1, <3>2, <3>3
  <2>2. CASE p \in DOMAIN live
    <3>1. \/ m.res = p /\ m.live = [live EXCEPT ![p] = size]
          \/ m.res = NULL /\ m.live = live
          \/ m.res \in Addr \ DOMAIN live /\ m.live = with(without(live, p), m.res, size)
      BY <1>1, <1>2, <2>2, ReallocpIs
    <3>2. DOMAIN [live EXCEPT ![p] = size] = DOMAIN live
      BY <1>1, <2>2, ResizeIs
    <3>3. DOMAIN with(without(live, p), m.res, size) = (DOMAIN live \ {p}) \cup {m.res}
      BY DEF with, without
    <3> QED
      BY <1>1, <1>3, <2>2, <3>1, <3>2, <3>3
  <2> QED
    BY <2>1, <2>2
<1>7. Types'
  <2>1. held' \subseteq Addr
    BY <1>1, <1>4, <1>6
  <2>2. n_allocb' \in Int /\ failed' \in BOOLEAN /\ moved' \in BOOLEAN
    BY <1>1, <1>4 DEF Types
  <2> QED
    BY <1>1, <1>5, <2>1, <2>2 DEF Types
<1>8. HeldLive'
  <2>1. ASSUME part = 2 PROVE held' \subseteq DOMAIN live'
    <3>1. held \subseteq DOMAIN live
      BY <2>1 DEF Inv, HeldLive
    <3>2. CASE m.res = NULL
      BY <1>4, <1>6, <3>1, <3>2
    <3>3. CASE m.res # NULL
      BY <1>4, <1>6, <3>1, <3>3
    <3> QED
      BY <3>2, <3>3
  <2> QED
    BY <2>1 DEF HeldLive
<1>9. AlarmsExact'
  <2>1. ASSUME part = 3, ~failed' PROVE alarm'.raised = alarm'.right
    <3>1. ~failed
      BY <1>4, <2>1
    <3>2. p \in DOMAIN live
      BY <3>1 DEF Inv, Complete
    <3> QED
      BY <1>3, <3>2
  <2> QED
    BY <2>1 DEF AlarmsExact
<1>10. Reported' /\ LibcCallsLegal'
  BY <1>4 DEF Reported, LibcCallsLegal
<1> QED
  BY <1>5, <1>7, <1>8, <1>9, <1>10 DEF Inv

(* A shorter one.                                                          *)
LEMMA ShrinkInv ==
  ASSUME Inv, status = "run", part # 1, part' = part,
         NEW p \in Pointers, NEW size \in Sizes,
         part = 3 => in_use(p),
         Shrink(p, size)
  PROVE  Inv'
<1>1. /\ UNCHANGED <<part, list, n_allocb, n_freeb, live, held, grown, failed, moved, status>>
      /\ alarm' = [raised |-> FALSE, right |-> p \notin DOMAIN live]
  BY DEF Shrink, tracer
<1>2. AlarmsExact'
  <2>1. ASSUME part = 3, ~failed PROVE p \in DOMAIN live
    <3>1. p # NULL
      BY <2>1 DEF in_use, Inv, Complete
    <3>2. p \in Addr
      BY <3>1 DEF Pointers
    <3>3. /\ find(list, p).cnt <= 1 /\ find(list, p).cnt >= 0 /\ find(list, p).cnt # 0
          /\ find(list, p).cnt = 1 => p \in DOMAIN live
      BY <2>1, <3>2 DEF Inv, Tracked, in_use
    <3>4. find(list, p).cnt \in Int
      BY AddrNotNull DEF Inv
    <3> QED
      BY <3>3, <3>4
  <2> QED
    BY <1>1, <2>1 DEF AlarmsExact
<1>3. LibcCallsLegal' /\ status' # "fini"
  BY <1>1 DEF LibcCallsLegal
<1> QED
  BY <1>1, <1>2, <1>3, Kept

LEMMA Realloc2Inv ==
  ASSUME Inv, status = "run", part = 2, part' = part,
         NEW p \in held \cup {NULL}, NEW size \in Sizes, Realloc2(p, size)
  PROVE  Inv'
<1>1. /\ held \subseteq DOMAIN live /\ p \in Pointers /\ part # 1 /\ part # 3
      /\ p = NULL \/ p \in DOMAIN live
  BY AddrNotNull DEF Inv, HeldLive, Types
<1>2. CASE find(list, p) = None
  <2>1. /\ status' = "null dereference"
        /\ UNCHANGED <<part, list, n_allocb, n_freeb, live, held, grown, failed, moved, alarm>>
    BY <1>2 DEF Realloc2, Ends, tracer, history
  <2>2. LibcCallsLegal' /\ AlarmsExact' /\ status' # "fini"
    BY <2>1 DEF Inv, LibcCallsLegal, AlarmsExact
  <2> QED
    BY <2>1, <2>2, Kept
<1>3. CASE find(list, p) # None /\ Shrink(p, size)
  BY <1>1, <1>3, ShrinkInv
<1>4. CASE find(list, p) # None /\ find(list, p).size < size /\ Grow(p, size)
  BY <1>1, <1>4, GrowInv
<1> QED
  BY <1>2, <1>3, <1>4 DEF Realloc2

LEMMA InUseIsLive ==
  ASSUME Inv, part = 3, NEW p \in Pointers, in_use(p)
  PROVE  (p = NULL /\ failed) \/ p \in DOMAIN live
<1>1. CASE p = NULL
  BY <1>1 DEF Inv, Complete, in_use
<1>2. CASE p # NULL
  <2>1. p \in Addr /\ find(list, p).cnt \in Int
    BY <1>2, AddrNotNull DEF Pointers, Inv
  <2> QED
    BY <2>1 DEF Inv, Tracked, in_use
<1> QED
  BY <1>1, <1>2

LEMMA NotInUse ==
  ASSUME Inv, part = 3, NEW p \in Pointers, ~in_use(p), ~failed
  PROVE  p \notin DOMAIN live
<1>1. p \in DOMAIN live => find(list, p).cnt = 1
  BY DEF Inv, Complete
<1> QED
  BY <1>1 DEF in_use, None

LEMMA Realloc3Inv ==
  ASSUME Inv, status = "run", part = 3, part' = part,
         NEW p \in Pointers, NEW size \in Sizes, Realloc3(p, size)
  PROVE  Inv'
<1>1. /\ Types /\ live \in Blocks /\ size \in Nat /\ held \subseteq Addr /\ NULL \notin Addr
  BY AddrNotNull DEF Inv, Types
<1>2. ASSUME ~in_use(p), NEW m \in mallocp(size),
             live' = m.live, swap(p, m.res), count(size), list' = alloc(list, m.res, size),
             failed' = (failed \/ m.res = NULL),
             alarm' = [raised |-> TRUE, right |-> p \notin DOMAIN live],
             UNCHANGED <<status, n_freeb, grown, moved>>
      PROVE  Inv'
  <2>1. \/ m.res = NULL /\ m.live = live
        \/ m.res \in Addr \ DOMAIN live /\ m.live = with(live, m.res, size)
    BY <1>1, MallocpIs
  <2>2. held' = (IF m.res = NULL THEN held ELSE (held \ {p}) \cup {m.res})
        /\ n_allocb' = n_allocb + size
    BY <1>2 DEF swap, count
  <2>3. list' \in Lists /\ live' \in Blocks /\ Tracked' /\ Complete' /\ Balanced'
    BY <1>2, <2>2, NewBlock DEF Inv
  <2>4. Types'
    <3>1. held' \subseteq Addr
      BY <1>1, <2>1, <2>2
    <3>2. n_allocb' \in Int /\ failed' \in BOOLEAN
      BY <1>1, <1>2, <2>2 DEF Types
    <3> QED
      BY <1>1, <1>2, <2>3, <3>1, <3>2 DEF Types
  <2>5. AlarmsExact'
    <3>1. ASSUME ~failed' PROVE alarm'.raised = alarm'.right
      <4>1. ~failed
        BY <1>2, <3>1
      <4> QED
        BY <1>2, <4>1, NotInUse
    <3> QED
      BY <3>1 DEF AlarmsExact
  <2>6. HeldLive' /\ Reported' /\ LibcCallsLegal'
    BY <1>2 DEF HeldLive, Reported, LibcCallsLegal
  <2> QED
    BY <2>3, <2>4, <2>5, <2>6 DEF Inv
<1>3. CASE in_use(p) /\ Shrink(p, size)
  BY <1>3, ShrinkInv
<1>4. CASE in_use(p) /\ find(list, p).size < size /\ Grow(p, size)
  <2>1. p = NULL \/ p \in DOMAIN live
    BY <1>4, InUseIsLive
  <2>2. find(list, p) # None /\ find(list, p).cnt # 0
    BY <1>4 DEF in_use
  <2> QED
    BY <1>4, <2>1, <2>2, GrowInv
<1> QED
  BY <1>2, <1>3, <1>4 DEF Realloc3

(* free.                                                                   *)
LEMMA FreeInv ==
  ASSUME Inv, status = "run", part' = part,
         NEW p \in Addr, part # 3 => p \in held, Free(p)
  PROVE  Inv'
<1>1. /\ Types /\ live \in Blocks /\ held \subseteq Addr /\ NULL \notin Addr /\ p # NULL
      /\ p \in Pointers /\ part \in 1 .. 3
  BY AddrNotNull, MemTraceAssumption DEF Inv, Types
<1>2. /\ held' = held \ {p}
      /\ alarm' = [raised |-> part = 3 /\ ~in_use(p), right |-> p \notin DOMAIN live]
      /\ n_allocb' = n_allocb /\ grown' = grown /\ failed' = failed /\ moved' = moved
  BY DEF Free
<1>3. /\ part = 1 => Free1(p)
      /\ part = 2 => Free2(p)
      /\ part = 3 => Free3(p)
  BY DEF Free
<1>4. /\ without(live, p) \in Blocks
      /\ DOMAIN without(live, p) = DOMAIN live \ {p}
  <2>1. CASE p \in DOMAIN live
    BY <1>1, <2>1, WithoutIs
  <2>2. CASE p \notin DOMAIN live
    <3>1. live \in [DOMAIN live -> Nat]
      BY <1>1, BlocksAre
    <3>2. without(live, p) = live
      BY <2>2, <3>1 DEF without
    <3> QED
      BY <1>1, <2>2, <3>2
  <2> QED
    BY <2>1, <2>2
<1>5. CASE part = 1
  <2>1. Passed(p) /\ list' = list /\ n_freeb' = n_freeb
    BY <1>3, <1>5 DEF Free1
  <2>2. live' = without(live, p)
    BY <2>1 DEF Passed
  <2>3. Types'
    BY <1>1, <1>2, <1>4, <2>1, <2>2 DEF Types
  <2>4. HeldLive'
    BY <1>2, <1>4, <1>5, <2>2 DEF Inv, HeldLive
  <2>5. LibcCallsLegal' /\ status' # "fini"
    <3>1. CASE Undefined(p)
      <4>1. moved
        BY <1>5, <3>1 DEF Undefined, Inv, HeldLive
      <4> QED
        BY <1>2, <1>5, <2>1, <3>1, <4>1 DEF Passed, LibcCallsLegal
    <3>2. CASE ~Undefined(p)
      BY <2>1, <3>2 DEF Passed, LibcCallsLegal
    <3> QED
      BY <3>1, <3>2
  <2>6. Tracked' /\ Complete' /\ Balanced' /\ Reported' /\ AlarmsExact'
    BY <1>5 DEF Tracked, Complete, Balanced, Reported, AlarmsExact
  <2> QED
    BY <2>3, <2>4, <2>5, <2>6 DEF Inv
<1>6. CASE part # 1 /\ Free2(p) /\ p \in DOMAIN live /\ (part = 3 => in_use(p))
  <2>1. Passed(p) /\ list' = dealloc(list, p)
        /\ n_freeb' = IF find(list, p) = None THEN n_freeb ELSE n_freeb + find(list, p).size
    BY <1>6 DEF Free2
  <2>2. live' = without(live, p) /\ status' = status
    BY <1>6, <2>1 DEF Passed, Undefined
  <2>3. list' \in Lists /\ live' \in Blocks /\ Tracked' /\ Complete' /\ Balanced' /\ n_freeb' \in Int
    <3>1. part = 3 => find(list, p).cnt # 0
      BY <1>6 DEF in_use
    <3> QED
      BY <1>2, <1>6, <2>1, <2>2, <3>1, Released DEF Inv
  <2>4. Types'
    BY <1>1, <1>2, <2>3 DEF Types
  <2>5. HeldLive'
    BY <1>2, <1>4, <1>6, <2>2 DEF Inv, HeldLive
  <2>6. AlarmsExact'
    BY <1>2, <1>6 DEF AlarmsExact
  <2>7. Reported' /\ LibcCallsLegal'
    BY <2>2 DEF Reported, LibcCallsLegal
  <2> QED
    BY <2>3, <2>4, <2>5, <2>6, <2>7 DEF Inv
<1>7. CASE part = 3 /\ ~in_use(p)
  <2>1. UNCHANGED <<status, live, list, n_freeb>>
    BY <1>3, <1>7 DEF Free3
  <2>2. Types'
    BY <1>1, <1>2, <2>1 DEF Types
  <2>3. HeldLive' /\ Tracked' /\ Complete' /\ Balanced'
    BY <1>2, <1>7, <2>1 DEF Inv, HeldLive, Tracked, Complete, Balanced
  <2>4. AlarmsExact'
    BY <1>1, <1>2, <1>7, NotInUse DEF AlarmsExact
  <2>5. Reported' /\ LibcCallsLegal'
    BY <2>1 DEF Reported, LibcCallsLegal
  <2> QED
    BY <2>2, <2>3, <2>4, <2>5 DEF Inv
<1>8. part = 2 => p \in DOMAIN live
  BY DEF Inv, HeldLive
<1>9. part = 3 /\ in_use(p) => p \in DOMAIN live
  BY <1>1, InUseIsLive
<1> QED
  BY <1>1, <1>3, <1>5, <1>6, <1>7, <1>8, <1>9 DEF Free3

(* What fini lists are the items with a count above 0.                     *)
LEMMA NonfreedAre ==
  ASSUME Inv, part # 1, ~failed
  PROVE  nonfreed2 = InUse /\ nonfreed3 = InUse
<1>1. /\ DOMAIN live \subseteq Addr /\ Addr \subseteq Pointers /\ list \in Lists /\ Pointers = Addr \cup {NULL}
      /\ NULL \in Pointers
  BY AddrNotNull DEF Inv, Pointers
<1>2. ASSUME NEW k \in DOMAIN list
      PROVE  /\ list[k].cnt # 0 <=> list[k].cnt > 0
             /\ list[k].cnt # 0 => list[k] \in InUse
  <2> DEFINE p == list[k].ptr
  <2>1. p \in Pointers /\ find(list, p) = list[k] /\ list[k] \in Item
    BY <1>1, ItemFields, FindIs
  <2>2. p # NULL
    <3>1. find(list, NULL) = None
      BY DEF Inv, Complete
    <3>2. list[k] # None
      BY <2>1, PointersNat DEF None
    <3> QED
      BY <2>1, <3>1, <3>2
  <2>3. p \in Addr
    BY <1>1, <2>1, <2>2
  <2>4. /\ list[k].cnt \in Int /\ list[k].cnt >= 0 /\ list[k].cnt <= 1
        /\ list[k].cnt = 1 => p \in DOMAIN live /\ list[k].size = live[p]
    <3>1. list[k].cnt \in Int
      BY ItemFields, <1>1
    <3>2. /\ find(list, p).cnt >= 0 /\ find(list, p).cnt <= 1
          /\ find(list, p).cnt = 1 => p \in DOMAIN live /\ find(list, p).size = live[p]
      BY <2>3 DEF Inv, Tracked, Complete
    <3>3. find(list, p) = list[k]
      BY <2>1
    <3> HIDE DEF p
    <3> QED
      BY <3>1, <3>2, <3>3
  <2>5. list[k].cnt = 1 => list[k] = [ptr |-> p, size |-> live[p], cnt |-> 1]
    BY <2>1, <2>4 DEF Item
  <2> HIDE DEF p
  <2> QED
    BY <2>4, <2>5 DEF InUse
<1>3. ASSUME NEW a \in DOMAIN live
      PROVE  \E k \in DOMAIN list : list[k].cnt # 0 /\ list[k] = [ptr |-> a, size |-> live[a], cnt |-> 1]
  <2>1. a \in Addr /\ a \in Pointers
    BY <1>1
  <2>2. find(list, a).cnt = 1 /\ find(list, a).size = live[a]
    BY <2>1 DEF Inv, Complete, Tracked
  <2>3. find(list, a) # None
    BY <2>2 DEF None
  <2>4. PICK k \in DOMAIN list : list[k].ptr = a
    BY <1>1, <2>1, <2>3, FindIs
  <2>5. find(list, a) = list[k] /\ list[k] \in Item
    BY <1>1, <2>1, <2>4, FindIs, ItemFields
  <2>6. list[k] = [ptr |-> a, size |-> live[a], cnt |-> 1]
    BY <2>2, <2>4, <2>5 DEF Item
  <2>7. list[k].cnt # 0
    BY <2>6
  <2> QED
    BY <2>6, <2>7
<1>4. nonfreed2 \subseteq InUse /\ nonfreed3 \subseteq InUse
  BY <1>2 DEF nonfreed2, nonfreed3
<1>5. InUse \subseteq nonfreed2
  BY <1>3 DEF InUse, nonfreed2
<1>6. InUse \subseteq nonfreed3
  BY <1>2, <1>3 DEF InUse, nonfreed3
<1> QED
  BY <1>4, <1>5, <1>6

LEMMA FiniInv ==
  ASSUME Inv, Fini
  PROVE  Inv'
<1>1. /\ UNCHANGED <<part, list, n_allocb, n_freeb, live, held, grown, failed, moved, alarm>>
      /\ status' \in {"fini", "division by zero"}
      /\ status' = "fini" => \/ part = 1
                             \/ part = 2 /\ Fini2
                             \/ part = 3 /\ Fini3
  BY DEF Fini, tracer, history
<1>2. Types' /\ HeldLive' /\ Tracked' /\ Complete' /\ Balanced' /\ LibcCallsLegal' /\ AlarmsExact'
  BY <1>1 DEF Inv, Types, HeldLive, Tracked, Complete, Balanced, LibcCallsLegal, AlarmsExact
<1>3. Reported'
  <2>1. ASSUME part # 1, ~failed, status' = "fini"
        PROVE  report' = IF n_freeb < n_allocb THEN InUse ELSE {}
    BY <1>1, <2>1, NonfreedAre DEF Fini2, Fini3
  <2>2. InUse' = InUse
    BY <1>1 DEF InUse
  <2> QED
    BY <1>1, <2>1, <2>2 DEF Reported
<1> QED
  BY <1>2, <1>3 DEF Inv

LEMMA CallInv ==
  ASSUME Inv, Call
  PROVE  Inv'
<1>1. status = "run" /\ part' = part
  BY DEF Call
<1>2. \A p \in passed \cup {NULL} : p \in Pointers /\ (part # 3 => p \in held \cup {NULL})
  BY DEF passed, Pointers, Inv, Types
<1>3. CASE \E size \in Sizes : IF part = 1 THEN Malloc1(size) ELSE Malloc(size)
  BY <1>1, <1>3, MallocInv
<1>4. CASE \E p \in passed \cup {NULL}, size \in Sizes : Realloc(p, size)
  <2>1. PICK p \in passed \cup {NULL}, size \in Sizes : Realloc(p, size)
    BY <1>4
  <2>2. p \in Pointers /\ (part # 3 => p \in held \cup {NULL})
    BY <1>2
  <2>3. CASE part = 1 /\ Realloc1(p, size)
    <3>1. part = 1 /\ p \in held \cup {NULL} /\ Realloc1(p, size)
      BY <2>2, <2>3
    <3> QED
      BY <1>1, <3>1, Realloc1Inv
  <2>4. CASE part = 2 /\ Realloc2(p, size)
    <3>1. part = 2 /\ p \in held \cup {NULL} /\ Realloc2(p, size)
      BY <2>2, <2>4
    <3> QED
      BY <1>1, <3>1, Realloc2Inv
  <2>5. CASE part = 3 /\ Realloc3(p, size)
    BY <1>1, <2>2, <2>5, Realloc3Inv
  <2> QED
    BY <2>1, <2>3, <2>4, <2>5 DEF Realloc
<1>5. CASE \E p \in passed : Free(p)
  <2>1. PICK p \in passed : Free(p)
    BY <1>5
  <2>2. p \in Addr /\ (part # 3 => p \in held)
    BY DEF passed, Inv, Types
  <2> QED
    BY <1>1, <2>1, <2>2, FreeInv
<1> QED
  BY <1>3, <1>4, <1>5 DEF Call

(* The inductive invariant holds.                                          *)
THEOREM MemTraceInvariant == Spec => []Inv
<1>1. Init => Inv
  BY InitInv
<1>2. Inv /\ [Next]_vars => Inv'
  <2>1. Inv /\ UNCHANGED vars => Inv'
    BY DEF vars, tracer, history, Inv, Types, HeldLive, Tracked, Complete, Balanced, Reported, InUse,
           LibcCallsLegal, AlarmsExact
  <2> QED
    BY <2>1, CallInv, FiniInv DEF Next
<1> QED
  BY <1>1, <1>2, PTL DEF Spec

(* No call reaches the library with a pointer that is not of a block in    *)
(* use, but for what part 1's realloc lets happen.                         *)
THEOREM MemTraceLibcCallsLegal == Spec => []LibcCallsLegal
<1>1. Inv => LibcCallsLegal
  BY DEF Inv
<1> QED
  BY <1>1, MemTraceInvariant, PTL

(* Part 3 reports a free or realloc just when it is not of a block in use, *)
(* while the library gives it memory.                                      *)
THEOREM MemTraceAlarmsExact == Spec => []AlarmsExact
<1>1. Inv => AlarmsExact
  BY DEF Inv
<1> QED
  BY <1>1, MemTraceInvariant, PTL

(* While the library gives memory, the bytes not counted as freed are      *)
(* those in use, in part 3 less what blocks have grown by in place; and    *)
(* while anything is left of them, the report is of the blocks in use.     *)
LeaksLessGrowth ==
  part # 1 /\ ~failed =>
     LET counted == Bytes(live) - (IF part = 3 THEN grown ELSE 0)
     IN  /\ n_allocb - n_freeb = counted
         /\ status = "fini" => report = IF counted > 0 THEN InUse ELSE {}

LEMMA InvLeaks == Inv => LeaksLessGrowth
<1> DEFINE counted == Bytes(live) - (IF part = 3 THEN grown ELSE 0)
<1>1. SUFFICES ASSUME Inv, part # 1, ~failed
               PROVE  /\ n_allocb - n_freeb = counted
                      /\ status = "fini" => report = IF counted > 0 THEN InUse ELSE {}
  BY DEF LeaksLessGrowth
<1>2. n_allocb \in Int /\ n_freeb \in Int /\ n_allocb - n_freeb = counted
  BY <1>1 DEF Inv, Types, Balanced
<1> HIDE DEF counted
<1>3. n_freeb < n_allocb <=> counted > 0
  BY <1>2
<1> QED
  BY <1>1, <1>2, <1>3 DEF Inv, Reported

THEOREM MemTraceLeaksLessGrowth == Spec => []LeaksLessGrowth
  BY InvLeaks, MemTraceInvariant, PTL

(* While the library gives memory and, in part 3, no block has grown in    *)
(* place: the bytes not counted as freed are those in use, and the report  *)
(* is of the blocks in use if they have bytes, and of none if they do not. *)
THEOREM MemTraceLeakReportExact == Spec => []LeakReportExact
<1>1. Inv => LeakReportExact
  <2>1. SUFFICES ASSUME Inv, part # 1, ~failed, part = 3 => grown = 0
                 PROVE  /\ n_allocb - n_freeb = Bytes(live)
                        /\ status = "fini" => report = IF Bytes(live) > 0 THEN InUse ELSE {}
    BY DEF LeakReportExact, Bytes, InUse
  <2>2. Bytes(live) \in Nat
    <3>1. live \in Blocks
      BY <2>1 DEF Inv, Types
    <3>2. PICK g \in [SUBSET DOMAIN live -> Nat] : Bytes(live) = g[DOMAIN live]
      BY <3>1, BytesNat
    <3> QED
      BY <3>2
  <2>3. Bytes(live) - (IF part = 3 THEN grown ELSE 0) = Bytes(live)
    BY <2>1, <2>2
  <2> QED
    BY <2>1, <2>3, InvLeaks DEF LeaksLessGrowth
<1> QED
  BY <1>1, MemTraceInvariant, PTL
=============================================================================
