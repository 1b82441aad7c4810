-------------------------- MODULE ProxyCacheProofs --------------------------
(***************************************************************************)
(* Theorems about the workers of the proxy and their cache (module         *)
(* ProxyCache), for any number of workers, uris, sizes and requests.       *)
(***************************************************************************)
EXTENDS ProxyCache, SetInduction, FiniteSetTheorems

At(locs) == {w \in Workers : pc[w] \in locs}
Count(locs) == Cardinality(At(locs))

HoldsR == {"CountIn", "CountOut"} \cup Entering \cup Leaving   \* has r_mutex
Counted == {"CountOut"} \cup Entering \cup Reading             \* is in read_cnt
Inserting == {"Write"} \cup Writing

Types ==
  /\ list \in Seq(Items)
  /\ cache_size \in Nat
  /\ read_cnt \in Nat
  /\ r_mutex \in {0, 1} /\ w_mutex \in {0, 1} /\ u_mutex \in 0 .. SEM_VALUE_MAX
  /\ pc \in [Workers -> Locations]
  /\ req \in [Workers -> [uri : Uris, size : Nat, flag : BOOLEAN, known : BOOLEAN]]

(* r_mutex is a mutex, and read_cnt the number of readers.                 *)
ReadersCounted ==
  /\ \A v, w \in Workers : pc[v] \in HoldsR /\ pc[w] \in HoldsR => v = w
  /\ r_mutex = 1 => \A w \in Workers : pc[w] \notin HoldsR
  /\ read_cnt = Count(Counted)
  /\ \A w \in Workers : /\ pc[w] = "LockWriters" => read_cnt = 1
                        /\ pc[w] = "UnlockWriters" => read_cnt = 0

(* The readers have w_mutex from the first one's P to the last one's V.    *)
ReadersHoldW ==
  \/ \E w \in Workers : pc[w] = "UnlockWriters"
  \/ read_cnt > 0 /\ \A w \in Workers : pc[w] # "LockWriters"

WriterAlone ==
  /\ \A v, w \in Workers : pc[v] \in Writing /\ pc[w] \in Writing => v = w
  /\ \A w \in Workers : pc[w] \in Writing => ~ReadersHoldW
  /\ w_mutex = 1 => ~ReadersHoldW /\ \A w \in Workers : pc[w] \notin Writing

(* What was found when a request began stays in the list; and who passed   *)
(* find then takes flag = 1 along.                                         *)
KnownStays ==
  \A w \in Workers :
     req[w].known =>
        /\ Cached(req[w].uri)
        /\ pc[w] \in {"Leave", "CountOut"} \cup Leaving => req[w].flag
        /\ pc[w] \notin {"Connect", "Fetch"}

(* The list and its size, also while a writer is between the two.          *)
Accounted ==
  /\ cache_size <= MAX_CACHE_SIZE
  /\ (\A w \in Workers : pc[w] # "Account") => TotalSize = cache_size
  /\ \A w \in Workers :
       /\ pc[w] \in Inserting => req[w].size < MAX_OBJECT_SIZE
       /\ pc[w] \in {"Link", "Account"} =>
            cache_size + req[w].size <= MAX_CACHE_SIZE
       /\ pc[w] = "Account" => TotalSize = cache_size + req[w].size
       /\ pc[w] = "Evict" => list # <<>>

Inv == Types /\ ReadersCounted /\ WriterAlone /\ KnownStays /\ Accounted

-----------------------------------------------------------------------------
(* The size of a list.                                                     *)

IsSum(f, items) ==
  \A k \in 0 .. Len(items) :
     f[k] = IF k = 0 THEN 0 ELSE f[k - 1] + items[k].size

LEMMA SumUnique ==
  ASSUME NEW items \in Seq(Items), NEW f, NEW g, IsSum(f, items), IsSum(g, items)
  PROVE  \A k \in 0 .. Len(items) : f[k] = g[k]
<1> DEFINE S == {k \in 0 .. Len(items) : f[k] = g[k]}
           n == Len(items)
<1>1. n \in Nat
  OBVIOUS
<1>2. 0 \in S
  BY <1>1 DEF IsSum
<1>3. ASSUME NEW k \in 0 .. n - 1, k \in S PROVE k + 1 \in S
  <2>1. k + 1 \in 0 .. n /\ k + 1 # 0 /\ (k + 1) - 1 = k
    BY <1>1
  <2>2. f[k + 1] = f[k] + items[k + 1].size /\ g[k + 1] = g[k] + items[k + 1].size
    BY <2>1 DEF IsSum
  <2> QED
    BY <1>3, <2>1, <2>2
<1>4. 0 .. n \subseteq S
  <2> HIDE DEF S, n
  <2> QED
    BY <1>1, <1>2, <1>3, UpTo
<1> QED
  BY <1>4

(* A sum for one list gives one for the list with an item more.            *)
LEMMA SumExtend ==
  ASSUME NEW items \in Seq(Items), NEW it \in Items,
         NEW f \in [0 .. Len(items) -> Nat], IsSum(f, items)
  PROVE  \E g \in [0 .. Len(items) + 1 -> Nat] :
            IsSum(g, Append(items, it)) /\ g[Len(items) + 1] = f[Len(items)] + it.size
<1> DEFINE n == Len(items)
           g == [k \in 0 .. n + 1 |-> IF k = n + 1 THEN f[n] + it.size ELSE f[k]]
<1>1. n \in Nat /\ f[n] \in Nat /\ it.size \in Nat
  BY DEF Items
<1>2. Len(Append(items, it)) = n + 1 /\ Append(items, it)[n + 1] = it
  OBVIOUS
<1>3. \A k \in 1 .. n : Append(items, it)[k] = items[k]
  OBVIOUS
<1>4. g \in [0 .. n + 1 -> Nat]
  BY <1>1
<1>5. ASSUME NEW k \in 0 .. n + 1
      PROVE  g[k] = IF k = 0 THEN 0 ELSE g[k - 1] + Append(items, it)[k].size
  <2>1. CASE k = 0
    BY <1>1, <2>1 DEF IsSum
  <2>2. CASE k \in 1 .. n
    BY <1>1, <1>3, <2>2 DEF IsSum
  <2>3. CASE k = n + 1
    BY <1>1, <1>2, <2>3
  <2> QED
    BY <1>1, <2>1, <2>2, <2>3
<1>6. IsSum(g, Append(items, it))
  BY <1>2, <1>5 DEF IsSum
<1> QED
  BY <1>1, <1>4, <1>6

LEMMA SumExists ==
  ASSUME NEW items \in Seq(Items)
  PROVE  \E f \in [0 .. Len(items) -> Nat] : IsSum(f, items)
<1> DEFINE upTo(n) == [i \in 1 .. n |-> items[i]]
           S == {n \in 0 .. Len(items) : \E f \in [0 .. n -> Nat] : IsSum(f, upTo(n))}
<1>1. ASSUME NEW n \in 0 .. Len(items)
      PROVE  upTo(n) \in Seq(Items) /\ Len(upTo(n)) = n
  OBVIOUS
<1>2. 0 \in S
  <2> DEFINE z == [k \in 0 .. 0 |-> 0]
  <2>1. z \in [0 .. 0 -> Nat] /\ Len(upTo(0)) = 0
    OBVIOUS
  <2>2. IsSum(z, upTo(0))
    BY <2>1 DEF IsSum
  <2> QED
    BY <2>1, <2>2
<1>3. ASSUME NEW n \in 0 .. Len(items) - 1, n \in S PROVE n + 1 \in S
  <2>1. PICK f \in [0 .. n -> Nat] : IsSum(f, upTo(n))
    BY <1>3
  <2>2. upTo(n) \in Seq(Items) /\ Len(upTo(n)) = n /\ items[n + 1] \in Items
    BY <1>1
  <2>3. upTo(n + 1) = Append(upTo(n), items[n + 1])
    OBVIOUS
  <2>4. \E g \in [0 .. n + 1 -> Nat] : IsSum(g, upTo(n + 1))
    <3> HIDE DEF upTo
    <3> QED
      BY <2>1, <2>2, <2>3, SumExtend
  <2>5. n + 1 \in 0 .. Len(items)
    OBVIOUS
  <2> QED
    BY <2>4, <2>5
<1>4. 0 .. Len(items) \subseteq S
  <2>1. Len(items) \in Nat
    OBVIOUS
  <2> HIDE DEF S
  <2> QED
    BY <1>2, <1>3, <2>1, UpTo
<1>5. upTo(Len(items)) = items
  OBVIOUS
<1> QED
  BY <1>4, <1>5

LEMMA TotalIsSum ==
  ASSUME NEW items \in Seq(Items),
         NEW f \in [0 .. Len(items) -> Nat], IsSum(f, items)
  PROVE  Total(items) = f[Len(items)]
<1> DEFINE n == Len(items)
           Is(g) == g = [k \in 0 .. n |-> IF k = 0 THEN 0 ELSE g[k - 1] + items[k].size]
           sum == CHOOSE g : Is(g)
<1>1. Total(items) = sum[n]
  BY DEF Total
<1>2. Is(f)
  BY DEF IsSum
<1>3. Is(sum)
  <2> HIDE DEF Is
  <2> QED
    BY <1>2
<1>4. IsSum(sum, items)
  <2>1. \A k \in 0 .. n : sum[k] = IF k = 0 THEN 0 ELSE sum[k - 1] + items[k].size
    <3> HIDE DEF sum
    <3> QED
      BY <1>3
  <2> HIDE DEF sum
  <2> QED
    BY <2>1 DEF IsSum
<1>5. n \in 0 .. n
  OBVIOUS
<1> HIDE DEF sum
<1> QED
  BY <1>1, <1>4, <1>5, SumUnique

LEMMA TotalEmpty == Total(<<>>) = 0
<1>1. <<>> \in Seq(Items) /\ Len(<<>>) = 0
  OBVIOUS
<1>2. PICK f \in [0 .. Len(<<>>) -> Nat] : IsSum(f, <<>>)
  BY <1>1, SumExists
<1>3. Total(<<>>) = f[0]
  BY <1>1, <1>2, TotalIsSum
<1> QED
  BY <1>1, <1>2, <1>3 DEF IsSum

LEMMA TotalAppend ==
  ASSUME NEW items \in Seq(Items), NEW it \in Items
  PROVE  Total(Append(items, it)) = Total(items) + it.size
<1>1. PICK f \in [0 .. Len(items) -> Nat] : IsSum(f, items)
  BY SumExists
<1>2. PICK g \in [0 .. Len(items) + 1 -> Nat] :
             /\ IsSum(g, Append(items, it))
             /\ g[Len(items) + 1] = f[Len(items)] + it.size
  BY <1>1, SumExtend
<1>3. Append(items, it) \in Seq(Items) /\ Len(Append(items, it)) = Len(items) + 1
  OBVIOUS
<1>4. Total(items) = f[Len(items)] /\ Total(Append(items, it)) = g[Len(items) + 1]
  BY <1>1, <1>2, <1>3, TotalIsSum
<1> QED
  BY <1>2, <1>4

-----------------------------------------------------------------------------
(* How a step of one worker changes the counts.                            *)

LEMMA CountNat ==
  ASSUME NEW L
  PROVE  IsFiniteSet(At(L)) /\ Count(L) \in Nat /\ Count(L) <= Cardinality(Workers)
<1>1. At(L) \subseteq Workers
  BY DEF At
<1> QED
  BY <1>1, CacheAssumption, FS_Subset, FS_CardinalityType DEF Count

LEMMA CountSame ==
  ASSUME NEW L, NEW w \in Workers, NEW from, NEW to,
         pc \in [Workers -> Locations], go(w, from, to), from \in L <=> to \in L
  PROVE  Count(L)' = Count(L)
<1>1. At(L)' = At(L)
  BY DEF At, go
<1> QED
  BY <1>1 DEF Count

LEMMA CountUp ==
  ASSUME NEW L, NEW w \in Workers, NEW from, NEW to,
         pc \in [Workers -> Locations], go(w, from, to), from \notin L, to \in L
  PROVE  Count(L)' = Count(L) + 1
<1>1. At(L)' = At(L) \cup {w} /\ w \notin At(L)
  BY DEF At, go
<1>2. IsFiniteSet(At(L))
  BY CountNat
<1> QED
  BY <1>1, <1>2, FS_AddElement DEF Count

LEMMA CountDown ==
  ASSUME NEW L, NEW w \in Workers, NEW from, NEW to,
         pc \in [Workers -> Locations], go(w, from, to), from \in L, to \notin L
  PROVE  Count(L)' = Count(L) - 1
<1>1. At(L)' = At(L) \ {w} /\ w \in At(L)
  BY DEF At, go
<1>2. IsFiniteSet(At(L))
  BY CountNat
<1> QED
  BY <1>1, <1>2, FS_RemoveElement DEF Count

(* Who is counted makes the count positive; two make it two.               *)
LEMMA CountedOne ==
  ASSUME NEW L, NEW w \in Workers, pc[w] \in L
  PROVE  Count(L) > 0
<1>1. IsFiniteSet(At(L)) /\ At(L) # {} /\ Count(L) \in Nat
  BY CountNat DEF At
<1>2. Count(L) # 0
  BY <1>1, FS_EmptySet DEF Count
<1> QED
  BY <1>1, <1>2

LEMMA CountedTwo ==
  ASSUME NEW L, NEW v \in Workers, NEW w \in Workers, v # w, pc[v] \in L, pc[w] \in L
  PROVE  Count(L) > 1
<1>1. IsFiniteSet(At(L)) /\ v \in At(L) /\ w \in At(L) \ {v} /\ Count(L) \in Nat
  BY CountNat DEF At
<1>2. /\ IsFiniteSet(At(L) \ {v})
      /\ Cardinality(At(L) \ {v}) = Cardinality(At(L)) - 1
  BY <1>1, FS_RemoveElement
<1>3. Cardinality(At(L) \ {v}) # 0 /\ Cardinality(At(L) \ {v}) \in Nat
  BY <1>1, <1>2, FS_EmptySet, FS_CardinalityType
<1> QED
  BY <1>1, <1>2, <1>3 DEF Count

-----------------------------------------------------------------------------
(* The initial state.                                                      *)

LEMMA InvInit == Init => Inv
<1> SUFFICES ASSUME Init PROVE Inv
  OBVIOUS
<1> USE DEF Init
<1>1. Types
  BY CacheAssumption DEF Types, Locations
<1>2. ReadersCounted
  <2>1. At(Counted) = {}
    BY DEF At, Counted, Entering, Reading
  <2>2. Count(Counted) = 0
    BY <2>1, FS_EmptySet DEF Count
  <2> QED
    BY <2>2 DEF ReadersCounted, HoldsR, Entering, Leaving
<1>3. WriterAlone
  BY DEF WriterAlone, ReadersHoldW, Writing
<1>4. KnownStays
  BY DEF KnownStays
<1>5. Accounted
  BY TotalEmpty, CacheAssumption DEF Accounted, TotalSize, Inserting, Writing
<1> QED
  BY <1>1, <1>2, <1>3, <1>4, <1>5 DEF Inv

-----------------------------------------------------------------------------
(* Steps that leave a part of the invariant alone.                         *)

(* r_mutex is not touched, the worker does not have it, and stays inside   *)
(* or outside of the readers.                                              *)
LEMMA QuietReader ==
  ASSUME Inv, NEW w \in Workers, NEW from, NEW to, go(w, from, to),
         from \notin HoldsR, to \notin HoldsR, from \in Counted <=> to \in Counted,
         UNCHANGED <<read_cnt, r_mutex>>
  PROVE  ReadersCounted'
<1>1. Count(Counted)' = Count(Counted)
  BY CountSame DEF Inv, Types
<1>2. \A v \in Workers : v # w => pc'[v] = pc[v]
  BY DEF Inv, Types, go
<1>3. pc'[w] = to
  BY DEF Inv, Types, go
<1> QED
  BY <1>1, <1>2, <1>3 DEF Inv, ReadersCounted, HoldsR, Entering, Leaving

(* P(r_mutex).                                                             *)
LEMMA TakesR ==
  ASSUME Inv, NEW w \in Workers, NEW from, NEW to, go(w, from, to),
         from \in Counted <=> to \in Counted, to \notin {"LockWriters", "UnlockWriters"},
         P(r_mutex), UNCHANGED read_cnt
  PROVE  ReadersCounted'
<1>1. Count(Counted)' = Count(Counted)
  BY CountSame DEF Inv, Types
<1>2. \A v \in Workers : v # w => pc'[v] = pc[v]
  BY DEF Inv, Types, go
<1>3. pc'[w] = to /\ r_mutex = 1 /\ r_mutex' = 0
  BY DEF Inv, Types, go, P
<1>4. \A v \in Workers : pc[v] \notin HoldsR
  BY <1>3 DEF Inv, ReadersCounted
<1> QED
  BY <1>1, <1>2, <1>3, <1>4 DEF Inv, ReadersCounted, HoldsR, Entering, Leaving

(* Who has r_mutex is alone, and read_cnt is right after its step.         *)
LEMMA AloneR ==
  ASSUME Inv, NEW w \in Workers, pc[w] \in HoldsR
  PROVE  r_mutex = 0 /\ \A v \in Workers : v # w => pc[v] \notin HoldsR
  BY DEF Inv, Types, ReadersCounted

LEMMA InsideR ==
  ASSUME Inv, NEW w \in Workers, NEW from, NEW to, go(w, from, to),
         from \in HoldsR, r_mutex' = IF to \in HoldsR THEN r_mutex ELSE r_mutex + 1,
         read_cnt' = Count(Counted)',
         to = "LockWriters" => read_cnt' = 1, to = "UnlockWriters" => read_cnt' = 0
  PROVE  r_mutex' \in {0, 1} /\ ReadersCounted'
<1>1. r_mutex = 0 /\ \A v \in Workers : v # w => pc[v] \notin HoldsR
  BY AloneR DEF go
<1>2. \A v \in Workers : v # w => pc'[v] = pc[v]
  BY DEF Inv, Types, go
<1>3. pc'[w] = to
  BY DEF Inv, Types, go
<1> QED
  BY <1>1, <1>2, <1>3 DEF ReadersCounted, HoldsR, Entering, Leaving

(* w_mutex and read_cnt are not touched, by no writer.                     *)
LEMMA QuietWriter ==
  ASSUME Inv, NEW w \in Workers, NEW from, NEW to, go(w, from, to),
         {from, to} \cap {"LockWriters", "UnlockWriters"} = {},
         from \in Writing <=> to \in Writing,
         UNCHANGED <<read_cnt, w_mutex>>
  PROVE  WriterAlone'
<1>1. \A v \in Workers : v # w => pc'[v] = pc[v]
  BY DEF Inv, Types, go
<1>2. pc'[w] = to /\ pc[w] = from
  BY DEF Inv, Types, go
<1>3. ReadersHoldW' <=> ReadersHoldW
  BY <1>1, <1>2 DEF ReadersHoldW
<1> QED
  BY <1>1, <1>2, <1>3 DEF Inv, WriterAlone

(* The list may grow, known and uri stay, and flag stays or is set.        *)
LEMMA QuietKnown ==
  ASSUME Inv, NEW w \in Workers, NEW from, NEW to, go(w, from, to),
         list' = list \/ \E it \in Items : list' = Append(list, it),
         \A v \in Workers : /\ req'[v].uri = req[v].uri
                            /\ req'[v].known = req[v].known
                            /\ req[v].flag => req'[v].flag,
         req[w].known =>
            /\ to \notin {"Connect", "Fetch"}
            /\ to \in {"Leave", "CountOut"} \cup Leaving => req'[w].flag
  PROVE  KnownStays'
<1>1. \A v \in Workers : v # w => pc'[v] = pc[v]
  BY DEF Inv, Types, go
<1>2. pc'[w] = to /\ pc[w] = from
  BY DEF Inv, Types, go
<1>3. \A u : Cached(u) => Cached(u)'
  <2>1. CASE list' = list
    BY <2>1 DEF Cached
  <2>2. CASE \E it \in Items : list' = Append(list, it)
    <3>1. \A i \in DOMAIN list : i \in DOMAIN list' /\ list'[i] = list[i]
      BY <2>2 DEF Inv, Types
    <3> QED
      BY <3>1 DEF Cached
  <2> QED
    BY <2>1, <2>2
<1> QED
  BY <1>1, <1>2, <1>3 DEF Inv, KnownStays

(* The list is not touched.                                                *)
LEMMA QuietAccount ==
  ASSUME Inv, NEW w \in Workers, NEW from, NEW to, go(w, from, to),
         UNCHANGED <<list, cache_size>>,
         \A v \in Workers : v # w => req'[v].size = req[v].size,
         from # "Account", to \notin {"Link", "Account", "Evict"},
         to \in Inserting => req'[w].size < MAX_OBJECT_SIZE
  PROVE  Accounted'
<1>1. \A v \in Workers : v # w => pc'[v] = pc[v]
  BY DEF Inv, Types, go
<1>2. pc'[w] = to /\ pc[w] = from
  BY DEF Inv, Types, go
<1>3. TotalSize' = TotalSize
  BY DEF TotalSize
<1> QED
  BY <1>1, <1>2, <1>3 DEF Inv, Accounted

-----------------------------------------------------------------------------
(* The process ends, or nothing happens.                                   *)
LEMMA InvStutter ==
  ASSUME Inv, UNCHANGED <<list, cache_size, read_cnt, r_mutex, w_mutex, u_mutex, pc,
                          req>>
  PROVE  Inv'
  BY DEF Inv, Types, ReadersCounted, WriterAlone, KnownStays, Accounted, Count, At,
         ReadersHoldW, Cached, TotalSize

(* The steps of check_cache.                                               *)

LEMMA InvRequest ==
  ASSUME Inv, NEW w \in Workers, Request(w) PROVE Inv'
<1> USE DEF Request
<1>1. go(w, "Idle", "Enter")
  OBVIOUS
<1>2. Types'
  <2>1. PICK u \in Uris :
          req' = [req EXCEPT ![w] = [uri |-> u, size |-> 0, flag |-> FALSE,
                                     known |-> Cached(u)]]
    OBVIOUS
  <2>2. Cached(u) \in BOOLEAN
    BY DEF Cached
  <2>3. req' \in [Workers -> [uri : Uris, size : Nat, flag : BOOLEAN, known : BOOLEAN]]
    BY <2>1, <2>2 DEF Inv, Types
  <2> QED
    BY <1>1, <2>3 DEF Inv, Types, go, Locations
<1>3. ReadersCounted'
  BY <1>1, QuietReader DEF HoldsR, Counted, Entering, Leaving, Reading
<1>4. WriterAlone'
  BY <1>1, QuietWriter DEF Writing
<1>5. KnownStays'
  <2>1. /\ \A v \in Workers : v # w => pc'[v] = pc[v] /\ req'[v] = req[v]
        /\ pc'[w] = "Enter" /\ req'[w].known = Cached(req'[w].uri)
    BY <1>1 DEF Inv, Types, go
  <2>2. \A u : Cached(u)' <=> Cached(u)
    BY DEF Cached
  <2> QED
    BY <2>1, <2>2 DEF Inv, KnownStays, Leaving
<1>6. Accounted'
  <2>1. \A v \in Workers : v # w => req'[v].size = req[v].size
    BY DEF Inv, Types
  <2> QED
    BY <1>1, <2>1, QuietAccount DEF Inserting, Writing
<1> QED
  BY <1>2, <1>3, <1>4, <1>5, <1>6 DEF Inv

(* P(r_mutex) on the way in and on the way out.                            *)
LEMMA InvLock ==
  ASSUME Inv, NEW w \in Workers, Enter(w) \/ Leave(w) PROVE Inv'
<1>1. PICK from, to :
        /\ <<from, to>> \in {<<"Enter", "CountIn">>, <<"Leave", "CountOut">>}
        /\ go(w, from, to) /\ P(r_mutex)
        /\ UNCHANGED <<list, cache_size, read_cnt, w_mutex, u_mutex, req>>
  BY DEF Enter, Leave
<1>2. Types'
  BY <1>1 DEF Inv, Types, go, Locations, P
<1>3. ReadersCounted'
  BY <1>1, TakesR DEF Counted, Entering, Reading
<1>4. WriterAlone'
  BY <1>1, QuietWriter DEF Writing
<1>5. KnownStays'
  <2>1. pc[w] = from
    BY <1>1 DEF go
  <2>2. req[w].known /\ from = "Leave" => req[w].flag
    BY <2>1 DEF Inv, KnownStays
  <2> QED
    BY <1>1, <2>2, QuietKnown DEF Leaving
<1>6. Accounted'
  BY <1>1, QuietAccount DEF Inserting, Writing
<1> QED
  BY <1>2, <1>3, <1>4, <1>5, <1>6 DEF Inv

LEMMA InvCountIn ==
  ASSUME Inv, NEW w \in Workers, CountIn(w) PROVE Inv'
<1> USE DEF CountIn
<1>1. PICK to : /\ to = IF read_cnt + 1 = 1 THEN "LockWriters" ELSE "Entered"
                /\ go(w, "CountIn", to)
  OBVIOUS
<1>2. Types'
  BY <1>1 DEF Inv, Types, go, Locations, Entering
<1>3. ReadersCounted'
  <2>1. Count(Counted)' = Count(Counted) + 1
    BY <1>1, CountUp DEF Inv, Types, Counted, Entering, Reading
  <2>2. read_cnt' = Count(Counted)' /\ (to = "LockWriters" => read_cnt' = 1)
    BY <1>1, <2>1 DEF Inv, Types, ReadersCounted
  <2> QED
    BY <1>1, <2>2, InsideR DEF HoldsR, Entering
<1>4. WriterAlone'
  <2>1. \A v \in Workers : v # w => pc'[v] = pc[v] /\ pc[v] \notin HoldsR
    BY <1>1, AloneR DEF Inv, Types, go, HoldsR
  <2>2. pc'[w] = to /\ pc[w] = "CountIn"
    BY <1>1 DEF Inv, Types, go
  <2>3. ReadersHoldW' => ReadersHoldW
    BY <1>1, <2>1, <2>2 DEF Inv, Types, ReadersHoldW, HoldsR, Entering, Leaving
  <2> QED
    BY <1>1, <2>1, <2>2, <2>3 DEF Inv, WriterAlone, Writing
<1>5. KnownStays'
  BY <1>1, QuietKnown DEF Leaving
<1>6. Accounted'
  BY <1>1, QuietAccount DEF Inserting, Writing
<1> QED
  BY <1>2, <1>3, <1>4, <1>5, <1>6 DEF Inv

LEMMA InvLockWriters ==
  ASSUME Inv, NEW w \in Workers, LockWriters(w) PROVE Inv'
<1> USE DEF LockWriters
<1>1. go(w, "LockWriters", "Entered")
  OBVIOUS
<1>2. Types'
  BY <1>1 DEF Inv, Types, go, Locations, Entering, P
<1>3. ReadersCounted'
  <2>1. Count(Counted)' = Count(Counted)
    BY <1>1, CountSame DEF Inv, Types, Counted, Entering, Reading
  <2> QED
    BY <1>1, <2>1, InsideR DEF Inv, ReadersCounted, HoldsR, Entering
<1>4. WriterAlone'
  <2>1. w_mutex' = 0 /\ \A v \in Workers : pc[v] \notin Writing
    BY DEF Inv, Types, WriterAlone, P
  <2>2. \A v \in Workers : pc'[v] \notin Writing
    BY <1>1, <2>1 DEF Inv, Types, go, Writing
  <2> QED
    BY <2>1, <2>2 DEF WriterAlone
<1>5. KnownStays'
  BY <1>1, QuietKnown DEF Leaving
<1>6. Accounted'
  BY <1>1, QuietAccount DEF Inserting, Writing
<1> QED
  BY <1>2, <1>3, <1>4, <1>5, <1>6 DEF Inv

(* V(r_mutex) on the way in and on the way out.                            *)
LEMMA InvUnlock ==
  ASSUME Inv, NEW w \in Workers, Entered(w) \/ Left(w) PROVE Inv'
<1>1. PICK from, to :
        /\ \/ from = "Entered" /\ to = "Find"
           \/ from = "Left" /\ to = IF req[w].flag THEN "Idle" ELSE "Connect"
        /\ go(w, from, to) /\ V(r_mutex)
        /\ UNCHANGED <<list, cache_size, read_cnt, w_mutex, u_mutex, req>>
  BY DEF Entered, Left
<1>2. from \in HoldsR /\ to \notin HoldsR /\ (from \in Counted <=> to \in Counted)
  BY <1>1 DEF HoldsR, Counted, Entering, Leaving, Reading
<1>3. r_mutex' \in {0, 1} /\ ReadersCounted'
  <2>1. Count(Counted)' = Count(Counted)
    BY <1>1, <1>2, CountSame DEF Inv, Types
  <2> QED
    BY <1>1, <1>2, <2>1, InsideR DEF Inv, ReadersCounted, V
<1>4. Types'
  BY <1>1, <1>3 DEF Inv, Types, go, Locations, Reading
<1>5. WriterAlone'
  BY <1>1, QuietWriter DEF Writing
<1>6. KnownStays'
  <2>1. pc[w] = from
    BY <1>1 DEF go
  <2>2. req[w].known /\ from = "Left" => req[w].flag
    BY <2>1 DEF Inv, KnownStays, Leaving
  <2> QED
    BY <1>1, <2>2, QuietKnown DEF Leaving
<1>7. Accounted'
  BY <1>1, QuietAccount DEF Inserting, Writing
<1> QED
  BY <1>3, <1>4, <1>5, <1>6, <1>7 DEF Inv

(* Finding the item and sending it, or the end of the process.             *)
LEMMA InvHit ==
  ASSUME Inv, NEW w \in Workers,
         Find(w) \/ LockItem(w) \/ Send(w) \/ UnlockItem(w) \/ UnlockAgain(w)
  PROVE  Inv'
<1> DEFINE ended == UNCHANGED <<list, cache_size, read_cnt, r_mutex, w_mutex, u_mutex, pc, req>>
<1>0. CASE ended
  BY <1>0, InvStutter
<1> SUFFICES ASSUME ~ended PROVE Inv'
  BY <1>0
<1>1. PICK from \in Reading, to \in Reading :
        /\ go(w, from, to)
        /\ from # "Leave"
        /\ from = "Find" => to = IF Cached(req[w].uri) THEN "LockItem" ELSE "Leave"
        /\ from \notin {"Find", "UnlockAgain"} => to # "Leave"
        /\ req' = IF from = "UnlockAgain" THEN [req EXCEPT ![w].flag = TRUE] ELSE req
        /\ u_mutex' \in 0 .. SEM_VALUE_MAX
        /\ UNCHANGED <<list, cache_size, read_cnt, w_mutex, r_mutex>>
  <2>1. CASE Find(w)
    BY <2>1 DEF Find, Reading, Inv, Types
  <2>2. CASE LockItem(w)
    BY <2>2, CacheAssumption DEF LockItem, Reading, P, Inv, Types
  <2>3. CASE Send(w)
    BY <2>3 DEF Send, dies, Reading, Inv, Types
  <2>4. CASE UnlockItem(w)
    <3>1. ~Overflows(w, "UnlockItem")
      BY DEF Overflows, dies
    <3>2. go(w, "UnlockItem", "UnlockAgain") /\ u_mutex' = u_mutex + 1 /\ u_mutex < SEM_VALUE_MAX
          /\ UNCHANGED <<list, cache_size, read_cnt, r_mutex, w_mutex, req>>
      BY <2>4, <3>1 DEF UnlockItem, V
    <3>3. u_mutex' \in 0 .. SEM_VALUE_MAX
      BY <3>2, CacheAssumption DEF Inv, Types
    <3> QED
      BY <3>2, <3>3 DEF Reading
  <2>5. CASE UnlockAgain(w)
    <3>1. ~Overflows(w, "UnlockAgain")
      BY DEF Overflows, dies
    <3>2. go(w, "UnlockAgain", "Leave") /\ u_mutex' = u_mutex + 1 /\ u_mutex < SEM_VALUE_MAX
          /\ req' = [req EXCEPT ![w].flag = TRUE]
          /\ UNCHANGED <<list, cache_size, read_cnt, r_mutex, w_mutex>>
      BY <2>5, <3>1 DEF UnlockAgain, V, setFlag
    <3>3. u_mutex' \in 0 .. SEM_VALUE_MAX
      BY <3>2, CacheAssumption DEF Inv, Types
    <3> QED
      BY <3>2, <3>3 DEF Reading
  <2> QED
    BY <2>1, <2>2, <2>3, <2>4, <2>5
<1>2. Types'
  <2>1. req' \in [Workers -> [uri : Uris, size : Nat, flag : BOOLEAN, known : BOOLEAN]]
    BY <1>1 DEF Inv, Types
  <2>2. pc' \in [Workers -> Locations]
    BY <1>1 DEF Inv, Types, go, Locations
  <2> QED
    BY <1>1, <2>1, <2>2 DEF Inv, Types
<1>3. ReadersCounted'
  BY <1>1, QuietReader DEF HoldsR, Counted, Entering, Leaving, Reading
<1>4. WriterAlone'
  BY <1>1, QuietWriter DEF Writing, Reading
<1>5. KnownStays'
  <2>1. \A v \in Workers : /\ req'[v].uri = req[v].uri
                           /\ req'[v].known = req[v].known
                           /\ req[v].flag => req'[v].flag
    BY <1>1 DEF Inv, Types
  <2>2. req[w].known => Cached(req[w].uri)
    BY DEF Inv, KnownStays
  <2>3. req[w].known /\ to = "Leave" => req'[w].flag
    BY <1>1, <2>2 DEF Inv, Types
  <2>4. to \notin {"Connect", "Fetch", "CountOut"} \cup Leaving
    BY <1>1 DEF Reading, Leaving
  <2> QED
    BY <1>1, <2>1, <2>3, <2>4, QuietKnown
<1>6. Accounted'
  <2>1. \A v \in Workers : req'[v].size = req[v].size
    BY <1>1 DEF Inv, Types
  <2> QED
    BY <1>1, <2>1, QuietAccount DEF Inserting, Writing, Reading
<1> QED
  BY <1>2, <1>3, <1>4, <1>5, <1>6 DEF Inv

LEMMA InvCountOut ==
  ASSUME Inv, NEW w \in Workers, CountOut(w) PROVE Inv'
<1> USE DEF CountOut, lastOut
<1>1. PICK to : /\ to = IF read_cnt - 1 = 0 THEN "UnlockWriters" ELSE "Left"
                /\ go(w, "CountOut", to)
  OBVIOUS
<1>2. /\ read_cnt > 0 /\ read_cnt = Count(Counted)
      /\ \A v \in Workers : v # w => pc'[v] = pc[v] /\ pc[v] \notin HoldsR
      /\ pc'[w] = to /\ pc[w] = "CountOut"
  <2>1. pc[w] = "CountOut" /\ pc[w] \in Counted /\ pc[w] \in HoldsR
    BY <1>1 DEF go, Counted, HoldsR
  <2>2. read_cnt > 0 /\ read_cnt = Count(Counted)
    BY <2>1, CountedOne DEF Inv, ReadersCounted
  <2> QED
    BY <1>1, <2>1, <2>2, AloneR DEF Inv, Types, go
<1>3. Types'
  BY <1>1, <1>2 DEF Inv, Types, go, Locations, Leaving
<1>4. ReadersCounted'
  <2>1. Count(Counted)' = Count(Counted) - 1
    BY <1>1, CountDown DEF Inv, Types, Counted, Entering, Reading
  <2> QED
    BY <1>1, <1>2, <2>1, InsideR DEF Inv, Types, HoldsR, Leaving
<1>5. WriterAlone'
  <2>1. ReadersHoldW
    BY <1>2 DEF ReadersHoldW, HoldsR, Entering
  <2>2. w_mutex = 0 /\ \A v \in Workers : pc[v] \notin Writing
    BY <2>1 DEF Inv, Types, WriterAlone
  <2>3. \A v \in Workers : pc'[v] \notin Writing
    BY <1>1, <1>2, <2>2 DEF Writing
  <2> QED
    BY <2>2, <2>3 DEF WriterAlone
<1>6. KnownStays'
  <2>1. req[w].known => req[w].flag
    BY <1>2 DEF Inv, KnownStays
  <2> QED
    BY <1>1, <2>1, QuietKnown
<1>7. Accounted'
  BY <1>1, QuietAccount DEF Inserting, Writing
<1> QED
  BY <1>3, <1>4, <1>5, <1>6, <1>7 DEF Inv

LEMMA InvUnlockWriters ==
  ASSUME Inv, NEW w \in Workers, UnlockWriters(w) PROVE Inv'
<1> USE DEF UnlockWriters
<1>1. go(w, "UnlockWriters", "Left")
  OBVIOUS
<1>2. /\ \A v \in Workers : v # w => pc'[v] = pc[v] /\ pc[v] \notin HoldsR
      /\ pc'[w] = "Left" /\ pc[w] = "UnlockWriters"
  <2>1. pc[w] = "UnlockWriters" /\ pc[w] \in HoldsR
    BY <1>1 DEF go, HoldsR, Leaving
  <2> QED
    BY <1>1, <2>1, AloneR DEF Inv, Types, go
<1>3. w_mutex = 0 /\ w_mutex' = 1 /\ \A v \in Workers : pc[v] \notin Writing
  <2>1. ReadersHoldW
    BY <1>2 DEF ReadersHoldW
  <2> QED
    BY <2>1 DEF Inv, Types, WriterAlone, V
<1>4. Types'
  BY <1>1, <1>3 DEF Inv, Types, go, Locations, Leaving
<1>5. ReadersCounted'
  <2>1. Count(Counted)' = Count(Counted)
    BY <1>1, CountSame DEF Inv, Types, Counted, Entering, Reading
  <2> QED
    BY <1>1, <2>1, InsideR DEF Inv, ReadersCounted, HoldsR, Leaving
<1>6. WriterAlone'
  <2>1. read_cnt' = 0 /\ \A v \in Workers : pc'[v] # "UnlockWriters"
    BY <1>2 DEF Inv, ReadersCounted, HoldsR, Leaving
  <2>2. ~ReadersHoldW'
    BY <2>1 DEF ReadersHoldW
  <2> QED
    BY <1>2, <1>3, <2>2 DEF WriterAlone, Writing
<1>7. KnownStays'
  <2>1. req[w].known => req[w].flag
    BY <1>2 DEF Inv, KnownStays, Leaving
  <2> QED
    BY <1>1, <2>1, QuietKnown
<1>8. Accounted'
  BY <1>1, QuietAccount DEF Inserting, Writing
<1> QED
  BY <1>4, <1>5, <1>6, <1>7, <1>8 DEF Inv

-----------------------------------------------------------------------------
(* The rest of doit, and cache_URL.                                        *)

LEMMA InvConnect ==
  ASSUME Inv, NEW w \in Workers, go(w, "Connect", "Fetch"),
         UNCHANGED <<list, cache_size, read_cnt, r_mutex, w_mutex, u_mutex, req>>
  PROVE  Inv'
<1>1. Types'
  BY DEF Inv, Types, go, Locations
<1>2. ReadersCounted'
  BY QuietReader DEF HoldsR, Counted, Entering, Leaving, Reading
<1>3. WriterAlone'
  BY QuietWriter DEF Writing
<1>4. KnownStays'
  <2>1. ~req[w].known
    BY DEF Inv, KnownStays, go
  <2> QED
    BY <2>1, QuietKnown
<1>5. Accounted'
  BY QuietAccount DEF Inserting, Writing
<1> QED
  BY <1>1, <1>2, <1>3, <1>4, <1>5 DEF Inv

LEMMA InvFetch ==
  ASSUME Inv, NEW w \in Workers, NEW size \in Sizes,
         go(w, "Fetch", IF Small(size) THEN "Write" ELSE "Idle"),
         req' = [req EXCEPT ![w].size = size],
         UNCHANGED <<list, cache_size, read_cnt, r_mutex, w_mutex, u_mutex>>
  PROVE  Inv'
<1>1. PICK to : /\ to = IF Small(size) THEN "Write" ELSE "Idle"
                /\ go(w, "Fetch", to)
  OBVIOUS
<1>2. size \in Nat
  BY CacheAssumption
<1>3. \A v \in Workers : /\ req'[v].uri = req[v].uri
                         /\ req'[v].known = req[v].known
                         /\ req'[v].flag = req[v].flag
                         /\ req'[v].size = IF v = w THEN size ELSE req[v].size
  BY DEF Inv, Types
<1>4. Types'
  <2>1. req' \in [Workers -> [uri : Uris, size : Nat, flag : BOOLEAN, known : BOOLEAN]]
    BY <1>2 DEF Inv, Types
  <2> QED
    BY <1>1, <2>1 DEF Inv, Types, go, Locations
<1>5. ReadersCounted'
  BY <1>1, QuietReader DEF HoldsR, Counted, Entering, Leaving, Reading
<1>6. WriterAlone'
  BY <1>1, QuietWriter DEF Writing
<1>7. KnownStays'
  BY <1>1, <1>3, QuietKnown DEF Leaving
<1>8. Accounted'
  BY <1>1, <1>3, QuietAccount DEF Inserting, Writing, Small
<1> QED
  BY <1>4, <1>5, <1>6, <1>7, <1>8 DEF Inv

LEMMA InvWrite ==
  ASSUME Inv, NEW w \in Workers, Write(w) PROVE Inv'
<1> USE DEF Write, writeLock
<1>1. go(w, "Write", "MakeRoom")
  OBVIOUS
<1>2. /\ \A v \in Workers : v # w => pc'[v] = pc[v]
      /\ pc'[w] = "MakeRoom" /\ pc[w] = "Write"
  BY <1>1 DEF Inv, Types, go
<1>3. w_mutex = 1 /\ w_mutex' = 0
  BY DEF Inv, Types, P
<1>4. Types'
  BY <1>1, <1>3 DEF Inv, Types, go, Locations, Writing
<1>5. ReadersCounted'
  BY <1>1, QuietReader DEF HoldsR, Counted, Entering, Leaving, Reading
<1>6. WriterAlone'
  <2>1. ~ReadersHoldW /\ \A v \in Workers : pc[v] \notin Writing
    BY <1>3 DEF Inv, WriterAlone
  <2>2. ~ReadersHoldW'
    BY <1>2, <2>1 DEF ReadersHoldW
  <2> QED
    BY <1>2, <1>3, <2>1, <2>2 DEF WriterAlone
<1>7. KnownStays'
  BY <1>1, QuietKnown DEF Leaving
<1>8. Accounted'
  <2>1. req[w].size < MAX_OBJECT_SIZE
    BY <1>2 DEF Inv, Accounted, Inserting
  <2> QED
    BY <1>1, <2>1, QuietAccount
<1> QED
  BY <1>4, <1>5, <1>6, <1>7, <1>8 DEF Inv

(* While a writer is at work, no other one is.                             *)
LEMMA AloneW ==
  ASSUME Inv, NEW w \in Workers, pc[w] \in Writing
  PROVE  /\ w_mutex = 0 /\ ~ReadersHoldW
         /\ \A v \in Workers : v # w => pc[v] \notin Writing
  BY DEF Inv, Types, WriterAlone

(* What an object needs that is not larger than the limit is there, or     *)
(* there is something in the list.                                         *)
LEMMA InvMakeRoom ==
  ASSUME Inv, NEW w \in Workers, MakeRoom(w) PROVE Inv'
<1> USE DEF MakeRoom
<1>1. PICK to : /\ to = IF fits(req[w].size) THEN "Link" ELSE "Evict"
                /\ go(w, "MakeRoom", to)
  OBVIOUS
<1>2. /\ \A v \in Workers : v # w => pc'[v] = pc[v] /\ pc[v] \notin Writing
      /\ pc'[w] = to /\ pc[w] = "MakeRoom"
  <2>1. pc[w] = "MakeRoom" /\ pc[w] \in Writing
    BY <1>1 DEF go, Writing
  <2> QED
    BY <1>1, <2>1, AloneW DEF Inv, Types, go
<1>3. Types'
  BY <1>1 DEF Inv, Types, go, Locations, Writing
<1>4. ReadersCounted'
  BY <1>1, QuietReader DEF HoldsR, Counted, Entering, Leaving, Reading
<1>5. WriterAlone'
  BY <1>1, QuietWriter DEF Writing
<1>6. KnownStays'
  BY <1>1, QuietKnown DEF Leaving
<1>7. TotalSize = cache_size /\ TotalSize' = TotalSize
  BY <1>2 DEF Inv, Accounted, Writing, TotalSize
<1>8. req[w].size \in Nat /\ req[w].size < MAX_OBJECT_SIZE
  BY <1>2 DEF Inv, Types, Accounted, Inserting, Writing
<1>9. ~fits(req[w].size) => list # <<>>
  <2>1. SUFFICES ASSUME list = <<>>, ~fits(req[w].size) PROVE FALSE
    OBVIOUS
  <2>2. cache_size = 0
    BY <1>7, <2>1, TotalEmpty DEF TotalSize
  <2> QED
    BY <1>8, <2>1, <2>2, CacheAssumption DEF fits
<1>10. Accounted'
  BY <1>1, <1>2, <1>7, <1>8, <1>9 DEF Inv, Accounted, Inserting, Writing, fits
<1> QED
  BY <1>3, <1>4, <1>5, <1>6, <1>10 DEF Inv

LEMMA InvLink ==
  ASSUME Inv, NEW w \in Workers, Link(w) PROVE Inv'
<1> USE DEF Link
<1>1. go(w, "Link", "Account")
  OBVIOUS
<1>2. /\ \A v \in Workers : v # w => pc'[v] = pc[v] /\ pc[v] \notin Writing
      /\ pc'[w] = "Account" /\ pc[w] = "Link"
  <2>1. pc[w] = "Link" /\ pc[w] \in Writing
    BY <1>1 DEF go, Writing
  <2> QED
    BY <1>1, <2>1, AloneW DEF Inv, Types, go
<1>3. PICK it \in Items : list' = Append(list, it) /\ it.size = req[w].size
  <2>1. req[w].uri \in Uris /\ req[w].size \in Nat
    BY DEF Inv, Types
  <2> QED
    BY <2>1 DEF Items
<1>4. Types'
  BY <1>1, <1>3 DEF Inv, Types, go, Locations, Writing
<1>5. ReadersCounted'
  BY <1>1, QuietReader DEF HoldsR, Counted, Entering, Leaving, Reading
<1>6. WriterAlone'
  BY <1>1, QuietWriter DEF Writing
<1>7. KnownStays'
  BY <1>1, <1>3, QuietKnown DEF Leaving
<1>8. Accounted'
  <2>1. TotalSize = cache_size
    BY <1>2 DEF Inv, Accounted, Writing
  <2>2. TotalSize' = cache_size + req[w].size
    BY <1>3, <2>1, TotalAppend DEF Inv, Types, TotalSize
  <2>3. /\ cache_size <= MAX_CACHE_SIZE /\ cache_size + req[w].size <= MAX_CACHE_SIZE
        /\ req[w].size < MAX_OBJECT_SIZE
    BY <1>2 DEF Inv, Accounted, Inserting, Writing
  <2>4. \A v \in Workers : v # w /\ pc[v] \in Inserting => req[v].size < MAX_OBJECT_SIZE
    BY DEF Inv, Accounted
  <2> QED
    BY <1>2, <2>2, <2>3, <2>4 DEF Accounted, Writing
<1> QED
  BY <1>4, <1>5, <1>6, <1>7, <1>8 DEF Inv

LEMMA InvAccount ==
  ASSUME Inv, NEW w \in Workers, Account(w) PROVE Inv'
<1> USE DEF Account
<1>1. go(w, "Account", "Written")
  OBVIOUS
<1>2. /\ \A v \in Workers : v # w => pc'[v] = pc[v] /\ pc[v] \notin Writing
      /\ pc'[w] = "Written" /\ pc[w] = "Account"
  <2>1. pc[w] = "Account" /\ pc[w] \in Writing
    BY <1>1 DEF go, Writing
  <2> QED
    BY <1>1, <2>1, AloneW DEF Inv, Types, go
<1>3. Types'
  BY <1>1, <1>2 DEF Inv, Types, go, Locations, Writing
<1>4. ReadersCounted'
  BY <1>1, QuietReader DEF HoldsR, Counted, Entering, Leaving, Reading
<1>5. WriterAlone'
  BY <1>1, QuietWriter DEF Writing
<1>6. KnownStays'
  BY <1>1, QuietKnown DEF Leaving
<1>7. Accounted'
  <2>1. TotalSize' = cache_size'
    BY <1>2 DEF Inv, Accounted, TotalSize
  <2>2. cache_size' <= MAX_CACHE_SIZE
    BY <1>2 DEF Inv, Accounted
  <2>3. \A v \in Workers : pc'[v] \in Inserting => req[v].size < MAX_OBJECT_SIZE
    BY <1>2 DEF Inv, Accounted, Inserting, Writing
  <2> QED
    BY <1>2, <2>1, <2>2, <2>3 DEF Accounted, Writing
<1> QED
  BY <1>3, <1>4, <1>5, <1>6, <1>7 DEF Inv

LEMMA InvWritten ==
  ASSUME Inv, NEW w \in Workers, Written(w) PROVE Inv'
<1> USE DEF Written
<1>1. go(w, "Written", "Idle")
  OBVIOUS
<1>2. /\ w_mutex = 0 /\ w_mutex' = 1 /\ ~ReadersHoldW
      /\ \A v \in Workers : v # w => pc'[v] = pc[v] /\ pc[v] \notin Writing
      /\ pc'[w] = "Idle" /\ pc[w] = "Written"
  <2>1. pc[w] = "Written" /\ pc[w] \in Writing
    BY <1>1 DEF go, Writing
  <2> QED
    BY <1>1, <2>1, AloneW DEF Inv, Types, go, V
<1>3. Types'
  BY <1>1, <1>2 DEF Inv, Types, go, Locations
<1>4. ReadersCounted'
  BY <1>1, QuietReader DEF HoldsR, Counted, Entering, Leaving, Reading
<1>5. WriterAlone'
  <2>1. ~ReadersHoldW'
    BY <1>2 DEF ReadersHoldW
  <2> QED
    BY <1>2, <2>1 DEF WriterAlone, Writing
<1>6. KnownStays'
  BY <1>1, QuietKnown DEF Leaving
<1>7. Accounted'
  BY <1>1, QuietAccount DEF Inserting, Writing
<1> QED
  BY <1>3, <1>4, <1>5, <1>6, <1>7 DEF Inv

LEMMA InvNext == Inv /\ [Next]_vars => Inv'
<1> SUFFICES ASSUME Inv, [Next]_vars PROVE Inv'
  OBVIOUS
<1>1. CASE UNCHANGED vars
  BY <1>1, InvStutter DEF vars
<1>2. ASSUME NEW w \in Workers, Local(w) PROVE Inv'
  <2>1. CASE Evict(w)
    BY <2>1, InvStutter DEF Evict, dies
  <2> QED
    BY <1>2, <2>1, InvLock, InvCountIn, InvLockWriters, InvUnlock, InvHit, InvCountOut,
       InvUnlockWriters, InvWrite, InvMakeRoom, InvLink, InvAccount, InvWritten
       DEF Local
<1>3. ASSUME NEW w \in Workers, Connect(w) PROVE Inv'
  BY <1>3, InvConnect, InvStutter DEF Connect, dies
<1>4. ASSUME NEW w \in Workers, Fetch(w) PROVE Inv'
  BY <1>4, InvFetch, InvStutter DEF Fetch, dies
<1> QED
  BY <1>1, <1>2, <1>3, <1>4, InvRequest, InvHit DEF Next

-----------------------------------------------------------------------------
(* The theorems.                                                           *)

(* What the proofs below rest on holds always.                             *)
THEOREM CacheInvariant == Spec => []Inv
  BY InvInit, InvNext, PTL DEF Spec

(* Types; read_cnt, r_mutex and w_mutex stay within their bounds: no       *)
(* interleaving of check_cache and cache_URL raises a mutex above 1.       *)
THEOREM CacheType == Spec => []TypeOK
<1>1. Inv => TypeOK
  BY CountNat DEF Inv, Types, ReadersCounted, TypeOK
<1> QED
  BY <1>1, CacheInvariant, PTL

(* A writer in cache_URL has the list for itself.                          *)
THEOREM CacheWritersExclusive == Spec => []WritersExclusive
<1>1. Inv => WritersExclusive
  <2>1. SUFFICES ASSUME Inv, NEW v \in Workers, NEW w \in Workers,
                        pc[v] \in Writing, v # w
                 PROVE  pc[w] \notin Reading \cup Writing \cup {"CountOut"}
    BY DEF WritersExclusive
  <2>2. pc[w] \notin Writing /\ ~ReadersHoldW
    BY <2>1 DEF Inv, WriterAlone
  <2>3. SUFFICES ASSUME pc[w] \in Reading \cup {"CountOut"} PROVE FALSE
    BY <2>2
  <2>4. pc[w] \in Counted /\ pc[w] # "LockWriters"
    BY <2>3 DEF Counted, Reading
  <2>5. read_cnt = Count(Counted) /\ read_cnt > 0
    BY <2>1, <2>4, CountedOne DEF Inv, ReadersCounted
  <2>6. PICK u \in Workers : pc[u] = "LockWriters"
    BY <2>2, <2>5 DEF ReadersHoldW
  <2>7. pc[u] \in Counted /\ u # w /\ read_cnt = 1
    BY <2>1, <2>4, <2>6 DEF Inv, ReadersCounted, Counted, Entering
  <2>8. read_cnt > 1
    BY <2>4, <2>5, <2>7, CountedTwo
  <2> QED
    BY <2>7, <2>8
<1> QED
  BY <1>1, CacheInvariant, PTL

(* cache_size is the size of the list, and within the limit, except        *)
(* between the two assignments of a writer.                                *)
THEOREM CacheSizeAccounted == Spec => []SizeAccounted
<1>1. Inv => SizeAccounted
  BY DEF Inv, Accounted, SizeAccounted
<1> QED
  BY <1>1, CacheInvariant, PTL

(* evict is only called with something in the list, because no object that *)
(* reaches cache_URL is larger than the whole cache.                       *)
THEOREM CacheEvictHasVictim == Spec => []EvictHasVictim
<1>1. Inv => EvictHasVictim
  BY DEF Inv, Accounted, EvictHasVictim
<1> QED
  BY <1>1, CacheInvariant, PTL

(* A request for what was in the cache when it began never goes to the     *)
(* server.                                                                 *)
THEOREM CacheKnownIsHit == Spec => []KnownIsHit
<1>1. Inv => KnownIsHit
  BY DEF Inv, KnownStays, KnownIsHit
<1> QED
  BY <1>1, CacheInvariant, PTL
=============================================================================
