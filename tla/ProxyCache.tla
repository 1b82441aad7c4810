----------------------------- MODULE ProxyCache -----------------------------
(***************************************************************************)
(* The workers of the proxy (src/sp_06_proxylab/proxylab-handout/proxy.c)  *)
(* in doit, and the cache they share: check_cache, cache_URL, evict, find. *)
(* A worker takes its steps in the order of the code, one for each P, V,   *)
(* access to shared state and blocking call; the name of a location is     *)
(* that of the action that leaves it.                                      *)
(*                                                                         *)
(* Objects are their sizes.  The list is the sequence of the items behind  *)
(* the sentinel that cache_init puts at its head.                          *)
(***************************************************************************)
EXTENDS Semaphore, Sequences, FiniteSets

CONSTANTS
  Workers,          \* NTHREADS threads
  Uris,
  Sizes,            \* sizes of the objects that servers have
  MAX_CACHE_SIZE,
  MAX_OBJECT_SIZE,
  SEM_VALUE_MAX     \* the greatest value of a semaphore

ASSUME CacheAssumption ==
  /\ IsFiniteSet(Workers)
  /\ Sizes \subseteq Nat
  /\ MAX_CACHE_SIZE \in Nat /\ MAX_OBJECT_SIZE \in Nat
  /\ MAX_OBJECT_SIZE <= MAX_CACHE_SIZE
  /\ SEM_VALUE_MAX \in Nat \ {0}

VARIABLES
  list, cache_size,           \* the cache
  read_cnt,                   \* readers in check_cache
  r_mutex, w_mutex, u_mutex,  \* semaphores
  pc,                         \* worker -> where it is
  req,                        \* worker -> its request: see Request
  status                      \* "up", or how the proxy ended

cacheVars == <<list, cache_size>>
lockVars == <<read_cnt, r_mutex, w_mutex, u_mutex>>
vars == <<list, cache_size, read_cnt, r_mutex, w_mutex, u_mutex, pc, req,
          status>>

Items == [uri : Uris, size : Nat]

go(w, from, to) == /\ status = "up"
                   /\ pc[w] = from
                   /\ pc' = [pc EXCEPT ![w] = to]

dies(how) == /\ status' = how
             /\ UNCHANGED <<list, cache_size, read_cnt, r_mutex, w_mutex,
                            u_mutex, pc, req>>

-----------------------------------------------------------------------------
(* find                                                                    *)
Cached(u) == \E i \in DOMAIN list : list[i].uri = u

(* doit reads a GET for u.  (Any other method ends doit at once.)  known   *)
(* is history: was u in the cache when the request began?                  *)
Request(w) ==
  /\ go(w, "Idle", "Enter")
  /\ \E u \in Uris :
        req' = [req EXCEPT ![w] = [uri |-> u, size |-> 0, flag |-> FALSE,
                                   known |-> Cached(u)]]
  /\ UNCHANGED <<list, cache_size, read_cnt, r_mutex, w_mutex, u_mutex, status>>

-----------------------------------------------------------------------------
(* check_cache: the first reader in locks writers out, ...                 *)
Enter(w) ==
  /\ go(w, "Enter", "CountIn")
  /\ P(r_mutex)
  /\ UNCHANGED <<list, cache_size, read_cnt, w_mutex, u_mutex, req, status>>

CountIn(w) ==
  /\ go(w, "CountIn", IF read_cnt + 1 = 1 THEN "LockWriters" ELSE "Entered")
  /\ read_cnt' = read_cnt + 1
  /\ UNCHANGED <<list, cache_size, r_mutex, w_mutex, u_mutex, req, status>>

LockWriters(w) ==
  /\ go(w, "LockWriters", "Entered")
  /\ P(w_mutex)
  /\ UNCHANGED <<list, cache_size, read_cnt, r_mutex, u_mutex, req, status>>

Entered(w) ==
  /\ go(w, "Entered", "Find")
  /\ V(r_mutex)
  /\ UNCHANGED <<list, cache_size, read_cnt, w_mutex, u_mutex, req, status>>

(* ... a hit is sent under u_mutex, which V is called on twice, ...        *)
Find(w) ==
  /\ go(w, "Find", IF Cached(req[w].uri) THEN "LockItem" ELSE "Leave")
  /\ UNCHANGED <<list, cache_size, read_cnt, r_mutex, w_mutex, u_mutex, req,
                 status>>

LockItem(w) ==
  /\ go(w, "LockItem", "Send")
  /\ P(u_mutex)
  /\ UNCHANGED <<list, cache_size, read_cnt, r_mutex, w_mutex, req, status>>

(* rio_writen, and access_time = clock(), which only evict looks at.  It   *)
(* takes as long as the client likes, and SIGPIPE ends the process when    *)
(* the client is gone.                                                     *)
Send(w) ==
  \/ /\ go(w, "Send", "UnlockItem")
     /\ UNCHANGED <<list, cache_size, read_cnt, r_mutex, w_mutex, u_mutex, req,
                    status>>
  \/ /\ status = "up" /\ pc[w] = "Send"
     /\ dies("broken pipe")

(* u_mutex gains 1 with each hit: in the end sem_post fails, and its       *)
(* wrapper ends the process.  No other semaphore gets past 1.              *)
Overflows(w, at) == /\ status = "up" /\ pc[w] = at
                    /\ u_mutex = SEM_VALUE_MAX
                    /\ dies("V error")

UnlockItem(w) ==
  \/ Overflows(w, "UnlockItem")
  \/ /\ u_mutex < SEM_VALUE_MAX
     /\ go(w, "UnlockItem", "UnlockAgain")
     /\ V(u_mutex)
     /\ UNCHANGED <<list, cache_size, read_cnt, r_mutex, w_mutex, req, status>>

(* (The mistake forgets flag = 1.)                                         *)
forgetFlag(w) == UNCHANGED req
setFlag(w) == req' = [req EXCEPT ![w].flag = TRUE]
UnlockAgain(w) ==
  \/ Overflows(w, "UnlockAgain")
  \/ /\ u_mutex < SEM_VALUE_MAX
     /\ go(w, "UnlockAgain", "Leave")
     /\ setFlag(w)
     /\ V(u_mutex)
     /\ UNCHANGED <<list, cache_size, read_cnt, r_mutex, w_mutex, status>>

(* ... and the last reader out lets writers in.                            *)
Leave(w) ==
  /\ go(w, "Leave", "CountOut")
  /\ P(r_mutex)
  /\ UNCHANGED <<list, cache_size, read_cnt, w_mutex, u_mutex, req, status>>

(* The mistake is to test before counting.                                 *)
lastBefore(w) == read_cnt = 0
lastOut(w) == read_cnt - 1 = 0
CountOut(w) ==
  /\ go(w, "CountOut", IF lastOut(w) THEN "UnlockWriters" ELSE "Left")
  /\ read_cnt' = read_cnt - 1
  /\ UNCHANGED <<list, cache_size, r_mutex, w_mutex, u_mutex, req, status>>

UnlockWriters(w) ==
  /\ go(w, "UnlockWriters", "Left")
  /\ V(w_mutex)
  /\ UNCHANGED <<list, cache_size, read_cnt, r_mutex, u_mutex, req, status>>

Left(w) ==
  /\ go(w, "Left", IF req[w].flag THEN "Idle" ELSE "Connect")
  /\ V(r_mutex)
  /\ UNCHANGED <<list, cache_size, read_cnt, w_mutex, u_mutex, req, status>>

-----------------------------------------------------------------------------
(* Open_clientfd; its wrapper ends the process when there is no server.    *)
Connect(w) ==
  \/ /\ go(w, "Connect", "Fetch")
     /\ UNCHANGED <<list, cache_size, read_cnt, r_mutex, w_mutex, u_mutex, req,
                    status>>
  \/ /\ status = "up" /\ pc[w] = "Connect"
     /\ dies("no server")

(* The object goes from server to client, and to the cache if it is small; *)
(* an error on either connection ends the process.  The mistake caches     *)
(* whatever comes.                                                         *)
AnySize(size) == TRUE
Small(size) == size < MAX_OBJECT_SIZE
Fetch(w) ==
  \/ \E size \in Sizes :
        /\ go(w, "Fetch", IF Small(size) THEN "Write" ELSE "Idle")
        /\ req' = [req EXCEPT ![w].size = size]
        /\ UNCHANGED <<list, cache_size, read_cnt, r_mutex, w_mutex, u_mutex,
                       status>>
  \/ /\ status = "up" /\ pc[w] = "Fetch"
     /\ dies("i/o error")

(* cache_URL                                                               *)
writeNothing(w) == UNCHANGED w_mutex
writeLock(w) == P(w_mutex)
Write(w) ==
  /\ go(w, "Write", "MakeRoom")
  /\ writeLock(w)
  /\ UNCHANGED <<list, cache_size, read_cnt, r_mutex, u_mutex, req, status>>

(* The mistake looks at what is there only.                                *)
fitsNow(size) == cache_size <= MAX_CACHE_SIZE
fits(size) == cache_size + size <= MAX_CACHE_SIZE
MakeRoom(w) ==
  /\ go(w, "MakeRoom", IF fits(req[w].size) THEN "Link" ELSE "Evict")
  /\ UNCHANGED <<list, cache_size, read_cnt, r_mutex, w_mutex, u_mutex, req,
                 status>>

(* evict: the item with the least access_time (any item: time is left out) *)
(* is unlinked and freed.  No item at all is a NULL dereference at line    *)
(* 314, the last item is one at line 330, and of any other item the uri is *)
(* freed after the item, which malloc did not give out: free aborts.       *)
evictEnds == IF list = <<>> THEN {"nothing to evict"}
             ELSE {"evicted the tail"} \cup
                  (IF Len(list) > 1 THEN {"free aborted"} ELSE {})
Evict(w) ==
  /\ status = "up" /\ pc[w] = "Evict"
  /\ \E how \in evictEnds : dies(how)

Link(w) ==
  /\ go(w, "Link", "Account")
  /\ list' = Append(list, [uri |-> req[w].uri, size |-> req[w].size])
  /\ UNCHANGED <<cache_size, read_cnt, r_mutex, w_mutex, u_mutex, req, status>>

Account(w) ==
  /\ go(w, "Account", "Written")
  /\ cache_size' = cache_size + req[w].size
  /\ UNCHANGED <<list, read_cnt, r_mutex, w_mutex, u_mutex, req, status>>

Written(w) ==
  /\ go(w, "Written", "Idle")
  /\ V(w_mutex)
  /\ UNCHANGED <<list, cache_size, read_cnt, r_mutex, u_mutex, req, status>>

-----------------------------------------------------------------------------
(* cache_init; what is on the stack of a new worker does not matter.       *)
Init ==
  /\ list = <<>> /\ cache_size = 0
  /\ read_cnt = 0
  /\ r_mutex = 1 /\ w_mutex = 1 /\ u_mutex = 1
  /\ pc = [w \in Workers |-> "Idle"]
  /\ \E u \in Uris :
        req = [w \in Workers |-> [uri |-> u, size |-> 0, flag |-> FALSE,
                                  known |-> FALSE]]
  /\ status = "up"

(* What a worker does without waiting for a client or a server.            *)
Local(w) ==
  \/ Enter(w) \/ CountIn(w) \/ LockWriters(w) \/ Entered(w) \/ Find(w)
  \/ LockItem(w) \/ UnlockItem(w) \/ UnlockAgain(w)
  \/ Leave(w) \/ CountOut(w) \/ UnlockWriters(w) \/ Left(w)
  \/ Write(w) \/ MakeRoom(w) \/ Evict(w) \/ Link(w) \/ Account(w) \/ Written(w)

Next == \E w \in Workers :
          Request(w) \/ Send(w) \/ Connect(w) \/ Fetch(w) \/ Local(w)

Spec == Init /\ [][Next]_vars

(* Threads that can go on do; at a semaphore nobody has a turn, so         *)
(* fairness is weak.  Nothing makes a client read or a server answer.      *)
FairSpec == Spec /\ \A w \in Workers : WF_vars(Local(w))

-----------------------------------------------------------------------------
Entering == {"LockWriters", "Entered"}
Reading == {"Find", "LockItem", "Send", "UnlockItem", "UnlockAgain", "Leave"}
Leaving == {"UnlockWriters", "Left"}
Writing == {"MakeRoom", "Evict", "Link", "Account", "Written"}
Locations == {"Idle", "Enter", "CountIn", "CountOut", "Connect", "Fetch", "Write"}
             \cup Entering \cup Reading \cup Leaving \cup Writing

(* Type invariant.  u_mutex is no mutex: see ItemUpdatesExclusive.         *)
TypeOK ==
  /\ list \in Seq(Items)
  /\ cache_size \in Nat
  /\ read_cnt \in 0 .. Cardinality(Workers)
  /\ r_mutex \in {0, 1} /\ w_mutex \in {0, 1} /\ u_mutex \in 0 .. SEM_VALUE_MAX
  /\ pc \in [Workers -> Locations]
  /\ req \in [Workers -> [uri : Uris, size : Nat, flag : BOOLEAN, known : BOOLEAN]]

(* cache_URL and evict have the list for themselves: no other writer, and  *)
(* no reader between finding an item and being done with it (lines         *)
(* 174-195 and 286-305).                                                   *)
WritersExclusive ==
  \A v, w \in Workers : pc[v] \in Writing /\ v # w =>
     pc[w] \notin Reading \cup Writing \cup {"CountOut"}

(* Whenever no writer is at it, cache_size is the size of what is in the   *)
(* list, and that is within the limit (lines 288-303).                     *)
Total(items) ==
  LET sum[k \in 0 .. Len(items)] ==
        IF k = 0 THEN 0 ELSE sum[k - 1] + items[k].size
  IN  sum[Len(items)]
TotalSize == Total(list)
SizeAccounted ==
  (\A w \in Workers : pc[w] # "Account") =>
     cache_size = TotalSize /\ cache_size <= MAX_CACHE_SIZE

(* evict is only called when there is something to evict: it looks at the  *)
(* first item without asking (line 314).                                   *)
EvictHasVictim == \A w \in Workers : pc[w] = "Evict" => list # <<>>

(* A request for what was in the cache when it began is served from the    *)
(* cache (line 132: check_cache, then return).                             *)
KnownIsHit == \A w \in Workers : req[w].known => pc[w] \notin {"Connect", "Fetch"}

(* check_cache and cache_URL return, if no client stops reading for ever   *)
(* and if requests end.  The lock prefers readers and semaphores give      *)
(* nobody a turn: with lookup after lookup a writer may wait for ever for  *)
(* w_mutex, and a worker for r_mutex (lines 174-195 and 286-304).          *)
ClientsRead == \A w \in Workers : []<>(pc[w] # "Send")
RequestsEnd == <>[][\A w \in Workers : ~Request(w)]_vars
LookupReturns ==
  ClientsRead /\ RequestsEnd => \A w \in Workers :
     pc[w] = "Enter" ~> pc[w] \in {"Connect", "Idle"} \/ status # "up"
InsertReturns ==
  ClientsRead /\ RequestsEnd => \A w \in Workers :
     pc[w] = "Write" ~> pc[w] = "Idle" \/ status # "up"

(* Sending an item and updating its access time are "blocked with another  *)
(* mutex" (report.md, line 241).                                           *)
ItemUpdatesExclusive ==
  \A v, w \in Workers : pc[v] = "Send" /\ pc[w] = "Send" => v = w
=============================================================================
