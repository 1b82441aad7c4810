# A TLA+ development of the Systems Programming labs

The repository holds six programming labs. Two of them are concurrent
programs, a job-control shell (`src/sp_02_shelllab/tsh.c`) and a caching web
proxy (`src/sp_06_proxylab/proxylab-handout`); one lives in a kernel, where its
handlers run concurrently (two debugfs modules); the others are sequential
(a memory tracer, storage allocators with their driver, a cache simulator, a
matrix transpose). This directory models them: the modules are translated from
the code, TLC checks them on small instances, and TLAPS proves about them what
it can.

## 1. Inventory

| Component | State it keeps | Operations | What is hard | Properties that make it correct |
|---|---|---|---|---|
| Shell, job list (`tsh.c` 481-603) | `jobs[MAXJOBS]`, `nextjid` | `addjob`, `deletejob`, `clearjob`, state changes; lookups `fgpid`, `getjobpid`, `getjobjid`, `maxjid` | wrapping job IDs, a full table, lookups that do not test `pid` | no process twice, free slots cleared, IDs that name their job |
| Shell, main loop and handlers (`tsh.c` 96-475) | locals of `eval`, `do_bgfg`, `waitfg`; signal mask | `eval`, `do_bgfg`, `waitfg`, `sigchld_handler`, `sigint_handler`, `sigtstp_handler`, `sigquit_handler` | handlers interrupt main and each other; signals coalesce; fork and setpgid race with both; busy waiting | list and kernel agree; the foreground job is awaited; ctrl-c reaches the foreground job only; every zombie is reaped |
| Proxy, bounded buffer (`sbuf.c`) | array, two indices, three semaphores | `sbuf_insert`, `sbuf_remove` | five threads, blocking at both ends | a FIFO queue, nothing overwritten, nobody blocked for ever |
| Proxy, workers and cache (`proxy.c`) | list of items, `cache_size`, `read_cnt`, three semaphores | `doit`, `check_cache`, `cache_URL`, `evict`, `find` | readers-writers lock passed between threads, eviction, one failure ends the process | writers exclusive, sizes add up, what is cached is found |
| Proxy, requests (`proxy.c` 114-167, 201-266) | locals of `doit`, uninitialised at first | `doit`, `parse_uri`, `parse_header`, `check_header` | short reads and writes, end of file in a header, what is left on the stack | the server gets the request, the client the answer, whole |
| Robust I/O (`csapp.c`) | `rio_t` buffers | `rio_readinitb`, `rio_read`, `rio_readlineb`, `rio_writen` | reads and writes of any part; lines longer than their room | lines come out as they came in |
| Tiny server (`tiny.c`) | locals of one transaction | `doit`, `parse_uri`, `serve_static`, `serve_dynamic`, `clienterror` | the same | its answer is complete, then it closes |
| Memory tracer (`sp_01_linklab`) | list of blocks, counters | `malloc`, `calloc`, `realloc`, `free`, `fini`; `alloc`, `dealloc`, `find` | addresses used again, `realloc` that moves or fails, double frees | no illegal call reaches the library, what is reported is what is not of a block in use, the leak report is what is in use |
| Simulated memory (`memlib.c`) | the heap and its break | `mem_init`, `mem_sbrk`, `mem_reset_brk` | running out; old contents | |
| Allocator, explicit list (`mm-2014-17831.c`) | heap of tagged blocks, free list | `mm_init`, `mm_malloc`, `mm_free`, `mm_realloc`, `coalesce`, `place` | four coalescing cases, splitting, growing the heap | blocks tile the heap; free list = free blocks; no two free neighbours; payloads kept |
| Allocator, segregated lists (`mm.c`) | the same with a list per class, largest first | the same | the same | the same |
| Allocator, naive (`mm_naive.c`) | the heap | the same | `realloc` by copy | payloads disjoint and kept |
| Trace driver (`mdriver.c`) | trace, ranges, sizes, errors, results | `read_trace`, `eval_mm_valid`, `eval_mm_util`, `eval_mm_speed`, the range list, the index | replays on used memory, its own book-keeping | accepts what is right; replays agree; utilisation is at most 1 |
| Timers (`fsecs.c`, `fcyc.c`, `clock.c`, `ftimer.c`) | a counter in two words, the cost of a tick, the best K samples | `fsecs`, `fcyc`, `ftimer_itimer`, `ftimer_gettod`, `callibrate` | counters that wrap, seconds that turn, interrupts in a sample | the time is the one the runs took |
| Lab5 drivers (`lab5/mdriver.c`, `mdriver-realloc.c`) | as the trace driver, for two allocators | the same, and `eval_libc_valid`, `eval_libc_speed`, `sumresults` | errors shared by two passes; functions not written; a throughput not computed | the index is earned |
| Allocator, lab5 (`lab5/mm.c`, `mm-gc.c`) | heap of blocks with two tag bits, LIFO list | `mm_init`, `insertFreeBlock`, `removeFreeBlock`, `coalesceFreeBlock`, `requestMoreSpace`, `is_pointer` | a tag that speaks of the neighbour | tags agree; list = free blocks; coalescing complete |
| Cache simulator (`csim.c`) | S x E lines, a use counter | `get_cache` | address split at the edges of the word | hits, misses and evictions of an LRU cache |
| Transpose and its evaluation (`trans.c`, `test-trans.c`, `tracegen.c`) | matrices, trace, results | `transpose_submit`, `trans`, `validate`, `eval_perf` | blocks at the edges, collisions in the cache | B is the transpose; misses within the limits |
| Kernel modules (`sp_05_kernallab`) | a list, `curr`, a blob; `task` | writes and reads of debugfs files | concurrent calls without a lock, processes that exit | a call that overlaps no other answers for its own process |
| Shell traces; lab5's collector driver | | handed out with the labs | | not modelled |

How they interact: the shell's main loop and its handlers share the job list
and are ordered only by the signal mask; both talk to the kernel about
children. In the proxy, `main` hands connections to the workers through the
buffer, the workers share the cache, and each worker reads from a client and a
server through the Rio package. The driver of the malloc lab is linked with one
allocator and one timer; the allocator takes its memory from `memlib.c`.
`test-trans` runs `tracegen`
and gives its trace to the simulator. There is no interaction between labs.

The behaviours that are hard to test are listed, each at its line, under
`hazards` in `PROJECT.json`, with the properties that cover them.

## 2. The modules

| Module | Models | Run |
|---|---|---|
| `JobList` | the job list: operators the shell uses, and `ListSpec`, what the shell is meant to do with them | property of `tsh_jobs` |
| `Tsh` (extends `JobList`) | the whole shell with the kernel as far as it can see it | `tsh_*` |
| `SetInduction` | induction on numbers with the property given as a set, least elements, sums: lemmas for the modules of proofs | tlapm |
| `TshProofs` | theorems about the two | tlapm |
| `Semaphore` | `P` and `V` of `csapp.c` | with the next two |
| `Sbuf` | the bounded buffer, with one step per semaphore operation and access | `sbuf` |
| `Fifo` | the queue that `Sbuf` is shown to implement | property of `sbuf` |
| `SbufProofs` | theorems about the buffer | tlapm |
| `ProxyCache` | the workers in `doit` and the cache they share | `cache`, `cache_update` |
| `ProxyCacheProofs` | theorems about the cache | tlapm |
| `Rio` | `rio_read`, `rio_readlineb` on one end of a connection, as operators | with the next |
| `HttpExchange` (extends `Rio`) | one client, one worker of the proxy and the tiny server | `http` |
| `HttpExchangeProofs` | the theorem about one exchange | tlapm |
| `MemLib` | `memlib.c` as operators on a heap of words | with the allocators |
| `Blocks`, `BoundaryTags` | the macros and list surgery, and the block algorithms, that `mm-2014-17831.c` and `mm.c` have in common | with the next two |
| `ExplicitMM`, `SegregatedMM`, `NaiveMM` | the three allocators, as operators from heap to heap and pointer | instances of the next |
| `Timing` | `fsecs.c`, `fcyc.c`, `clock.c`, `ftimer.c` as operators | with the next |
| `MDriver` (extends `MemLib`, `Timing`) | `mdriver.c` with the allocator and the timer it is linked with | `malloc` |
| `PayloadHeap` | what an allocator promises: disjoint payloads that only their owner writes | property of `malloc` |
| `Lab5MM` (extends `MemLib`) | lab5's free list and `is_pointer` as operators | with the next |
| `Lab5Driver` (extends `Lab5MM`) | the two drivers of lab5 | `lab5` |
| `MemList`, `MemTrace` | `memlist.c`, and the three tracers between a program and a library | `memtrace` |
| `MemTraceProofs` | theorems about the tracers | tlapm |
| `Csim` | `csim.c` as operators on a record of its variables | with the next |
| `CacheLab` (extends `Csim`) | `trans.c`, `tracegen.c`, `test-trans.c` with the simulator, and the simulator on any trace | `cachelab` |
| `CacheLabProofs` | theorems about the transposes and the simulator's counts | tlapm |
| `KernelLab` | both kernel modules with the processes that use them | `kernel` |
| `KernelLabProofs` | theorems about them | tlapm |
| `MC*` | the instances TLC checks | |

In several modules a definition is preceded by a *mistake* or *mutant*: the same
operator with a plausible error (a missing lock, an `if` for a `while`, a case
left out). Replacing the definition by it must break the property that
`PROJECT.json` pairs it with under `mutants`; nothing else uses it.

### JobList

`jobs` is a function from slots to `[pid, jid, state]`; pid 0 is the constant
`NoPid`, a free slot the record `cleared`, a NULL job pointer slot 0. Every scan
of the array returns its first hit, which `first` expresses as a minimum. The
command line of a job is left out (it is only printed). `ListSpec` uses the list
as the shell is meant to: only processes that are not listed are added and only
entries in use change state.

### Tsh

One step is one piece of code no handler can be seen to interrupt: main stops
between two system calls and between a read of the list and its use
(`pc`, `arg`). `Signal` installs handlers with an empty `sa_mask` (line 678), so
a handler blocks its own signal only: `stack` holds the handlers being run, `h`
their locals, and only the innermost one moves. A running handler stops between
`waitpid` and the update of the list, and between `fgpid` and `kill`.

| Code | Actions |
|---|---|
| `eval` 190-204, 207, 226, 229, 235 | `EvalRun`, `Fork`/`ForkFails`, `EvalAdd`, `EvalUnblock`, `EvalPrint` |
| child in `eval` 210-223 | `JoinGroup`, `Exec`, `Exit` |
| `waitfg` | `WaitfgReturns` (its loop body does nothing) |
| `do_bgfg` | `BgfgByJid` or `BgfgByPid`, `BgfgReadPid`, `BgfgContinue`, `BgfgSetState` |
| `sigchld_handler` | `Waitpid` or `WaitpidNone`, `Update` |
| `sigint_handler`, `sigtstp_handler` | `FindForeground`, `Forward` |
| `quit`, end of file, `sigquit_handler` | `Quit` |
| `unix_error`, NULL dereference | `Ends` |

The kernel: a process is born into the shell's group, joins its own, runs its
program, stops, exits or is killed, and is a zombie until reaped. Pending
signals are sets, since signals do not queue; a child that changes state raises
SIGCHLD; SIGCONT removes a pending stop. What is abstracted: a process group is
one process (so `mysplit` is out), the command is "runs something", a child that
got a signal before `execve` ignores it, as the inherited handler finds no
foreground job in the child's copy of the list.

### Sbuf and Fifo

A connection is the number of its `accept`. `++rear` and `++front` are a read
and a write, so the mutex has something to protect. `Accept` and `Return` stand
for the callers (`main`, `thread`): neither is forced to happen. `Fifo` has one
step for each operation; the refinement maps the slots between `front` and
`rear` to the queue, and the item fields of producers and consumers to what they
offer and got. The step that inserts is the write to the array, the step that
removes is the read from it.

### ProxyCache

Locations of a worker are named after the action that leaves them; there is one
action per `P`, `V`, access to shared state and blocking call of `doit`,
`check_cache` and `cache_URL`. Objects are their sizes, and the list is the
sequence of the items behind the sentinel. Access times are left out: they only
decide which item `evict` picks, and each choice ends the process: a NULL
dereference for the tail, and for any other an abort in the second `free`, of
the uri inside the item that was just freed. The outcome of that `free` is
undefined in C; the model takes glibc's, which is to abort. Requests have no
bound: `thread` serves for ever. `u_mutex` gains 1 with each hit, and `sem_post`
fails at `SEM_VALUE_MAX`, which ends the process (`Overflows`); a client that is
gone ends it as well (`Send`).
`known` is history: was the uri in the cache when the request began?

### Rio and HttpExchange

A byte is a word of a request or an answer, and the first word of a line says
what kind of line it is, so the prefix tests of `check_header` become membership
in `headers`. A connection is a pair of streams; a stream has bytes on their way
and an end of file. A `read` takes any part of the bytes there are, a `write`
sends any part of what is left, so every way of cutting the bytes is a behaviour.
Whoever is written to may be gone, which ends the worker's process, and need not
read: `Send` and `Write` are steps the worker can take, but no fairness makes it.

| Code | Actions |
|---|---|
| `rio_read` (csapp.c 794-819) in whoever waits for a line | `Read(e)` |
| `doit` up to `parse_uri` (114-134) | `Request` |
| a turn of `parse_header` (216-266) | `Header` |
| `Open_clientfd`, `Rio_writen` to the server | `Connect`, `Send` |
| the relay loop and `cache_URL`'s arguments (150-167) | `Relay`, `Write` |
| `Close` in `thread` | `Close` |
| `doit` of tiny, `read_requesthdrs`, the answers, `Close` | `ServerRequest`, `ServerHeader`, `Answer`, `ServerClose` |

What a run may be given is stated by assumptions, which the proofs use: what a
client sends after the request line are lines (`RequestsAssumption`, `IsLine`);
`Means` gives host, port and path of well-formed uris, and their text is one of
the ways to write them (`MeansAssumption`, `writes`): with the scheme or without
it, with the port or, when it is 80, without it. `ExchangeExact` is about
`Regular` requests: a uri that means something, lines that fit the buffer, at most
one `Host` line, and nothing left on the stack.

The arrays of `doit` are not initialised. `given.stack` is what an earlier call
left there: nothing at first, junk, or a whole header line. `sscanf` that does
not match leaves it, and `strcat` appends to it.

### The allocators: MemLib, Blocks, BoundaryTags, *MM, MDriver, PayloadHeap

The heap is a function from word addresses to values with a break, as in
`memlib.c`; `mem_sbrk` returns `Failed` at `MAX_HEAP`, and resetting the break
leaves the words as they were. Every function of the allocators is an operator
that takes a heap and gives a heap and a pointer; they are sequential, and the
driver calls them one at a time, so a call is one step of `MDriver`. `Blocks`
has the macros (`GET`, `PUT`, `HDRP`, ...) on words, `BoundaryTags` the
algorithms that the two boundary-tag allocators share line for line, with what
differs (`find_fit`, `insert_block`, `remove_block`) as operator constants.

`MDriver` builds any trace that a generator could have written (a block is
allocated once, and resized and freed while it lives), then goes through
`eval_mm_valid`, `eval_mm_util` and any number of `eval_mm_speed` as `main`
does. Its actions are one request of one of the three replays (`ValidAlloc`,
`ValidRealloc`, `ValidFree`, `UtilRequest`, `SpeedRequest`), the starts of the
replays, and the reading and freeing of the trace. The range list and the bytes
the driver stores and compares are state, so its verdict is computed as the
code computes it.

`fsecs` is `StartTiming` and one `TimedCall` per run of `eval_mm_speed`, with
the clock that the driver is built with: the counter pair of `clock.c`, read
before and after each run, with the cost of timer interrupts taken off and the
best K runs kept (`fcyc.c`), or the interval timer or time of day around all of
the runs (`ftimer.c`). A clock starts anywhere and a run takes any of a few
durations, so low words wrap and seconds turn. `clear` is the sweep of the
cache before a sample, which ends the process when its buffer cannot be
allocated. `Report` is the performance index of `main`. A double is a fraction.

`PayloadHeap` is the abstract specification: a store of places with sizes and
contents, in which malloc adds a disjoint payload, realloc keeps the common part
and free removes one. The refinement reads each live payload from the heap's
words. It is stronger than the driver's own check, which looks only at the ends
of a new range (409-417) and so misses one that encloses an old one.

### Lab5MM and Lab5Driver

`mm_malloc` and `mm_free` are left to be written in the repository, as is
`mm_realloc`: they return NULL or do nothing. The free list they are to use is
written: `mm_init`, `insertFreeBlock`, `removeFreeBlock`, `coalesceFreeBlock`,
`requestMoreSpace`. With `written` the model has the first two as the comments
of the file ask for (`split`, `release`, marked external), so that the list is
exercised; without it they are as in the repository. `is_pointer` of the
collector is checked on the heaps that result.

`Lab5Driver` has one action per function of the driver, and one per request in
the checked replay. `setup` says which of the two drivers was built, with which
timer (the counter of `clock.c` ends the process where it is not implemented),
whether the functions are written, and whether it was started with `-l`, which
puts a pass with the C library's allocator before that of the lab. The C
library may run out of memory at any request. `sumresults` of
`mdriver-realloc.c` asserts that the throughput is positive, but computes it
only if all traces were valid: otherwise it asserts whatever its caller's
variable holds, and the model has both outcomes.

### MemList and MemTrace

One action per call of the program, and under it one operator per part of the
lab: `Malloc1` and `Malloc` (parts 2 and 3), `Realloc1` to `Realloc3`, `Free1` to
`Free3`, `Fini1` to `Fini3`. Calls before the constructor has made the list are
left out. The library is the environment: it refuses
memory, gives any address not in use, and `realloc` moves the block or not. The
programs of parts 1 and 2 are correct; that of part 3 may free and reallocate
any address. What a call outside the contract of the library would do is
`Undefined`, wherever a tracer lets one through. Variables after `calls` are history: whether the
last call was reported and rightly so, by how much blocks grew in place, and
whether the library ever refused.

### Csim and CacheLab

`Csim` keeps the widths of the code: an address is cut to `WIDTH` bits (32 in
the code, a constant here), the number of tag bits is computed for twice that,
and the shifts that are too wide do what the processor does. `CacheLab` runs
`transpose_submit` and `trans` one move of an iteration at a time, giving
each access through the filter of `eval_perf` to the simulator; the misses it
counts for the submission are 287 at 32x32, 1699 at 64x64 and 1961 at 61x67.
`test-trans` (line 140) runs `./csim-ref`, of which the repository has the
executable only; `csim.c`, which is to give the same numbers, stands for it. Both
executables count 1961 misses on the repository's `trace.f0`, which is of 61x67.
The second program, `csim` alone, reads its options in any order and then any
short trace; the variable `trace` is history, the accesses of data that it has
read. `sigalrm_handler` is the alarm that ends `test-trans`.

### KernelLab

One step per use of a static variable (`curr`, the list, the blob's two fields,
`task`), for any number of processes inside the handlers, with processes that
exit in between (only those without children, so nobody gets a new parent, and
`raced` notes when it disturbs a walk). The read of `task->mm` and the walk of the
tables are one step. `raced` is history: two calls overlapped where they share a
variable, or a process exited under a walk. The page tables are a function from
pages to frames. The processes are any numbers, of which none is its own
ancestor: a walk to init ends.

## 3. What the runs show

Runs that pass:

| Run | Bounds | Shows |
|---|---|---|
| `tsh_jobs` | 2 slots, 2 processes, 2 keys, `JidBound` 2; `cmd` and `cmd &` | the shell uses the list as `ListSpec` says; a freed slot is clear; job IDs are fresh until they wrap; `waitfg` waits for the foreground job and returns when it ends or stops; a stop that was reported shows as stopped; zombies are reaped although signals coalesce |
| `tsh_bgfg` | 2 slots, 3 processes (symmetric), 1 key; also `fg` and `bg`, by job ID and by pid | the inductive invariant of the proofs, of which the type invariant is a conjunct, with a full table and refused children; ctrl-c and ctrl-z never reach a background job |
| `sbuf` | 2 slots, 2 producers, 2 consumers, 4 connections | the buffer is a bounded FIFO queue, the mutex is one; connections are taken and `sbuf_insert` returns while workers come back |
| `cache` | 3 workers, 2 uris, sizes 2 and 4 with a cache and an object limit of 3, `SEM_VALUE_MAX` 2, requests without end | writers have the list to themselves; sizes add up; `evict` has a victim; what was cached is a hit; `check_cache` and `cache_URL` return if clients read and requests end (the lock prefers readers) |
| `http` | one exchange; six uris, 0 to 4 header lines, lines of up to 8 words with room for 6, a read buffer of 4 | `ExchangeExact`: however the bytes are cut, the server is sent the request with the proxy's headers, the client gets the answer whole and the cache the same; `WorkerReturns`: a worker whose client sends the empty line comes back, or the process ends, if client and server read what it writes |
| `malloc` | three allocators, each with another timer, traces of up to 5 requests (the naive one: 4) on 3 blocks of 8 and 40 bytes, a heap of 60 words; words and seconds of 4, 2 or 3 runs, the best 2 kept | blocks tile the heap, free lists are exact, replays agree, the driver's accounting, index and verdict are right, the times are those of the runs (`TimesTrue`), the heap grows only when nothing fits, and every allocator implements `PayloadHeap` |
| `lab5` | all traces of 7 requests on 4 blocks of 8 and 40 bytes and all pairs of traces of up to 2, with a request to resize; pages of 64, a heap of 208; five setups | tags of neighbours agree, the list is the free blocks and none has a free neighbour; `is_pointer` is right for every word; the index that is reported is between 0 and 100, and positive only if every trace was replayed without an error (`ReportHonest`) |
| `memtrace` | 3 addresses, sizes 0 to 2, 5 calls, three parts | no illegal call reaches the library from part 3; it reports the frees and reallocs that are not of a block in use, `realloc(NULL, n)` among them; while no memory is refused and, in part 3, no block grows in place, the counts differ by what is in use and the leak report lists it |
| `cachelab` | matrices 32x32, 64x64, 61x67, 5x20 and one too large; csim with 1 to 4 sets of 1 or 2 lines, its options in four orders, on every trace of up to 5 accesses of 6 addresses | transposes are correct and stay inside the arrays, misses within the limits, counts are those of an LRU cache |
| `kernel` | 2 writers, a reader of the blob, 2 readers of addresses, 3 processes, 3 calls | a call that overlaps no other answers for its own process, and nothing is left over for the next |

Runs that end in a violation, each a disagreement between the code and what a
comment or a report of the repository says (quoted in `PROJECT.json` under
`findings`):

| Run | Violated | What happens |
|---|---|---|
| `tsh_two_fg` | `AtMostOneFg` | `fg` marks a slot FG that was freed since the lookup; `waitfg` no longer waits, and a second foreground job starts |
| `cache_update` | `ItemUpdatesExclusive` | the second `V(&u_mutex)` of a hit opens the mutex to two |

Where a property has a premise, it is what the code needs, and the models have
the behaviours outside of it. What they show there:

* Shell: a background job that is reaped before `eval` prints it is a NULL
  dereference (`tsh.c` 235); ctrl-c before the child's `setpgid`, or while it is
  reaped, makes `kill` fail and ends the shell (452); a stop recorded between
  SIGCONT and the state change of `fg` is overwritten, and `waitfg` never
  returns (362), which is why the three liveness properties are checked without
  `fg`; two listed jobs get one job ID after `nextjid` wrapped (524), which is
  why `JidFreshUntilWrap` stops there; `fg %n` may read pid 0 from a slot freed
  since the lookup (341); a ctrl-c forwarded before `execve` is swallowed (215).
* Proxy: the first eviction ends the process (`proxy.c` 330); so does a server
  that cannot be reached (140), a header line without a colon, and a client that
  is gone. A client that closes before the empty line makes the worker loop for
  ever (224). A client or server that stays and stops reading stops the worker
  that writes to it, and, in a hit (184), everybody who wants to insert. The lock
  prefers readers: lookups that overlap without end keep `cache_URL` waiting
  (TLC shows it when `RequestsEnd` is left out of `InsertReturns`). Each hit
  raises `u_mutex` by one, up to the failure of `sem_post`. Two workers that miss
  one uri both insert it. What an earlier request left in `header_other` is forwarded again,
  and, unless it ends a line, swallows the empty line: server and worker then
  wait for each other. A uri with a colon in its path is taken to have a port;
  an empty path makes tiny read the version as the uri. An object with a zero
  byte is cut in the cache, with its size kept. A line as long as `MAXLINE` is
  cut in two, and the second part is read as a header of its own.
* `mm.c`: the test in line 196 is never true, so `find_fit` never finds a block
  and the heap grows for every request; its free lists are exact all the same.
  This is why `GrowsOnlyWithoutFit` speaks of the explicit list. In
  `mm-2014-17831.c`, blocks are inserted at the front (the loop in 344 never
  runs), while its comment says in ascending order.
* Tracers: `realloc` of part 1 returns the old pointer even if the block moved;
  that of part 2 uses what `find` returned without a test; in part 3 a block
  that grows in place is counted as freed with its new size, a failed `realloc`
  is recorded as if it had freed the block, and `realloc(NULL, n)` is reported as
  illegal. `fini` divides by the number of allocations, zero or not.
  `LeakReportExact` excepts what follows a growth in place in part 3, and a
  refusal in any; `LeaksLessGrowth`, which is proved, says what the growth does to
  the counts: a program that leaks may get no report.
* Cache simulator: with one set, addresses of every block but the first select a
  line outside the array (the repository's `csim` crashes); two
  addresses that agree in their low 32 bits are one block. `CountsAsReference`
  excepts both.
* Kernel modules: overlapping writers mix their lists; a pid that is no process,
  and a page that is not mapped, make the kernel fail.

The bounds are small and enough for the cases of interest: two processes are a
foreground and a background job, or one that is added while the other is reaped;
three processes in two slots are a full table with a child it refuses, and a slot
that is used again; three workers are a first and a last reader with one in
between, or two readers and a writer; four connections go around a buffer of two
twice; `u_mutex` at 2 has let two in and overflows with the next hit; two objects of size 2 exceed a cache of size 3, and the one of size 4 is
not cached. Three blocks are a block with a free or used neighbour on each side,
two sizes are one that splits a free block and one that does not fit, and the
heap runs out within a trace; five requests reach all four cases of coalescing,
and an `mm_realloc` that copies and one for which there is no memory (none of the
allocators resizes in place). Counters of two words of 4 that start at 3 or 14
borrow within a run, and seconds of 4 turn; of three samples
one does not count among the best two. Seven requests of lab5 allocate, free and
reallocate between neighbours until the heap is used up; two short
traces are an error in one and none in the other. Three addresses and five calls free a block, use its
address again and free it twice. Five accesses fill a set of two lines, hit it out
of order and evict. The matrices are the three of the lab and two at the edges of a block and
of the largest size. Two callers overlap in every way two calls can, and the
third call finds what they left. A line of 8 words is longer than the room for
6, and the buffer of 4 is less than a line.

The bounds are `JidBound` (guard of `EvalRun` and `Add`), `KeyBound` (`Type`),
`ConnBound` (`Accept`), `SEM_VALUE_MAX` (the code's own, made small), `MaxOps`
(`ReadRequest`), `NumTraces`, `MAX_HEAP`, `MaxCalls` (`MemTrace` and
`KernelLab`) and `MaxTrace` (`Read` of `CacheLab`). Deadlock is not
checked where the system may stop: the shell exits, the proxy's process ends, the
buffer is idle once all connections are served, and programs end.

## 4. Fairness

* Shell: main, the running handler, and each child up to its program's own
  decisions have weak fairness. Delivery of a signal has strong fairness,
  because `eval` blocks and unblocks signals again and again, and the kernel
  delivers a pending signal at the first return to user mode with it unblocked.
  Nothing obliges the user to type or a program to exit or stop.
* Buffer and cache: weak fairness for each thread's own steps. A POSIX
  semaphore gives waiters no order, so strong fairness would not be justified,
  and what a waiter needs must be said in the properties. Those of the buffer
  speak of connections, of which there are finitely many. In the cache,
  overlapping lookups keep a writer from `w_mutex` for ever, and a worker may be
  overtaken for ever at `r_mutex`: `LookupReturns` and `InsertReturns` have the
  premise that requests end (`RequestsEnd`). Nothing makes a worker return from
  `doit` or a client read: that is a premise too (`SomeWorkerReturns`,
  `ClientsRead`).
* Request and answer (`FairSpec` of `HttpExchange`): weak fairness of the server
  and of what the worker does by itself (`ProxyLocal`), each a thread that is
  always runnable unless it waits for bytes; bytes that were sent arrive. A write
  may block as long as its reader likes, so `Send` and `Write` have no fairness;
  `WorkerReturns` has the premise that they do not block for ever (`PeersRead`).
  The client only sends what it sends. Tiny's own writes are to the worker, which,
  under that premise, reads to the end.

The other specifications are of safety only.

## 5. What is proved

All proofs are for every value of the constants that satisfies the `ASSUME`s of
the modules: any number of slots, processes, threads, objects, blocks and calls,
of any sizes, with the bounds on counters anywhere.

* `TshProofs`, the list by itself: `ListTypeOK`, `PidsUnique`, `FreeSlotsCleared` and
  `JidFreshUntilWrap` are invariants of `ListSpec`. The first three are
  inductive together; the proofs go through lemmas on what `addjob`,
  `deletejob` and `setstate` do to a single slot (`AddjobEffect`,
  `DeletejobEffect`, `SetstateEffect`), which rest on `FirstSlot` (a scan
  returns the least index) and `MaxjidBounds`.
* `TshProofs`, with all commands: `ShellInvariant` proves `Spec => []ShellInv`.
  `ListMatchesKernel` and `HandlerKnowsChild` are not inductive: one must also
  know that no handler runs between the two `sigprocmask`s of `eval`
  (`ForkWindowQuiet`, `HandlersStacked`), that the child about to be added is new
  (`ForkedIsNew`), and that what `waitpid` returned is gone unless it stopped
  (`ReportedChild`). `ShellInv` is their conjunction with `TypeOK` and
  `PidsUnique`; there is one lemma per action. `ShellType`,
  `ShellListMatchesKernel`, `ShellHandlerKnowsChild` and `ShellSparesBackground`
  (ctrl-c and ctrl-z reach the foreground job only) follow.
* `TshProofs`, without `fg` and `bg`: under `OnlyRuns`, `RunsInv` is an invariant,
  which adds to the above that a job that `waitpid` reported as stopped does not
  run again before the list says so (`StopsLast`), and that the stop of a child
  that is not listed yet has not been reported (`AboutToAdd`). From it:
  `ShellForegroundIsAwaited`, `ShellStoppedShown`, `ShellFreeSlots`,
  `ShellJidFresh`, `ShellAtMostOneFg`, and `ShellImplementsJobList`: each step of
  the shell is a step of `ListSpec` or leaves the list alone. The premise is what
  the code needs: with `fg` the run `tsh_two_fg` violates `AtMostOneFg`, and `fg`
  writes a slot that may have been freed.
* `SbufProofs`: `BufferType`, `BufferMutex` and `BufferIsFifo` prove `TypeOK`,
  `MutualExclusion` and `ImplementsFifo` of the buffer. None of the three is
  inductive. The invariant `Inv` adds `MutexTaken` (the mutex is free only when
  no critical section is entered), `IndexFresh` (an index that was read is still
  current) and `Counts`: `slots + items` and the threads between their `P` and
  their last `V` add up to `n`, and `rear - front` is `items` with the threads
  that moved, or are about to move, an item. A step changes one thread's
  location, so each lemma `Inv<Action>` rests on `CountEnter`, `CountLeave` and
  `CountOther`, which say what that does to a count. From `Counts`, a producer
  about to write finds fewer than `n` items and a consumer about to read finds
  one; `ModDistinct` (indices less than `n` apart are different slots) then gives
  `WriteInserts` and `TakeRemoves`, and `StepRefines` maps every step to a step
  of `Fifo` or a stutter.
* `ProxyCacheProofs`: `CacheType`, `CacheWritersExclusive`,
  `CacheSizeAccounted`, `CacheEvictHasVictim` and `CacheKnownIsHit`. The
  invariant counts the readers: `read_cnt` is the number of workers between its
  increment and its decrement, and `w_mutex` belongs to the readers from the
  first one's `P` to the last one's `V`, which may be two different workers
  (`ReadersCounted`, `ReadersHoldW`, `WriterAlone`). With writers alone, the sum
  of the sizes in the list is `cache_size`, or more by the object a writer has
  linked and not accounted for (`Accounted`), and what was found when a request
  began is still found, since the only step that would take an item away ends
  the process (`KnownStays`).
* `MemTraceProofs`: `MemTraceLibcCallsLegal`, `MemTraceAlarmsExact`,
  `MemTraceLeaksLessGrowth` and, where nothing has grown in place,
  `MemTraceLeakReportExact`. The invariant relates the list to the library: an
  entry that counts 1 is a block in use, of that size (`Tracked`); while no
  request was refused, every block in use has one (`Complete`), the counters
  differ by the bytes in use, less what blocks grew in place (`Balanced`), and a
  report that was made is right (`Reported`). `Lists` (the list is sorted
  by address, without two entries of one) is needed for `find` to find what
  there is, and `HeldLive` for the programs of parts 1 and 2 to be correct.
* `KernelLabProofs`: `KernelLabSerialCallsExact`. The invariant `Inv` says that
  the processes are a tree (`Family`), and while no two calls overlap (`Serial`):
  how far a walk has come, what is listed and what is printed always add up to
  the path of the process asked for, in nodes and in bytes (`WalkExact`); size
  and data of the blob are of one write but between their two assignments, when
  no reader is there (`BlobExact`); an answer under way is for its own process
  and address (`AnswersExact`); and nothing else has failed (`Failures`). `PathTo`
  says what `path_to` is for every tree, by induction along the parents
  (`Ancestry`).

* `CacheLabProofs`: `CacheLabTransposesCorrect`, for matrices of every size. For each
  nest of loops, `Passed` says which cells lie behind the counters, and the
  invariant that those are transposed (`Transposing`). `MoveAdvances` is the heart
  of it: what is passed at the next move was passed, or is written by this one;
  and when no loop goes on everything is passed. `InLoops` keeps the counters at
  corners of blocks where that is needed to stay inside the arrays; the third case
  needs none of it, since its inner loops stop at the edges. `StoredIs` says what
  the writes of a move make of `B`.

* `HttpExchangeProofs`: `HttpExact`, for requests, answers, files and buffers of any
  size, and every way of cutting the bytes. The invariant says where every byte is.
  `Coming(e)`, the bytes of a connection that no line has been made of, loses
  nothing in a read (`ReadConserves`), exactly its next line when the reader goes
  on (`NextConserves`), and gains what is written (`WrittenAdds`); the line that
  is returned is the first line of what comes (`FirstLine`, `LineRead`).
  `RequestRead`: what the worker has read of the request is its first `n` lines,
  and the headers it has built are those of these lines (`HasRead`). `RequestSent`:
  what is sent and what is still to be sent is what is to be forwarded, and the
  server has read nothing else. `AnswerRelayed`: what the client has, what the worker
  holds, what is coming and what the server has still to write is the answer.
  `AnswerCached`: the object is what was received so far. The lemma `Parsed` says
  that `parse_uri` finds what a uri means however it is written; `Flatten`,
  `FlattenHead` and `Without` say what the folds over lines are.

A theorem of the library about induction takes the property as an operator, which
the provers installed here cannot instantiate; `SetInduction` therefore gives it
as a set (`UpTo`: a set that has 0 and the successor of each of its numbers below
`n` has all up to `n`), and `KernelLabAssumption` states that parents are
well-founded in the same way. With this, sums and paths defined by recursive
functions, and folds, can be reasoned about (`PartialSumsUnique`, `SumUnique`,
`BytesConcat`, `PathUnique`). No module that is proved about declares a
`RECURSIVE` operator.

TLC checked each inductive invariant on the instance of the run before it was
proved.

Only model-checked: everything under fairness (the prover does not reason about
`ENABLED`); the drivers with their allocators and timers; and of the cache lab,
`MissesWithinLimits` (three numbers, which TLC computes). Of the drivers,
`BlocksTile`, `FreeListsExact`, `TagsAgree`, `FreeListExact`, `GrowsOnlyWithoutFit`,
`ErrorMeansNoMemory` and `ImplementsPayloadHeap` speak of walks along a heap
through operators that the actions apply to it a dozen at a time, so that an
inductive proof would be one of each allocator's algorithm. `ReplaysAlike`, and
that no payload exceeds the heap in `UtilizationSound` and `ReportHonest`, would follow from
those only. `TimesTrue` compares with the samples as `SortSeq` sorts them, whose
definition is not known to the prover.

## 6. What is not modelled, and why

* `parseline`, `usage` and all printing: no state depends on how they word things.
* `sdriver.pl`, `mysplit.c`: they run the shell on traces; the model types
  anything.
* The evaluation of the C library's malloc in `mdriver.c`, which is the one of
  `lab5/mdriver.c`, modelled there; lab5's copies of the timers and of
  `memlib.c`, which differ in layout only; the cycle counter of the Alpha; the
  setters of `fcyc.c` and `init_fsecs` (their parameters are constants).
* `GarbageCollectorDriver.c`: it judges `mm_garbage_collect`, whose `mark` and
  `sweep` are left to be written.
* The copies of `csapp.c` under `.proxy` and `tiny`, which are the same file as
  the one that is modelled.
* The bonus part of the tracer and `callinfo.c`, which only word a log; failure
  to allocate an entry of the list; overflow of `nmemb * size`.
* `rio_readn`, `rio_readnb`, the sio package and the wrappers of `csapp.c` that
  neither the proxy nor tiny calls, or that only pass a call on.
* Calls of the tracers before their constructor has run (`memlist.c` 59, 96, 112
  test for it), and the source of `csim-ref`, which is not in the repository.
* A file of no bytes in tiny, for which `Mmap` fails.
* The size computations of the allocators wrap at 2^32; the driver never asks
  for such sizes, and the model has small ones. Requests are whole words.
* Overflow of `op_counter` in `csim.c`, and of `rear` and `front` in `sbuf.c`.
* In the kernel: corruption of the list's links inside `list_add` and
  `list_del` when they race, reads of the blob before the first write, and the
  levels of the page tables.

## 7. Plan

1. Done: all components that keep state are modelled and checked.
2. Done: proofs about the shell with all commands, and without `fg` and `bg`; the
   bounded buffer; the cache of the proxy; the tracers; the transposes and the
   cache simulator; the kernel modules; one exchange through the proxy.
3. Lemmas on `Blocks`, `MemLib` and `Timing`: what `PUT`, `Unlink` and `mem_sbrk`
   leave alone, what a pair of counters that wraps once says. The invariants of
   the allocators need induction along the heap.
