---------------------------- MODULE KernelLab ----------------------------
(***************************************************************************)
(* The two kernel modules.  A write of a pid to ptree/input makes the path *)
(* of processes from init to it the contents of ptree/ptree; a read of     *)
(* paddr/output gives the physical address of a virtual one.  Neither      *)
(* takes a lock, and both keep what they work on in static variables:      *)
(* curr, ptree_list and blob_wrapper, and task.                            *)
(*                                                                         *)
(* A step is a use of a static variable.  What happens inside list_add and *)
(* list_del when two writers are in them at once is not modelled: what is  *)
(* here is enough for their overlap to do harm.                            *)
(***************************************************************************)
EXTENDS Integers, Sequences, FiniteSets, SequencesExt

CONSTANTS Writers, BlobReaders, PaddrReaders,   \* processes that use the files
          Tasks,             \* processes they may ask for: init is 1
          Addresses,         \* virtual addresses they may ask for
          FirstParent,       \* their parents at first: 0 is swapper, of init
          PAGE_SIZE,
          Frames,            \* the page tables: Frames[t] maps virtual pages of t to frames
          MaxCalls           \* writes and reads, of either kind

NULL == -1
swapper == 0

\* Every process has been forked by its parent, and in the end by init:
\* in no set of processes has each its parent.
ASSUME KernelLabAssumption ==
    /\ Tasks \subseteq Nat \ {swapper}
    /\ FirstParent \in [Tasks -> Tasks \union {swapper}]
    /\ \A S \in SUBSET Tasks : S # {} => \E t \in S : FirstParent[t] \notin S

VARIABLES alive, parent,             \* the processes there are
          curr, ptree_list, blob,    \* dbfs_ptree.c
          task,                      \* dbfs_paddr.c
          w, r, q,                   \* locals of writers, of readers of the blob, of read_output
          calls,
          oops,                      \* how the kernel has failed, or "no"
          raced,                     \* two calls have overlapped where it matters
          path                       \* what the last write was to find

kernel == <<alive, parent>>
ptree  == <<curr, ptree_list, blob, w, path>>
paddr  == <<task, q>>
vars   == <<kernel, ptree, paddr, r, calls, oops, raced>>

idle == [pc |-> "idle"]
length(t) == 3 + t             \* bytes of the line of a process, with its 0

\* Of a process that has exited nothing can be read.
pid_task(pid) == IF pid \in alive THEN pid ELSE NULL
Readable(t) == t \in alive \union {swapper}
Fail(how) == oops' = how

\* The path to t, init first.
path_to(t) ==
    LET up[n \in Tasks \union {swapper}] == IF n = swapper THEN <<>> ELSE Append(up[parent[n]], n)
    IN  up[t]
bytes(tasks) ==
    LET sum[k \in 0 .. Len(tasks)] == IF k = 0 THEN 0 ELSE sum[k - 1] + length(tasks[k])
    IN  sum[Len(tasks)]

Begin(state, p, first) == /\ oops = "no" /\ state[p] = idle /\ calls < MaxCalls
                          /\ calls' = calls + 1
At(state, p, pc) == oops = "no" /\ state[p].pc = pc
within(state, pcs) == \E o \in DOMAIN state : state[o].pc \in pcs

-----------------------------------------------------------------------------
\* write_pid_to_input

\* The static variables are in use from the lookup to the publication.
inWalk == {"start", "add", "print", "size", "data"}

Lookup(p) ==
    /\ Begin(w, p, "lookup")
    /\ \E pid \in Tasks :
         /\ curr' = pid_task(pid)
         /\ path' = IF pid \in alive THEN path_to(pid) ELSE path
         /\ w' = [w EXCEPT ![p] = [pc |-> "start"]]
    /\ raced' = (raced \/ within(w, inWalk))
    /\ UNCHANGED <<kernel, ptree_list, blob, paddr, r, oops>>

Start(p) ==
    /\ At(w, p, "start")
    /\ w' = [w EXCEPT ![p] = [pc |-> "add", task |-> curr, total_size |-> 0]]
    /\ UNCHANGED <<kernel, curr, ptree_list, blob, path, paddr, r, calls, oops, raced>>

\* The end of the list.
NoNode == [task |-> NULL, size |-> 0, of |-> NULL]

list_add_tail(node) == Append(ptree_list, node)             \* mutant
list_add(node) == <<node>> \o ptree_list

\* A turn of the loop: the node goes to the head of the list.
Add(p) ==
    /\ At(w, p, "add")
    /\ LET t == w[p].task
       IN  IF ~Readable(t) THEN Fail("read of no process") /\ UNCHANGED <<ptree_list, w>>
           ELSE IF t # swapper
           THEN /\ ptree_list' = list_add([task |-> t, size |-> length(t), of |-> p])
                /\ w' = [w EXCEPT ![p].task = parent[t], ![p].total_size = @ + length(t)]
                /\ oops' = oops
           ELSE /\ w' = [w EXCEPT ![p] = [pc |-> "print", total_size |-> @.total_size, text |-> <<>>,
                                          node |-> IF ptree_list = <<>> THEN NoNode ELSE Head(ptree_list)]]
                /\ UNCHANGED <<ptree_list, oops>>
    /\ UNCHANGED <<kernel, curr, blob, path, paddr, r, calls, raced>>

place(list, node) == SelectInSeq(list, LAMBDA m : m = node)
list_del(list, n) == RemoveAt(list, n)

\* A turn of list_for_each_entry_safe: the line of the node is written
\* after those before, and the node deleted; the next one was read first.
Line(p) ==
    /\ At(w, p, "print")
    /\ LET node == w[p].node
           n == place(ptree_list, node)
           text == Append(w[p].text, node.task)
       IN  IF node = NoNode
           THEN /\ w' = [w EXCEPT ![p] = [pc |-> "size", total_size |-> @.total_size, text |-> @.text]]
                /\ UNCHANGED <<ptree_list, oops>>
           ELSE IF n = 0 THEN Fail("deleted node") /\ UNCHANGED <<ptree_list, w>>
           ELSE IF ~Readable(node.task) THEN Fail("read of no process") /\ UNCHANGED <<ptree_list, w>>
           ELSE IF bytes(text) > w[p].total_size + 1 THEN Fail("write past ptree_buffer") /\ UNCHANGED <<ptree_list, w>>
           ELSE /\ ptree_list' = list_del(ptree_list, n)
                /\ w' = [w EXCEPT ![p].text = text,
                                  ![p].node = IF n = Len(ptree_list) THEN NoNode ELSE ptree_list[n + 1]]
                /\ oops' = oops
    /\ UNCHANGED <<kernel, curr, blob, path, paddr, r, calls, raced>>

PublishSize(p) ==
    /\ At(w, p, "size")
    /\ blob' = [blob EXCEPT !.size = w[p].total_size]
    /\ w' = [w EXCEPT ![p].pc = "data"]
    /\ raced' = (raced \/ within(r, {"data"}))
    /\ UNCHANGED <<kernel, curr, ptree_list, path, paddr, r, calls, oops>>

PublishData(p) ==
    /\ At(w, p, "data")
    /\ blob' = [blob EXCEPT !.data = w[p].text]
    /\ w' = [w EXCEPT ![p] = idle]
    /\ UNCHANGED <<kernel, curr, ptree_list, path, paddr, r, calls, oops, raced>>

\* debugfs reads the size and the address of the blob.
ReadSize(p) ==
    /\ Begin(r, p, "data")
    /\ r' = [r EXCEPT ![p] = [pc |-> "data", size |-> blob.size, due |-> blob.data]]
    /\ raced' = (raced \/ within(w, {"data"}))
    /\ UNCHANGED <<kernel, ptree, paddr, oops>>

ReadData(p) ==
    /\ At(r, p, "data")
    /\ IF r[p].size > bytes(blob.data) THEN Fail("read past the blob") ELSE oops' = oops
    /\ r' = [r EXCEPT ![p] = idle]
    /\ UNCHANGED <<kernel, ptree, paddr, calls, raced>>

-----------------------------------------------------------------------------
\* read_output

FindTask(p) ==
    /\ Begin(q, p, "mm")
    /\ \E pid \in Tasks, va \in Addresses :
         /\ task' = pid_task(pid)
         /\ q' = [q EXCEPT ![p] = [pc |-> "mm", pid |-> pid, va |-> va]]
    /\ raced' = (raced \/ within(q, {"mm"}))
    /\ UNCHANGED <<kernel, ptree, r, oops>>

\* The frame and the offset in the page are put together.
physical(frame, va) == frame * PAGE_SIZE + (va % PAGE_SIZE)

\* The walk does not look at whether the page is mapped.  It is one step with
\* the read of task->mm: nothing else here changes a process's tables.
Translate(p) ==
    /\ At(q, p, "mm")
    /\ LET page == q[p].va \div PAGE_SIZE
       IN  IF ~Readable(task) THEN Fail("read of no process") /\ UNCHANGED q
           ELSE IF page \notin DOMAIN Frames[task] THEN Fail("walk of an unmapped page") /\ UNCHANGED q
           ELSE /\ q' = [q EXCEPT ![p] = [pc |-> "copy", pid |-> @.pid, va |-> @.va,
                                          pa |-> physical(Frames[task][page], @.va)]]
                /\ oops' = oops
    /\ UNCHANGED <<kernel, ptree, r, task, calls, raced>>

CopyOut(p) == /\ At(q, p, "copy") /\ q' = [q EXCEPT ![p] = idle]
              /\ UNCHANGED <<kernel, ptree, r, task, calls, oops, raced>>

-----------------------------------------------------------------------------
\* A process without children exits: none changes its parent.  raced tells
\* that it disturbs a walk.
ExitTask(t) ==
    /\ oops = "no" /\ t \in alive \ {1} /\ \A u \in alive : parent[u] # t
    /\ alive' = alive \ {t}
    /\ raced' = (raced \/ within(w, inWalk) \/ within(q, {"mm"}))
    /\ UNCHANGED <<parent, ptree, paddr, r, calls, oops>>

\* dbfs_module_init allocates the blob and does not fill it; reads before
\* the first write are left out.
Init ==
    /\ alive = Tasks /\ parent = FirstParent
    /\ curr = NULL /\ ptree_list = <<>> /\ blob = [size |-> 0, data |-> <<>>] /\ task = NULL
    /\ w = [p \in Writers |-> idle] /\ r = [p \in BlobReaders |-> idle] /\ q = [p \in PaddrReaders |-> idle]
    /\ calls = 0 /\ oops = "no" /\ raced = FALSE /\ path = <<>>

WriteStep(p) == Lookup(p) \/ Start(p) \/ Add(p) \/ Line(p) \/ PublishSize(p) \/ PublishData(p)
Next ==
    \/ \E p \in Writers : WriteStep(p)
    \/ \E p \in BlobReaders : ReadSize(p) \/ ReadData(p)
    \/ \E p \in PaddrReaders : FindTask(p) \/ Translate(p) \/ CopyOut(p)
    \/ \E t \in Tasks : ExitTask(t)
Spec == Init /\ [][Next]_vars

-----------------------------------------------------------------------------
answersOwnProcess ==
    \A p \in PaddrReaders :
      q[p].pc = "copy" => q[p].pa = Frames[q[p].pid][q[p].va \div PAGE_SIZE] * PAGE_SIZE + (q[p].va % PAGE_SIZE)

\* While no two calls have overlapped in the use of the static variables,
\* the blob between two writes is the path to the process last asked for,
\* with its size, the list is empty again, and a reader gets what was
\* there.  Asking for what is no process, or for a page that is not
\* mapped, is the only way to make the kernel fail.  A read of paddr/output
\* answers for the process and the address asked for, as app.c asserts.
SerialCallsExact ==
    ~raced =>
      /\ answersOwnProcess
      /\ oops \in {"no", "read of no process", "walk of an unmapped page"}
      /\ oops = "no" /\ (\A p \in Writers : w[p] = idle) =>
           /\ blob = [size |-> bytes(path), data |-> path]
           /\ ptree_list = <<>>
           /\ \A p \in BlobReaders : r[p].pc = "data" => r[p].size = bytes(blob.data) /\ r[p].due = blob.data
=============================================================================
