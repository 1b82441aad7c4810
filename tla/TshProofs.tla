----------------------------- MODULE TshProofs -----------------------------
(***************************************************************************)
(* Proofs about the job list, used as ListSpec says: its type invariant,   *)
(* that no process is listed twice, and when a job number can be given out *)
(* again.  Then about the shell: for any number of slots, processes, key   *)
(* presses and commands, ShellInv is an inductive invariant of Tsh.  It    *)
(* says that the job list and the kernel agree and that sigchld_handler    *)
(* never meets a child eval has not added yet.                             *)
(***************************************************************************)
EXTENDS Tsh, SetInduction, SequenceTheorems

-----------------------------------------------------------------------------
(* The scans of the array are well defined.                                *)

(* A nonempty set of slots has a first one, which "first" returns.         *)
LEMMA FirstSlot ==
  ASSUME NEW S \in SUBSET Slots
  PROVE  /\ S = {} => first(S) = 0
         /\ S # {} => first(S) \in S
<1>1. CASE S = {}
  BY <1>1 DEF first
<1>2. CASE S # {}
  <2>1. S \in SUBSET Nat
    BY JobListAssumption DEF Slots
  <2>2. \E x \in S : \A y \in S : x <= y
    BY <1>2, <2>1, LeastNat
  <2>3. Min(S) \in S
    BY <2>2 DEF Min
  <2> QED
    BY <1>2, <2>3 DEF first
<1> QED
  BY <1>1, <1>2

(* maxjid is the largest jid of a table: found by going through the        *)
(* smallest prefix of the table without an upper bound, which cannot exist.*)
LEMMA JidsBounded ==
  ASSUME NEW table \in [Slots -> Job]
  PROVE  \E u \in Nat : \A i \in Slots : table[i].jid <= u
<1> DEFINE Bounded(n) == \E u \in Nat : \A i \in Slots : i <= n => table[i].jid <= u
           Bad == {n \in Nat : ~Bounded(n)}
<1>1. Bad = {}
  <2> SUFFICES ASSUME Bad # {} PROVE FALSE
    OBVIOUS
  <2>0. Bad \in SUBSET Nat
    OBVIOUS
  <2>1. PICK n \in Bad : \A m \in Bad : n <= m
    <3> HIDE DEF Bad
    <3> QED
      BY <2>0, LeastNat
  <2>2. Bounded(0)
    <3>1. \A i \in Slots : ~(i <= 0)
      BY JobListAssumption DEF Slots
    <3> QED
      BY <3>1
  <2>3. n # 0 /\ n \in Nat /\ n - 1 \in Nat
    BY <2>2
  <2>4. Bounded(n - 1)
    BY <2>1, <2>3
  <2>5. PICK u \in Nat : \A i \in Slots : i <= n - 1 => table[i].jid <= u
    BY <2>4
  <2>6. CASE n \in Slots
    <3>1. table[n].jid \in Nat
      BY <2>6 DEF Job
    <3>2. u + table[n].jid \in Nat
      BY <3>1
    <3>3. \A i \in Slots : i <= n => table[i].jid <= u + table[n].jid
      <4> SUFFICES ASSUME NEW i \in Slots, i <= n PROVE table[i].jid <= u + table[n].jid
        OBVIOUS
      <4>1. table[i].jid \in Nat /\ i \in Nat
        BY JobListAssumption DEF Job, Slots
      <4>2. CASE i = n
        BY <4>2, <3>1
      <4>3. CASE i # n
        BY <4>1, <4>3, <3>1, <2>5, <2>3
      <4> QED
        BY <4>2, <4>3
    <3> QED
      BY <3>2, <3>3, <2>1
  <2>7. CASE n \notin Slots
    <3>1. \A i \in Slots : i <= n => i <= n - 1
      BY <2>7, <2>3, JobListAssumption DEF Slots
    <3> QED
      BY <3>1, <2>5, <2>1
  <2> QED
    BY <2>6, <2>7
<1>2. Bounded(MAXJOBS)
  BY <1>1, JobListAssumption
<1>3. \A i \in Slots : i <= MAXJOBS
  BY JobListAssumption DEF Slots
<1> QED
  BY <1>2, <1>3

LEMMA MaxjidBounds ==
  ASSUME NEW table \in [Slots -> Job]
  PROVE  /\ maxjid(table) \in Nat
         /\ \A i \in Slots : table[i].jid <= maxjid(table)
         /\ maxjid(table) = 0 \/ \E i \in Slots : table[i].jid = maxjid(table)
<1> DEFINE Jids == {0} \cup {table[i].jid : i \in Slots}
           Upper == {u \in Nat : \A x \in Jids : x <= u}
<1>1. Jids \in SUBSET Nat
  BY DEF Job
<1>2. Upper # {}
  <2>1. PICK u \in Nat : \A i \in Slots : table[i].jid <= u
    BY JidsBounded
  <2> QED
    BY <2>1
<1>3. PICK u \in Upper : \A v \in Upper : u <= v
  <2>1. Upper \in SUBSET Nat
    OBVIOUS
  <2> HIDE DEF Upper
  <2> QED
    BY <1>2, <2>1, LeastNat
<1>4. u \in Jids
  <2> SUFFICES ASSUME u \notin Jids PROVE FALSE
    OBVIOUS
  <2>1. u # 0 /\ u - 1 \in Nat
    OBVIOUS
  <2>2. \A x \in Jids : x <= u - 1
    BY <1>1, <1>3
  <2>3. u - 1 \in Upper
    BY <2>1, <2>2
  <2> QED
    BY <1>3, <2>1, <2>3
<1>5. \E x \in Jids : \A y \in Jids : x >= y
  BY <1>1, <1>4
<1>6. Max(Jids) \in Jids /\ \A y \in Jids : Max(Jids) >= y
  BY <1>5 DEF Max
<1> QED
  BY <1>1, <1>6 DEF maxjid

-----------------------------------------------------------------------------
(* What the operations of the job list do to it.                           *)

LEMMA GetjobpidFinds ==
  ASSUME NEW pid, \E i \in Slots : jobs[i].pid = pid
  PROVE  getjobpid(pid) \in Slots /\ jobs[getjobpid(pid)].pid = pid
<1> DEFINE S == {i \in Slots : jobs[i].pid = pid}
<1>1. S \in SUBSET Slots /\ S # {}
  OBVIOUS
<1>2. first(S) \in S
  <2> HIDE DEF S
  <2> QED
    BY <1>1, FirstSlot
<1> QED
  BY <1>2 DEF getjobpid

LEMMA MaxjidPrimed ==
  ASSUME jobs' \in [Slots -> Job]
  PROVE  /\ maxjid(jobs') \in Nat
         /\ \A i \in Slots : jobs'[i].jid <= maxjid(jobs')
BY MaxjidBounds

(* addjob fills one free slot, or nothing when there is none.              *)
LEMMA AddjobEffect ==
  ASSUME ListTypeOK, NEW pid \in Pids, NEW st \in States, addjob(pid, st)
  PROVE  /\ ListTypeOK'
         /\ Full => UNCHANGED listVars
         /\ ~Full => \E k \in Slots :
               /\ jobs[k].pid = NoPid
               /\ jobs' = [jobs EXCEPT ![k] = [pid |-> pid, jid |-> nextjid, state |-> st]]
<1>1. CASE Full
  BY <1>1 DEF addjob, ListTypeOK, listVars
<1>2. CASE ~Full
  <2> DEFINE k == getjobpid(NoPid)
  <2>1. k \in Slots /\ jobs[k].pid = NoPid
    BY <1>2, GetjobpidFinds DEF Full
  <2>2. /\ jobs' = [jobs EXCEPT ![k] = [pid |-> pid, jid |-> nextjid, state |-> st]]
        /\ nextjid' = IF nextjid + 1 > MAXJOBS THEN 1 ELSE nextjid + 1
    BY <1>2 DEF addjob
  <2> HIDE DEF k
  <2>3. [pid |-> pid, jid |-> nextjid, state |-> st] \in Job
    BY DEF Job, ListTypeOK
  <2>4. jobs' \in [Slots -> Job]
    BY <2>1, <2>2, <2>3 DEF ListTypeOK
  <2>5. nextjid' \in Nat \ {0}
    BY <2>2 DEF ListTypeOK
  <2> QED
    BY <1>2, <2>1, <2>2, <2>4, <2>5 DEF ListTypeOK
<1> QED
  BY <1>1, <1>2

(* deletejob clears one slot that holds the pid, or nothing when none does.*)
LEMMA DeletejobEffect ==
  ASSUME ListTypeOK, NEW pid \in Pids \cup {NoPid}, deletejob(pid)
  PROVE  /\ ListTypeOK'
         /\ pid \notin Listed => UNCHANGED listVars
         /\ pid \in Listed => \E k \in Slots :
               /\ jobs[k].pid = pid
               /\ jobs' = [jobs EXCEPT ![k] = cleared]
               /\ nextjid' = maxjid(jobs') + 1
<1>1. CASE pid \notin Listed
  BY <1>1 DEF deletejob, ListTypeOK, listVars
<1>2. CASE pid \in Listed
  <2> DEFINE k == getjobpid(pid)
  <2>1. k \in Slots /\ jobs[k].pid = pid
    BY <1>2, GetjobpidFinds DEF Listed
  <2>2. jobs' = [jobs EXCEPT ![k] = cleared] /\ nextjid' = maxjid(jobs') + 1
    BY <1>2 DEF deletejob
  <2> HIDE DEF k
  <2>3. cleared \in Job
    BY DEF Job, cleared, States
  <2>4. jobs' \in [Slots -> Job]
    BY <2>1, <2>2, <2>3 DEF ListTypeOK
  <2>5. nextjid' \in Nat \ {0}
    BY <2>2, <2>4, MaxjidPrimed
  <2> QED
    BY <1>2, <2>1, <2>2, <2>4, <2>5 DEF ListTypeOK
<1> QED
  BY <1>1, <1>2

LEMMA SetstateEffect ==
  ASSUME ListTypeOK, NEW i, NEW st \in States, setstate(i, st)
  PROVE  ListTypeOK' /\ Listed' = Listed /\ (PidsUnique => PidsUnique')
<1>1. ListTypeOK'
  BY DEF ListTypeOK, setstate, Job
<1>2. \A k \in Slots : jobs'[k].pid = jobs[k].pid
  BY DEF ListTypeOK, setstate, Job
<1> QED
  BY <1>1, <1>2 DEF Listed, PidsUnique

-----------------------------------------------------------------------------
(* The job list used as intended.                                          *)

(* Type correctness of the list: in particular nextjid is never 0, the     *)
(* number getjobjid and atoi treat as "no job".                            *)
THEOREM ListType == ListSpec => []ListTypeOK
<1>1. ListInit => ListTypeOK
  BY JobListAssumption DEF ListInit, initjobs, ListTypeOK, Job, cleared, States
<1>2. ListTypeOK /\ [ListNext]_listVars => ListTypeOK'
  <2> SUFFICES ASSUME ListTypeOK, [ListNext]_listVars PROVE ListTypeOK'
    OBVIOUS
  <2>1. CASE Add
    BY <2>1, AddjobEffect DEF Add, States
  <2>2. CASE Delete
    BY <2>2, DeletejobEffect DEF Delete, Listed, ListTypeOK, Job
  <2>3. CASE Change
    BY <2>3, SetstateEffect DEF Change, States
  <2>4. CASE UNCHANGED listVars
    BY <2>4 DEF listVars, ListTypeOK
  <2> QED
    BY <2>1, <2>2, <2>3, <2>4 DEF ListNext
<1> QED
  BY <1>1, <1>2, PTL DEF ListSpec

(* No process is ever listed twice.                                        *)
THEOREM ListPidsUnique == ListSpec => []PidsUnique
<1>1. ListInit => PidsUnique
  BY DEF ListInit, initjobs, PidsUnique, cleared
<1>2. ListTypeOK /\ PidsUnique /\ [ListNext]_listVars => PidsUnique'
  <2> SUFFICES ASSUME ListTypeOK, PidsUnique, [ListNext]_listVars PROVE PidsUnique'
    OBVIOUS
  <2>1. CASE Add
    <3>1. PICK pid \in Pids, st \in {"FG", "BG"} : pid \notin Listed /\ addjob(pid, st)
      BY <2>1 DEF Add
    <3>2. st \in States
      BY DEF States
    <3>3. CASE Full
      BY <3>1, <3>2, <3>3, AddjobEffect DEF PidsUnique, listVars
    <3>4. CASE ~Full
      <4>1. PICK k \in Slots : jobs' = [jobs EXCEPT ![k] =
                                 [pid |-> pid, jid |-> nextjid, state |-> st]]
        BY <3>1, <3>2, <3>4, AddjobEffect
      <4>2. \A i \in Slots : jobs[i].pid # pid
        BY <3>1, JobListAssumption DEF Listed
      <4> QED
        BY <4>1, <4>2 DEF PidsUnique, ListTypeOK
    <3> QED
      BY <3>3, <3>4
  <2>2. CASE Delete
    <3>1. PICK pid \in Listed : deletejob(pid)
      BY <2>2 DEF Delete
    <3>2. pid \in Pids \cup {NoPid}
      BY DEF Listed, ListTypeOK, Job
    <3>3. PICK k \in Slots : jobs' = [jobs EXCEPT ![k] = cleared]
      BY <3>1, <3>2, DeletejobEffect
    <3> QED
      BY <3>3 DEF PidsUnique, ListTypeOK, cleared
  <2>3. CASE Change
    BY <2>3 DEF Change, setstate, PidsUnique, ListTypeOK, Job
  <2>4. CASE UNCHANGED listVars
    BY <2>4 DEF listVars, PidsUnique
  <2> QED
    BY <2>1, <2>2, <2>3, <2>4 DEF ListNext
<1> QED
  BY <1>1, <1>2, ListType, PTL DEF ListSpec

(* A free slot keeps nothing of the job it held.                           *)
THEOREM ListFreeSlots == ListSpec => []FreeSlotsCleared
<1>1. ListInit => FreeSlotsCleared
  BY DEF ListInit, initjobs, FreeSlotsCleared
<1>2. ListTypeOK /\ FreeSlotsCleared /\ [ListNext]_listVars => FreeSlotsCleared'
  <2> SUFFICES ASSUME ListTypeOK, FreeSlotsCleared, [ListNext]_listVars
               PROVE  FreeSlotsCleared'
    OBVIOUS
  <2>1. CASE Add
    <3>1. PICK pid \in Pids, st \in {"FG", "BG"} : addjob(pid, st)
      BY <2>1 DEF Add
    <3>2. st \in States /\ pid # NoPid
      BY JobListAssumption DEF States
    <3>3. CASE Full
      BY <3>1, <3>2, <3>3, AddjobEffect DEF FreeSlotsCleared, listVars
    <3>4. CASE ~Full
      BY <3>1, <3>2, <3>4, AddjobEffect DEF FreeSlotsCleared, ListTypeOK
    <3> QED
      BY <3>3, <3>4
  <2>2. CASE Delete
    <3>1. PICK pid \in Listed : deletejob(pid)
      BY <2>2 DEF Delete
    <3>2. pid \in Pids \cup {NoPid}
      BY DEF Listed, ListTypeOK, Job
    <3> QED
      BY <3>1, <3>2, DeletejobEffect DEF FreeSlotsCleared, ListTypeOK
  <2>3. CASE Change
    BY <2>3 DEF Change, setstate, FreeSlotsCleared, ListTypeOK, Job
  <2>4. CASE UNCHANGED listVars
    BY <2>4 DEF listVars, FreeSlotsCleared
  <2> QED
    BY <2>1, <2>2, <2>3, <2>4 DEF ListNext
<1> QED
  BY <1>1, <1>2, ListType, PTL DEF ListSpec

(* Until the numbers have wrapped, nextjid is above every jid in use, so   *)
(* that the next job gets a number of its own.                             *)
THEOREM ListJidFresh == ListSpec => []JidFreshUntilWrap
<1>1. ListInit => JidFreshUntilWrap
  <2> SUFFICES ASSUME ListInit PROVE JidFreshUntilWrap
    OBVIOUS
  <2>1. {0} \cup {jobs[i].jid : i \in Slots} = {0}
    BY DEF ListInit, initjobs, cleared
  <2>2. Max({0}) = 0
    BY DEF Max
  <2> QED
    BY <2>1, <2>2 DEF ListInit, initjobs, JidFreshUntilWrap, maxjid
<1>2. /\ ListTypeOK /\ ListTypeOK' /\ FreeSlotsCleared
      /\ JidFreshUntilWrap /\ [ListNext]_listVars
      => JidFreshUntilWrap'
  <2> SUFFICES ASSUME ListTypeOK, ListTypeOK', FreeSlotsCleared, JidFreshUntilWrap,
                      [ListNext]_listVars
               PROVE JidFreshUntilWrap'
    OBVIOUS
  <2> DEFINE m == maxjid(jobs)
             n == maxjid(jobs')
  <2>1. /\ m \in Nat /\ \A i \in Slots : jobs[i].jid <= m
        /\ m = 0 \/ \E i \in Slots : jobs[i].jid = m
    BY MaxjidBounds DEF ListTypeOK
  <2>2. /\ n \in Nat /\ \A i \in Slots : jobs'[i].jid <= n
        /\ n = 0 \/ \E i \in Slots : jobs'[i].jid = n
    BY MaxjidBounds DEF ListTypeOK
  <2>3. nextjid > m \/ m >= MAXJOBS
    BY DEF JidFreshUntilWrap
  <2>4. SUFFICES nextjid' > n \/ n >= MAXJOBS
    BY DEF JidFreshUntilWrap
  <2>5. CASE UNCHANGED listVars
    BY <2>3, <2>5 DEF listVars
  <2> HIDE DEF m, n
  <2>6. CASE Add
    <3>1. PICK pid \in Pids, st \in {"FG", "BG"} : addjob(pid, st)
      BY <2>6 DEF Add
    <3>2. st \in States
      BY DEF States
    <3>3. CASE Full
      BY <3>1, <3>2, <3>3, <2>3, AddjobEffect DEF listVars, m, n
    <3>4. CASE ~Full
      <4>1. PICK k \in Slots :
              /\ jobs[k].pid = NoPid
              /\ jobs' = [jobs EXCEPT ![k] = [pid |-> pid, jid |-> nextjid, state |-> st]]
        BY <3>1, <3>2, <3>4, AddjobEffect
      <4>2. nextjid' = IF nextjid + 1 > MAXJOBS THEN 1 ELSE nextjid + 1
        BY <3>1, <3>4 DEF addjob
      <4>3. jobs[k].jid = 0 /\ jobs'[k].jid = nextjid
        BY <4>1 DEF FreeSlotsCleared, cleared, ListTypeOK
      <4>4. \A i \in Slots : i # k => jobs'[i].jid = jobs[i].jid
        BY <4>1 DEF ListTypeOK
      <4>5. nextjid \in Nat \ {0} /\ MAXJOBS \in Nat \ {0}
        BY JobListAssumption DEF ListTypeOK
      <4>6. nextjid <= n
        BY <4>3, <2>2
      <4>7. CASE m >= MAXJOBS
        <5>1. PICK i \in Slots : jobs[i].jid = m
          BY <2>1, <4>5, <4>7
        <5>2. i # k
          BY <4>3, <4>5, <4>7, <5>1
        <5>3. m <= n
          BY <2>2, <4>4, <5>1, <5>2
        <5> QED
          BY <2>1, <2>2, <4>5, <4>7, <5>3
      <4>8. CASE nextjid > m /\ nextjid + 1 > MAXJOBS
        BY <4>5, <4>6, <4>8, <2>2
      <4>9. CASE nextjid > m /\ nextjid + 1 <= MAXJOBS
        <5>1. n <= nextjid
          BY <2>1, <2>2, <4>3, <4>4, <4>5, <4>9
        <5> QED
          BY <2>2, <4>2, <4>5, <4>9, <5>1
      <4> QED
        BY <2>1, <2>3, <4>5, <4>7, <4>8, <4>9
    <3> QED
      BY <3>3, <3>4
  <2>7. CASE Delete
    <3>1. PICK pid \in Listed : deletejob(pid)
      BY <2>7 DEF Delete
    <3>2. pid \in Pids \cup {NoPid}
      BY DEF Listed, ListTypeOK, Job
    <3>3. nextjid' = n + 1
      BY <3>1, <3>2, DeletejobEffect DEF n
    <3> QED
      BY <2>2, <3>3
  <2>8. CASE Change
    <3>1. nextjid' = nextjid /\ \A i \in Slots : jobs'[i].jid = jobs[i].jid
      BY <2>8 DEF Change, setstate, ListTypeOK, Job
    <3>2. m = n
      BY <3>1 DEF m, n, maxjid
    <3> QED
      BY <2>3, <3>1, <3>2
  <2> QED
    BY <2>5, <2>6, <2>7, <2>8 DEF ListNext
<1> QED
  BY <1>1, <1>2, ListType, ListFreeSlots, PTL DEF ListSpec

-----------------------------------------------------------------------------
(* The shell, with all commands.                                           *)

(* The parts of ShellInv that speak of the list and the kernel survive a   *)
(* step that leaves the list and the handlers alone and neither creates    *)
(* nor reaps a child.                                                      *)
LEMMA InvFrame ==
  ASSUME ShellInv, TypeOK', SlotLookedUp', ForkWindowQuiet',
         UNCHANGED <<jobs, nextjid, h, stack, refused>>,
         \A p \in Pids : proc'[p] = "free" <=> proc[p] = "free",
         pc = "add" <=> pc' = "add",
         pc = "add" => arg' = arg
  PROVE  ShellInv'
<1>1. Listed' = Listed
  BY DEF Listed
<1>2. PidsUnique' /\ HandlerKnowsChild' /\ HandlersStacked' /\ ReportedChild'
  BY <1>1 DEF ShellInv, PidsUnique, HandlerKnowsChild, HandlersStacked, ReportedChild
<1>3. Listed \subseteq Pids
  BY DEF ShellInv, TypeOK, ListTypeOK, Listed, Job
<1>4. ListMatchesKernel' /\ ForkedIsNew'
  BY <1>1, <1>3 DEF ShellInv, ListMatchesKernel, ForkedIsNew
<1> QED
  BY <1>2, <1>4 DEF ShellInv

-----------------------------------------------------------------------------
(* What the kernel's operations do: they keep the types and neither create *)
(* nor reap a child.                                                       *)

KernelTypes == /\ proc' \in [Pids -> ProcStates]
               /\ pend' \in [Pids -> SUBSET {"INT", "TSTP"}]
               /\ sigs' \in SUBSET Sigs
               /\ \A q \in Pids : proc'[q] = "free" <=> proc[q] = "free"

LEMMA KillGroupEffect ==
  ASSUME TypeOK, NEW p, NEW s \in {"INT", "TSTP"}, killGroup(p, s)
  PROVE  KernelTypes
<1>1. UNCHANGED <<proc, sigs>>
  BY DEF killGroup
<1>2. pend' \in [Pids -> SUBSET {"INT", "TSTP"}]
  <2> DEFINE new == IF reaches(s, p) THEN pend[p] \cup {s} ELSE pend[p]
  <2>1. p \in Pids => new \in SUBSET {"INT", "TSTP"}
    BY DEF TypeOK
  <2>2. pend' = [pend EXCEPT ![p] = new]
    BY DEF killGroup
  <2> HIDE DEF new
  <2> QED
    BY <2>1, <2>2 DEF TypeOK
<1> QED
  BY <1>1, <1>2 DEF TypeOK, KernelTypes

LEMMA ContinueGroupEffect ==
  ASSUME TypeOK, NEW p \in Pids, continueGroup(p)
  PROVE  KernelTypes
<1>1. pend' \in [Pids -> SUBSET {"INT", "TSTP"}]
  <2>1. pend[p] \ {"TSTP"} \in SUBSET {"INT", "TSTP"}
    BY DEF TypeOK
  <2> QED
    BY <2>1 DEF TypeOK, continueGroup
<1>2. sigs' \in SUBSET Sigs
  BY DEF TypeOK, continueGroup, Sigs
<1>3. /\ proc' \in [Pids -> ProcStates]
      /\ \A q \in Pids : proc'[q] = "free" <=> proc[q] = "free"
  <2>1. CASE proc[p] \in Stopped
    BY <2>1 DEF TypeOK, continueGroup, ProcStates, Stopped
  <2>2. CASE proc[p] \notin Stopped
    BY <2>2 DEF TypeOK, continueGroup
  <2> QED
    BY <2>1, <2>2
<1> QED
  BY <1>1, <1>2, <1>3 DEF KernelTypes

LEMMA ChildBecomesEffect ==
  ASSUME TypeOK, NEW p \in Pids, proc[p] # "free",
         NEW st \in {"exit", "kill", "stop"}, childBecomes(p, st)
  PROVE  KernelTypes
<1>1. pend' \in [Pids -> SUBSET {"INT", "TSTP"}]
  <2>1. (IF st \in Zombie THEN {} ELSE pend[p] \ {"TSTP"}) \in SUBSET {"INT", "TSTP"}
    BY DEF TypeOK
  <2> QED
    BY <2>1 DEF TypeOK, childBecomes
<1>2. sigs' \in SUBSET Sigs
  BY DEF TypeOK, childBecomes, Sigs
<1>3. /\ proc' \in [Pids -> ProcStates]
      /\ \A q \in Pids : proc'[q] = "free" <=> proc[q] = "free"
  BY DEF TypeOK, childBecomes, ProcStates
<1> QED
  BY <1>1, <1>2, <1>3 DEF KernelTypes

-----------------------------------------------------------------------------
(* The steps of main.                                                      *)

LEMMA InvEvalRun == ShellInv /\ EvalRun => ShellInv'
<1> SUFFICES ASSUME ShellInv, EvalRun PROVE ShellInv'
  OBVIOUS
<1>1. PICK b \in BOOLEAN : arg' = [bg |-> b, pid |-> NoPid, slot |-> 0]
  BY DEF EvalRun, noarg
<1>2. TypeOK'
  BY <1>1 DEF ShellInv, TypeOK, ListTypeOK, EvalRun, blockSignals, Locations
<1>3. pc = "prompt" /\ pc' = "fork" /\ mask' = Sigs /\ stack = <<>>
  BY DEF EvalRun, blockSignals, At
<1> QED
  BY <1>2, <1>3, InvFrame DEF EvalRun, SlotLookedUp, ForkWindowQuiet

LEMMA InvFork == ShellInv /\ Fork => ShellInv'
<1> SUFFICES ASSUME ShellInv, Fork PROVE ShellInv'
  OBVIOUS
<1>1. PICK p \in Pids : /\ proc[p] = "free"
                        /\ proc' = [proc EXCEPT ![p] = "born"]
                        /\ arg' = [arg EXCEPT !.pid = p]
  BY DEF Fork
<1>2. /\ pc = "fork" /\ pc' = "add" /\ stack = <<>> /\ mask = Sigs
      /\ UNCHANGED <<jobs, nextjid, mask, sigs, h, stack, status, pend, keys, refused>>
  BY DEF Fork, At, ShellInv, ForkWindowQuiet
<1>3. h["CHLD"] = idle
  BY <1>2 DEF ShellInv, HandlersStacked, Sigs
<1>4. p \notin Listed
  BY <1>1, <1>3 DEF ShellInv, ListMatchesKernel, idle
<1>5. TypeOK'
  BY <1>1, <1>2 DEF ShellInv, TypeOK, ListTypeOK, Locations, ProcStates
<1>6. Listed' = Listed /\ arg'.pid = p /\ proc'[p] = "born"
  BY <1>1, <1>2 DEF Listed, ShellInv, TypeOK
<1>7. ListMatchesKernel'
  BY <1>1, <1>2, <1>3, <1>6 DEF ShellInv, TypeOK, ListMatchesKernel
<1>8. ForkedIsNew' /\ HandlerKnowsChild' /\ ReportedChild'
  BY <1>2, <1>3, <1>4, <1>6 DEF ForkedIsNew, HandlerKnowsChild, ReportedChild, idle
<1>9. PidsUnique' /\ HandlersStacked' /\ ForkWindowQuiet' /\ SlotLookedUp'
  BY <1>2 DEF ShellInv, PidsUnique, HandlersStacked, ForkWindowQuiet, SlotLookedUp
<1> QED
  BY <1>5, <1>7, <1>8, <1>9 DEF ShellInv

LEMMA InvEvalAdd == ShellInv /\ EvalAdd => ShellInv'
<1> SUFFICES ASSUME ShellInv, EvalAdd PROVE ShellInv'
  OBVIOUS
<1> DEFINE p == arg.pid
           st == IF arg.bg THEN "BG" ELSE "FG"
<1>1. /\ pc = "add" /\ pc' = "unblock" /\ stack = <<>> /\ mask = Sigs
      /\ UNCHANGED <<arg, mask, sigs, h, stack, status, proc, pend, keys>>
      /\ p \in Pids /\ p \notin Listed /\ st \in States /\ addjob(p, st)
      /\ refused' = IF Full THEN refused \cup {p} ELSE refused
  BY DEF EvalAdd, At, ShellInv, ForkWindowQuiet, ForkedIsNew, States
<1>2. h["CHLD"] = idle
  BY <1>1 DEF ShellInv, HandlersStacked, Sigs
<1> HIDE DEF p, st
<1>3. TypeOK'
  <2>1. ListTypeOK'
    BY <1>1, AddjobEffect DEF ShellInv, TypeOK
  <2> QED
    BY <1>1, <2>1 DEF ShellInv, TypeOK, Locations
<1>4. /\ Listed \subseteq Listed' /\ Listed' \subseteq Listed \cup {p}
      /\ p \in Listed' \cup refused'
      /\ PidsUnique'
  <2>1. CASE Full
    <3>1. jobs' = jobs
      BY <1>1, <2>1, AddjobEffect DEF ShellInv, TypeOK, listVars
    <3> QED
      BY <1>1, <2>1, <3>1 DEF Listed, ShellInv, PidsUnique
  <2>2. CASE ~Full
    <3>1. PICK k \in Slots : /\ jobs[k].pid = NoPid
                             /\ jobs' = [jobs EXCEPT ![k] =
                                  [pid |-> p, jid |-> nextjid, state |-> st]]
      BY <1>1, <2>2, AddjobEffect DEF ShellInv, TypeOK
    <3>2. /\ jobs'[k].pid = p
          /\ \A i \in Slots : i # k => jobs'[i].pid = jobs[i].pid
      BY <3>1 DEF ShellInv, TypeOK, ListTypeOK
    <3>3. p # NoPid /\ \A i \in Slots : jobs[i].pid # p
      BY <1>1, JobListAssumption DEF Listed
    <3> QED
      BY <3>1, <3>2, <3>3 DEF Listed, ShellInv, PidsUnique
  <2> QED
    BY <2>1, <2>2
<1>5. proc[p] # "free"
  BY <1>1 DEF ShellInv, ForkedIsNew, p
<1>6. ListMatchesKernel'
  BY <1>1, <1>2, <1>4, <1>5 DEF ShellInv, ListMatchesKernel, idle, p
<1>7. HandlerKnowsChild' /\ ReportedChild'
  BY <1>1, <1>2 DEF HandlerKnowsChild, ReportedChild, idle
<1>8. HandlersStacked' /\ ForkWindowQuiet' /\ ForkedIsNew' /\ SlotLookedUp'
  BY <1>1 DEF ShellInv, HandlersStacked, ForkWindowQuiet, ForkedIsNew, SlotLookedUp
<1> QED
  BY <1>3, <1>4, <1>6, <1>7, <1>8 DEF ShellInv

LEMMA InvEvalUnblock == ShellInv /\ EvalUnblock => ShellInv'
<1> SUFFICES ASSUME ShellInv, EvalUnblock PROVE ShellInv'
  OBVIOUS
<1>1. TypeOK'
  BY DEF ShellInv, TypeOK, ListTypeOK, EvalUnblock, Locations
<1> QED
  BY <1>1, InvFrame DEF EvalUnblock, At, SlotLookedUp, ForkWindowQuiet

LEMMA InvEnds ==
  ASSUME ShellInv, NEW how \in {"quit", "died", "crash"}, Ends(how)
  PROVE  ShellInv'
<1>1. TypeOK'
  BY DEF ShellInv, TypeOK, ListTypeOK, Ends
<1> QED
  BY <1>1, InvFrame DEF Ends, ShellInv, SlotLookedUp, ForkWindowQuiet

(* Back at the prompt.                                                     *)
LEMMA InvReturn ==
  ASSUME ShellInv, pc \in {"print", "waitfg"}, pc' = "prompt", arg' = noarg,
         UNCHANGED <<jobs, nextjid, mask, sigs, h, stack, status, proc, pend, keys, refused>>
  PROVE  ShellInv'
<1>1. TypeOK'
  BY DEF ShellInv, TypeOK, ListTypeOK, Locations, noarg
<1> QED
  BY <1>1, InvFrame DEF SlotLookedUp, ForkWindowQuiet

LEMMA InvEvalPrint == ShellInv /\ EvalPrint => ShellInv'
BY InvReturn, InvEnds DEF EvalPrint, At

LEMMA InvWaitfgReturns == ShellInv /\ WaitfgReturns => ShellInv'
BY InvReturn DEF WaitfgReturns, At

LEMMA InvBgfgLookup == ShellInv /\ (BgfgByJid \/ BgfgByPid) => ShellInv'
<1> SUFFICES ASSUME ShellInv, BgfgByJid \/ BgfgByPid PROVE ShellInv'
  OBVIOUS
<1>1. /\ pc = "prompt" /\ pc' \in {"readpid", "cont"}
      /\ UNCHANGED <<jobs, nextjid, mask, sigs, h, stack, status, proc, pend, keys, refused>>
  BY DEF BgfgByJid, BgfgByPid, At
<1>2. /\ arg' \in [bg : BOOLEAN, pid : Pids \cup {NoPid}, slot : Slots \cup {0}]
      /\ pc' = "readpid" => arg'.slot \in Slots
  <2>1. CASE BgfgByJid
    <3>1. PICK c \in Commands, i \in Slots :
            arg' = [bg |-> c = "bg %jid", pid |-> NoPid, slot |-> i]
      BY <2>1 DEF BgfgByJid
    <3> QED
      BY <3>1
  <2>2. CASE BgfgByPid
    <3>1. PICK c \in Commands, p \in Listed :
            arg' = [bg |-> c = "bg pid", pid |-> p, slot |-> getjobpid(p)]
      BY <2>2 DEF BgfgByPid
    <3>2. p \in Pids /\ \E i \in Slots : jobs[i].pid = p
      BY DEF Listed, ShellInv, TypeOK, ListTypeOK, Job
    <3>3. getjobpid(p) \in Slots
      BY <3>2, GetjobpidFinds
    <3> QED
      BY <2>2, <3>1, <3>2, <3>3 DEF BgfgByPid
  <2> QED
    BY <2>1, <2>2
<1>3. TypeOK'
  BY <1>1, <1>2 DEF ShellInv, TypeOK, ListTypeOK, Locations
<1> QED
  BY <1>1, <1>2, <1>3, InvFrame DEF SlotLookedUp, ForkWindowQuiet

LEMMA InvBgfgReadPid == ShellInv /\ BgfgReadPid => ShellInv'
<1> SUFFICES ASSUME ShellInv, BgfgReadPid PROVE ShellInv'
  OBVIOUS
<1>1. pc = "readpid" /\ pc' = "cont" /\ jobs[arg.slot].pid \in Pids \cup {NoPid}
  BY DEF BgfgReadPid, At, ShellInv, SlotLookedUp, TypeOK, ListTypeOK, Job
<1>2. TypeOK'
  BY <1>1 DEF ShellInv, TypeOK, ListTypeOK, BgfgReadPid, Locations
<1> QED
  BY <1>1, <1>2, InvFrame DEF BgfgReadPid, SlotLookedUp, ForkWindowQuiet

LEMMA InvBgfgContinue == ShellInv /\ BgfgContinue => ShellInv'
<1> SUFFICES ASSUME ShellInv, BgfgContinue PROVE ShellInv'
  OBVIOUS
<1>1. CASE Ends("died")
  BY <1>1, InvEnds
<1>2. CASE ~Ends("died")
  <2>1. /\ pc = "cont" /\ pc' = "set"
        /\ UNCHANGED <<jobs, nextjid, arg, mask, h, stack, status, keys, refused>>
        /\ \/ UNCHANGED <<proc, pend, sigs>>
           \/ arg.pid \in Pids /\ continueGroup(arg.pid)
    BY <1>2 DEF BgfgContinue, At, ShellInv, TypeOK
  <2>2. KernelTypes
    <3>1. CASE UNCHANGED <<proc, pend, sigs>>
      BY <3>1 DEF KernelTypes, ShellInv, TypeOK
    <3>2. CASE arg.pid \in Pids /\ continueGroup(arg.pid)
      BY <3>2, ContinueGroupEffect DEF ShellInv
    <3> QED
      BY <2>1, <3>1, <3>2
  <2>3. TypeOK'
    BY <2>1, <2>2 DEF ShellInv, TypeOK, ListTypeOK, Locations, KernelTypes
  <2> QED
    BY <2>1, <2>2, <2>3, InvFrame DEF SlotLookedUp, ForkWindowQuiet, KernelTypes
<1> QED
  BY <1>1, <1>2

(* A state is written through the pointer; no entry comes or goes.         *)
LEMMA InvSetState ==
  ASSUME ShellInv, NEW i, NEW st \in States, setstate(i, st), TypeOK',
         SlotLookedUp', ForkWindowQuiet', pc # "add", pc' # "add",
         UNCHANGED <<proc, refused>>,
         HandlersStacked', HandlerKnowsChild', ReportedChild',
         \A p \in Listed : proc[p] = "free" => h'["CHLD"] = h["CHLD"]
  PROVE  ShellInv'
<1>1. Listed' = Listed /\ PidsUnique'
  BY SetstateEffect DEF ShellInv, TypeOK
<1>2. ListMatchesKernel' /\ ForkedIsNew'
  BY <1>1 DEF ShellInv, ListMatchesKernel, ForkedIsNew
<1> QED
  BY <1>1, <1>2 DEF ShellInv

LEMMA InvBgfgSetState == ShellInv /\ BgfgSetState => ShellInv'
<1> SUFFICES ASSUME ShellInv, BgfgSetState PROVE ShellInv'
  OBVIOUS
<1> DEFINE st == IF arg.bg THEN "BG" ELSE "FG"
<1>1. /\ pc = "set" /\ pc' \in {"prompt", "waitfg"} /\ arg' \in {noarg, arg}
      /\ st \in States /\ setstate(arg.slot, st)
      /\ UNCHANGED <<mask, sigs, h, stack, status, proc, pend, keys, refused>>
  BY DEF BgfgSetState, At, States
<1> HIDE DEF st
<1>2. ListTypeOK' /\ Listed' = Listed
  BY <1>1, SetstateEffect DEF ShellInv, TypeOK
<1>3. TypeOK'
  <2>1. noarg \in [bg : BOOLEAN, pid : Pids \cup {NoPid}, slot : Slots \cup {0}]
    BY DEF noarg
  <2> QED
    BY <1>1, <1>2, <2>1 DEF ShellInv, TypeOK, Locations
<1>4. HandlersStacked' /\ HandlerKnowsChild' /\ ReportedChild'
  BY <1>1, <1>2 DEF ShellInv, HandlersStacked, HandlerKnowsChild, ReportedChild
<1>5. SlotLookedUp' /\ ForkWindowQuiet'
  BY <1>1 DEF SlotLookedUp, ForkWindowQuiet
<1> QED
  BY <1>1, <1>3, <1>4, <1>5, InvSetState

LEMMA InvMainStep == ShellInv /\ MainStep => ShellInv'
BY InvEvalRun, InvFork, InvEnds, InvEvalAdd, InvEvalUnblock, InvEvalPrint,
   InvWaitfgReturns, InvBgfgLookup, InvBgfgReadPid, InvBgfgContinue, InvBgfgSetState
   DEF MainStep, ForkFails

-----------------------------------------------------------------------------
(* The steps of children, of the user and of the kernel.                   *)

LEMMA InvChildStep == ShellInv /\ ChildStep => ShellInv'
<1> SUFFICES ASSUME ShellInv, ChildStep PROVE ShellInv'
  OBVIOUS
<1>1. UNCHANGED <<jobs, nextjid, pc, arg, mask, h, stack, status, keys, refused>>
  BY DEF ChildStep
<1>2. PICK p \in Pids : \/ JoinGroup(p) \/ Exec(p) \/ Exit(p) \/ Killed(p)
                       \/ StopsItself(p) \/ TakeSignal(p)
  BY DEF ChildStep
<1>3. KernelTypes
  <2>1. CASE JoinGroup(p) \/ Exec(p)
    <3>1. PICK st \in {"image", "run"} : proc' = [proc EXCEPT ![p] = st]
      BY <2>1 DEF JoinGroup, Exec
    <3>2. proc[p] # "free" /\ UNCHANGED <<pend, sigs>>
      BY <2>1 DEF JoinGroup, Exec
    <3> QED
      BY <3>1, <3>2 DEF KernelTypes, ShellInv, TypeOK, ProcStates
  <2>2. CASE Exit(p) \/ Killed(p) \/ StopsItself(p) \/ TakeSignal(p)
    <3>1. proc[p] # "free"
      BY <2>2 DEF Exit, Killed, StopsItself, TakeSignal, Stopped
    <3>2. \E st \in {"exit", "kill", "stop"} : childBecomes(p, st)
      BY <2>2 DEF Exit, Killed, StopsItself, TakeSignal
    <3> QED
      BY <3>1, <3>2, ChildBecomesEffect DEF ShellInv
  <2> QED
    BY <1>2, <2>1, <2>2
<1>4. TypeOK'
  BY <1>1, <1>3 DEF ShellInv, TypeOK, ListTypeOK, KernelTypes
<1> QED
  BY <1>1, <1>3, <1>4, InvFrame
     DEF ShellInv, SlotLookedUp, ForkWindowQuiet, KernelTypes

LEMMA InvType == ShellInv /\ Type => ShellInv'
<1> SUFFICES ASSUME ShellInv, Type PROVE ShellInv'
  OBVIOUS
<1>1. TypeOK'
  BY TshAssumption DEF ShellInv, TypeOK, ListTypeOK, Type, Sigs
<1> QED
  BY <1>1, InvFrame DEF Type, ShellInv, SlotLookedUp, ForkWindowQuiet

LEMMA InvQuit == ShellInv /\ Quit => ShellInv'
BY InvEnds DEF Quit

-----------------------------------------------------------------------------
(* The steps of the handlers.                                              *)

(* A signal is only delivered outside eval's window.                       *)
LEMMA InvDeliver ==
  ASSUME ShellInv, NEW s \in Sigs, Deliver(s)
  PROVE  ShellInv'
<1>1. /\ h[s] = idle /\ s \notin mask
      /\ stack' = Append(stack, s)
      /\ h' = [h EXCEPT ![s].pc = "start"]
      /\ sigs' = sigs \ {s}
      /\ UNCHANGED <<jobs, nextjid, pc, arg, mask, status, proc, pend, keys, refused>>
  BY DEF Deliver
<1>2. TypeOK'
  <2>1. stack' \in Seq(Sigs)
    BY <1>1 DEF ShellInv, TypeOK
  <2>2. [h[s] EXCEPT !.pc = "start"] \in [pc : {"idle", "start", "got", "kill"},
                     pid : Pids \cup {NoPid}, why : {"none", "exit", "kill", "stop"}]
    BY <1>1 DEF idle
  <2> QED
    BY <1>1, <2>1, <2>2 DEF ShellInv, TypeOK, ListTypeOK
<1>3. HandlersStacked'
  <2>1. /\ stack \in Seq(Sigs) /\ Len(stack') = Len(stack) + 1
        /\ stack'[Len(stack) + 1] = s
        /\ \A i \in 1 .. Len(stack) : stack'[i] = stack[i]
    BY <1>1 DEF ShellInv, TypeOK
  <2>2. \A r \in Sigs : r # s => h'[r] = h[r]
    BY <1>1 DEF ShellInv, TypeOK
  <2> SUFFICES ASSUME NEW r \in Sigs, h'[r] # idle
               PROVE \E i \in 1 .. Len(stack') : stack'[i] = r
    BY DEF HandlersStacked
  <2>3. CASE r = s
    BY <2>1, <2>3
  <2>4. CASE r # s
    <3>1. PICK i \in 1 .. Len(stack) : stack[i] = r
      BY <2>2, <2>4 DEF ShellInv, HandlersStacked
    <3> QED
      BY <2>1, <3>1
  <2> QED
    BY <2>3, <2>4
<1>4. pc \notin {"fork", "add", "unblock"}
  BY <1>1 DEF ShellInv, ForkWindowQuiet
<1>5. h'["CHLD"].pc = "got" => h'["CHLD"] = h["CHLD"]
  BY <1>1 DEF ShellInv, TypeOK, Sigs
<1>6. h["CHLD"].pc = "got" => h'["CHLD"] = h["CHLD"]
  BY <1>1 DEF ShellInv, TypeOK, Sigs, idle
<1>7. Listed' = Listed
  BY <1>1 DEF Listed
<1>8. ListMatchesKernel' /\ HandlerKnowsChild' /\ ReportedChild'
  BY <1>1, <1>5, <1>6, <1>7
     DEF ShellInv, ListMatchesKernel, HandlerKnowsChild, ReportedChild
<1>9. PidsUnique' /\ ForkWindowQuiet' /\ ForkedIsNew' /\ SlotLookedUp'
  BY <1>1, <1>4 DEF ShellInv, PidsUnique, ForkWindowQuiet, ForkedIsNew, SlotLookedUp
<1> QED
  BY <1>2, <1>3, <1>8, <1>9 DEF ShellInv

(* A handler that leaves the stack: those below it stay.                   *)
LEMMA StackedAfterLeave ==
  ASSUME ShellInv, NEW s \in Sigs, Running(s), leave(s)
  PROVE  /\ stack' \in Seq(Sigs)
         /\ HandlersStacked'
         /\ \A r \in Sigs : r # s => h'[r] = h[r]
         /\ h'[s] = idle
<1>1. stack \in Seq(Sigs) /\ Len(stack) > 0 /\ stack[Len(stack)] = s
  BY DEF Running, ShellInv, TypeOK
<1>2. /\ stack' \in Seq(Sigs) /\ Len(stack') = Len(stack) - 1
      /\ \A i \in 1 .. Len(stack) - 1 : stack'[i] = stack[i]
  <2> DEFINE n == Len(stack) - 1
  <2>1. n \in Nat /\ n \in Int /\ 1 \in Int
    BY <1>1
  <2>2. \A i \in 1 .. n : stack[i] \in Sigs
    BY <1>1
  <2>3. stack' = SubSeq(stack, 1, n)
    BY DEF leave
  <2> HIDE DEF n
  <2>4. /\ SubSeq(stack, 1, n) \in Seq(Sigs)
        /\ Len(SubSeq(stack, 1, n)) = IF 1 <= n THEN n - 1 + 1 ELSE 0
        /\ \A i \in 1 .. n - 1 + 1 : SubSeq(stack, 1, n)[i] = stack[1 + i - 1]
    BY <2>1, <2>2, SubSeqProperties
  <2>5. /\ stack' \in Seq(Sigs) /\ Len(stack') = n
        /\ \A i \in 1 .. n : stack'[i] = stack[i]
    BY <2>1, <2>3, <2>4
  <2> QED
    BY <2>5 DEF n
<1>3. (\A r \in Sigs : r # s => h'[r] = h[r]) /\ h'[s] = idle
  BY DEF leave, ShellInv, TypeOK
<1>4. ASSUME NEW r \in Sigs, h'[r] # idle
      PROVE  \E i \in 1 .. Len(stack') : stack'[i] = r
  <2>1. r # s /\ h[r] # idle
    BY <1>3, <1>4
  <2>2. PICK i \in 1 .. Len(stack) : stack[i] = r
    BY <2>1 DEF ShellInv, HandlersStacked
  <2>3. i \in 1 .. Len(stack) - 1
    BY <1>1, <2>1, <2>2
  <2> QED
    BY <1>2, <2>2, <2>3
<1> QED
  BY <1>2, <1>3, <1>4 DEF HandlersStacked

(* While sigchld_handler works on no child, its leaving changes nothing    *)
(* for the list; neither do the other two handlers.                        *)
LEMMA InvLeave ==
  ASSUME ShellInv, NEW s \in Sigs, Running(s), leave(s),
         h["CHLD"].pc = "got" => s # "CHLD",
         KernelTypes,
         UNCHANGED <<jobs, nextjid, pc, arg, mask, status, keys, refused>>
  PROVE  ShellInv'
<1>1. /\ stack' \in Seq(Sigs) /\ HandlersStacked'
      /\ \A r \in Sigs : r # s => h'[r] = h[r]
      /\ h'[s] = idle
  BY StackedAfterLeave
<1>2. TypeOK'
  <2>1. idle \in [pc : {"idle", "start", "got", "kill"}, pid : Pids \cup {NoPid},
                  why : {"none", "exit", "kill", "stop"}]
    BY DEF idle
  <2>2. h' = [h EXCEPT ![s] = idle]
    BY DEF leave
  <2> QED
    BY <1>1, <2>1, <2>2 DEF ShellInv, TypeOK, ListTypeOK, KernelTypes
<1>3. h["CHLD"].pc = "got" => h'["CHLD"] = h["CHLD"]
  BY <1>1 DEF Sigs
<1>4. h'["CHLD"].pc = "got" => h'["CHLD"] = h["CHLD"]
  BY <1>1 DEF Sigs, idle
<1>5. Listed' = Listed /\ Listed \subseteq Pids
  BY DEF Listed, ShellInv, TypeOK, ListTypeOK, Job
<1>6. ListMatchesKernel' /\ HandlerKnowsChild' /\ ReportedChild'
  BY <1>3, <1>4, <1>5 DEF ShellInv, ListMatchesKernel, HandlerKnowsChild,
                          ReportedChild, KernelTypes
<1>7. stack # <<>>
  BY DEF Running
<1>8. PidsUnique' /\ ForkWindowQuiet' /\ ForkedIsNew' /\ SlotLookedUp'
  BY <1>5, <1>7 DEF ShellInv, PidsUnique, ForkWindowQuiet, ForkedIsNew, SlotLookedUp
<1> QED
  BY <1>1, <1>2, <1>6, <1>8 DEF ShellInv

LEMMA InvWaitpid == ShellInv /\ Waitpid => ShellInv'
<1> SUFFICES ASSUME ShellInv, Waitpid PROVE ShellInv'
  OBVIOUS
<1>1. PICK p \in Pids :
        /\ proc[p] \in Zombie \cup {"stop"}
        /\ proc' = [proc EXCEPT ![p] = IF @ = "stop" THEN "halt" ELSE "free"]
        /\ h' = [h EXCEPT !["CHLD"] = [pc |-> "got", pid |-> p, why |-> proc[p]]]
  BY DEF Waitpid
<1>2. /\ h["CHLD"].pc = "start" /\ stack # <<>>
      /\ \E i \in 1 .. Len(stack) : stack[i] = "CHLD"
      /\ UNCHANGED <<jobs, nextjid, pc, arg, mask, sigs, stack, status, pend, keys, refused>>
  BY DEF Waitpid, Running, ShellInv, TypeOK
<1>3. pc \notin {"fork", "add", "unblock"}
  BY <1>2 DEF ShellInv, ForkWindowQuiet
<1>4. /\ h'["CHLD"] = [pc |-> "got", pid |-> p, why |-> proc[p]]
      /\ \A r \in Sigs : r # "CHLD" => h'[r] = h[r]
  BY <1>1 DEF ShellInv, TypeOK, Sigs
<1>5. /\ proc' \in [Pids -> ProcStates]
      /\ \A q \in Pids : q # p => proc'[q] = proc[q]
      /\ proc[p] # "free"
      /\ proc'[p] = "free" <=> proc[p] # "stop"
  BY <1>1 DEF ShellInv, TypeOK, ProcStates, Zombie
<1>6. TypeOK'
  <2>1. [pc |-> "got", pid |-> p, why |-> proc[p]]
          \in [pc : {"idle", "start", "got", "kill"}, pid : Pids \cup {NoPid},
               why : {"none", "exit", "kill", "stop"}]
    BY <1>1 DEF Zombie
  <2> QED
    BY <1>1, <1>2, <1>5, <2>1 DEF ShellInv, TypeOK, ListTypeOK
<1>7. Listed' = Listed /\ Listed \subseteq Pids
  BY <1>2 DEF Listed, ShellInv, TypeOK, ListTypeOK, Job
<1>8. p \in Listed \cup refused
  BY <1>3, <1>5 DEF ShellInv, ListMatchesKernel
<1>9. ListMatchesKernel'
  BY <1>1, <1>2, <1>3, <1>4, <1>5, <1>7, <1>8 DEF ShellInv, ListMatchesKernel, Zombie
<1>10. HandlerKnowsChild' /\ ReportedChild'
  BY <1>1, <1>2, <1>4, <1>5, <1>7, <1>8 DEF HandlerKnowsChild, ReportedChild, Zombie
<1>11. HandlersStacked'
  BY <1>2, <1>4 DEF ShellInv, HandlersStacked
<1>12. PidsUnique' /\ ForkWindowQuiet' /\ ForkedIsNew' /\ SlotLookedUp'
  BY <1>2, <1>3 DEF ShellInv, PidsUnique, ForkWindowQuiet, ForkedIsNew, SlotLookedUp
<1> QED
  BY <1>6, <1>9, <1>10, <1>11, <1>12 DEF ShellInv

LEMMA InvWaitpidNone == ShellInv /\ WaitpidNone => ShellInv'
<1> SUFFICES ASSUME ShellInv, WaitpidNone PROVE ShellInv'
  OBVIOUS
<1>1. KernelTypes
  BY DEF WaitpidNone, KernelTypes, ShellInv, TypeOK
<1> QED
  BY <1>1, InvLeave DEF WaitpidNone, Sigs

LEMMA InvUpdate == ShellInv /\ Update => ShellInv'
<1> SUFFICES ASSUME ShellInv, Update PROVE ShellInv'
  OBVIOUS
<1> DEFINE p == h["CHLD"].pid
           why == h["CHLD"].why
<1>1. CASE Ends("crash")
  BY <1>1, InvEnds
<1>2. CASE ~Ends("crash")
  <2>0. stack \in Seq(Sigs) /\ stack # <<>> /\ stack[Len(stack)] = "CHLD"
    BY DEF Update, Running, ShellInv, TypeOK
  <2>1. /\ h["CHLD"].pc = "got" /\ stack # <<>>
        /\ \E i \in 1 .. Len(stack) : stack[i] = "CHLD"
        /\ record(p, why)
        /\ h' = [h EXCEPT !["CHLD"] = [idle EXCEPT !.pc = "start"]]
        /\ refused' = IF why = "stop" THEN refused ELSE refused \ {p}
        /\ UNCHANGED <<pc, arg, mask, sigs, stack, status, proc, pend, keys>>
    <3>1. \E i \in 1 .. Len(stack) : stack[i] = "CHLD"
      BY <2>0
    <3> QED
      BY <1>2, <2>0, <3>1 DEF Update, again
  <2>2. pc \notin {"fork", "add", "unblock"}
    BY <2>1 DEF ShellInv, ForkWindowQuiet
  <2>3. p \in Pids /\ (why # "stop" => proc[p] = "free")
    BY <2>1 DEF ShellInv, ReportedChild
  <2>4. /\ h'["CHLD"].pc = "start"
        /\ \A r \in Sigs : r # "CHLD" => h'[r] = h[r]
    BY <2>1 DEF ShellInv, TypeOK, Sigs, idle
  <2>5. /\ ListTypeOK' /\ PidsUnique'
        /\ Listed' = IF why = "stop" THEN Listed ELSE Listed \ {p}
    <3>1. CASE why = "stop"
      <4>1. setstate(getjobpid(p), "ST")
        BY <2>1, <3>1 DEF record
      <4> QED
        BY <3>1, <4>1, SetstateEffect DEF ShellInv, TypeOK, States
    <3>2. CASE why # "stop" /\ p \notin Listed
      <4>1. deletejob(p)
        BY <2>1, <3>2 DEF record
      <4>2. UNCHANGED listVars
        BY <2>3, <3>2, <4>1, DeletejobEffect DEF ShellInv, TypeOK
      <4> QED
        BY <3>2, <4>2 DEF listVars, ShellInv, TypeOK, ListTypeOK, PidsUnique, Listed
    <3>3. CASE why # "stop" /\ p \in Listed
      <4>1. deletejob(p)
        BY <2>1, <3>3 DEF record
      <4> HIDE DEF p
      <4>2. ListTypeOK'
        BY <2>3, <4>1, DeletejobEffect DEF ShellInv, TypeOK
      <4>3. PICK k \in Slots : jobs[k].pid = p /\ jobs' = [jobs EXCEPT ![k] = cleared]
        BY <2>3, <3>3, <4>1, DeletejobEffect DEF ShellInv, TypeOK
      <4>4. /\ jobs'[k].pid = NoPid
            /\ \A i \in Slots : i # k => jobs'[i].pid = jobs[i].pid
        BY <4>3 DEF ShellInv, TypeOK, ListTypeOK, cleared
      <4>5. p # NoPid
        BY <3>3 DEF Listed
      <4>6. PidsUnique'
        BY <4>4 DEF ShellInv, PidsUnique
      <4>7. Listed' = Listed \ {p}
        BY <4>3, <4>4, <4>5 DEF Listed, ShellInv, PidsUnique
      <4> QED
        BY <3>3, <4>2, <4>6, <4>7
    <3> QED
      BY <3>1, <3>2, <3>3
  <2>6. TypeOK'
    <3>1. [idle EXCEPT !.pc = "start"]
            \in [pc : {"idle", "start", "got", "kill"}, pid : Pids \cup {NoPid},
                 why : {"none", "exit", "kill", "stop"}]
      BY DEF idle
    <3> QED
      BY <2>1, <2>5, <3>1 DEF ShellInv, TypeOK
  <2>7. ListMatchesKernel'
    BY <2>1, <2>2, <2>3, <2>4, <2>5 DEF ShellInv, ListMatchesKernel, ReportedChild, Zombie
  <2>8. HandlerKnowsChild' /\ ReportedChild'
    BY <2>4 DEF HandlerKnowsChild, ReportedChild
  <2>9. HandlersStacked'
    BY <2>1, <2>4 DEF ShellInv, HandlersStacked
  <2>10. ForkWindowQuiet' /\ ForkedIsNew' /\ SlotLookedUp'
    BY <2>1, <2>2 DEF ShellInv, ForkWindowQuiet, ForkedIsNew, SlotLookedUp
  <2> QED
    BY <2>5, <2>6, <2>7, <2>8, <2>9, <2>10 DEF ShellInv
<1> QED
  BY <1>1, <1>2

LEMMA FgpidType == TypeOK => fgpid \in Pids \cup {NoPid}
<1> SUFFICES ASSUME TypeOK PROVE fgpid \in Pids \cup {NoPid}
  OBVIOUS
<1> DEFINE S == {k \in Slots : jobs[k].state = "FG"}
<1>1. first(S) = 0 \/ first(S) \in Slots
  <2>1. S \in SUBSET Slots
    OBVIOUS
  <2> HIDE DEF S
  <2> QED
    BY <2>1, FirstSlot
<1> QED
  BY <1>1 DEF fgpid, TypeOK, ListTypeOK, Job

LEMMA InvFindForeground ==
  ASSUME ShellInv, NEW s \in {"INT", "TSTP"}, FindForeground(s)
  PROVE  ShellInv'
<1>1. /\ s \in Sigs /\ s # "CHLD" /\ Running(s) /\ KernelTypes
      /\ UNCHANGED <<jobs, nextjid, pc, arg, mask, sigs, status, proc, pend, keys, refused>>
  BY DEF FindForeground, Sigs, KernelTypes, ShellInv, TypeOK
<1>2. CASE leave(s)
  BY <1>1, <1>2, InvLeave
<1>3. CASE ~leave(s)
  <2>1. /\ h' = [h EXCEPT ![s] = [pc |-> "kill", pid |-> fgpid, why |-> "none"]]
        /\ UNCHANGED stack
    BY <1>3 DEF FindForeground
  <2>2. fgpid \in Pids \cup {NoPid}
    BY FgpidType DEF ShellInv
  <2>3. [pc |-> "kill", pid |-> fgpid, why |-> "none"]
          \in [pc : {"idle", "start", "got", "kill"}, pid : Pids \cup {NoPid},
               why : {"none", "exit", "kill", "stop"}]
    BY <2>2
  <2>4. TypeOK'
    BY <1>1, <2>1, <2>3 DEF ShellInv, TypeOK, ListTypeOK
  <2>5. h'["CHLD"] = h["CHLD"] /\ Listed' = Listed
    BY <1>1, <2>1 DEF ShellInv, TypeOK, Sigs, Listed
  <2>6. HandlersStacked'
    <3>1. \E i \in 1 .. Len(stack) : stack[i] = s
      BY <1>1 DEF Running, ShellInv, TypeOK
    <3>2. \A r \in Sigs : r # s => h'[r] = h[r]
      BY <2>1 DEF ShellInv, TypeOK
    <3> QED
      BY <2>1, <3>1, <3>2 DEF ShellInv, HandlersStacked
  <2>7. ListMatchesKernel' /\ HandlerKnowsChild' /\ ReportedChild'
    BY <1>1, <2>5 DEF ShellInv, ListMatchesKernel, HandlerKnowsChild, ReportedChild
  <2>8. PidsUnique' /\ ForkWindowQuiet' /\ ForkedIsNew' /\ SlotLookedUp'
    BY <1>1, <2>1, <2>5 DEF ShellInv, PidsUnique, ForkWindowQuiet, ForkedIsNew, SlotLookedUp
  <2> QED
    BY <2>4, <2>6, <2>7, <2>8 DEF ShellInv
<1> QED
  BY <1>2, <1>3

LEMMA InvForward ==
  ASSUME ShellInv, NEW s \in {"INT", "TSTP"}, Forward(s)
  PROVE  ShellInv'
<1>1. CASE Ends("died")
  BY <1>1, InvEnds
<1>2. CASE ~Ends("died")
  <2>1. /\ s \in Sigs /\ s # "CHLD" /\ Running(s)
        /\ killGroup(h[s].pid, s) /\ leave(s)
        /\ UNCHANGED <<jobs, nextjid, pc, arg, mask, status, keys, refused>>
    BY <1>2 DEF Forward, Sigs
  <2>2. KernelTypes
    BY <2>1, KillGroupEffect DEF ShellInv
  <2> QED
    BY <2>1, <2>2, InvLeave
<1> QED
  BY <1>1, <1>2

LEMMA InvHandlerStep == ShellInv /\ HandlerStep => ShellInv'
BY InvWaitpid, InvWaitpidNone, InvUpdate, InvFindForeground, InvForward DEF HandlerStep

-----------------------------------------------------------------------------
(* The shell.                                                              *)

LEMMA InvInit == Init => ShellInv
BY TshAssumption, JobListAssumption
   DEF Init, initjobs, cleared, noarg, idle, ShellInv, TypeOK, ListTypeOK, Job, States,
       Locations, ProcStates, Sigs, Listed, PidsUnique, ListMatchesKernel,
       HandlerKnowsChild, HandlersStacked, ForkWindowQuiet, ForkedIsNew, ReportedChild,
       SlotLookedUp

(* In every reachable state the job list and the kernel agree, and the     *)
(* other conjuncts of ShellInv hold, for any table, any set of processes   *)
(* and any commands and keys, fg and bg included.                          *)
THEOREM ShellInvariant == Spec => []ShellInv
<1>1. ShellInv /\ UNCHANGED vars => ShellInv'
  BY DEF vars, ShellInv, TypeOK, ListTypeOK, Listed, PidsUnique, ListMatchesKernel,
         HandlerKnowsChild, HandlersStacked, ForkWindowQuiet, ForkedIsNew,
         ReportedChild, SlotLookedUp
<1>2. ShellInv /\ [Next]_vars => ShellInv'
  BY <1>1, InvMainStep, InvHandlerStep, InvChildStep, InvType, InvQuit, InvDeliver DEF Next
<1> QED
  BY <1>2, InvInit, PTL DEF Spec

(* Type correctness of the shell.                                          *)
THEOREM ShellType == Spec => []TypeOK
BY ShellInvariant, PTL DEF ShellInv

(* The job list and the kernel agree: no child is lost and no entry is     *)
(* stale, except in the windows ListMatchesKernel names.                   *)
THEOREM ShellListMatchesKernel == Spec => []ListMatchesKernel
BY ShellInvariant, PTL DEF ShellInv

(* sigchld_handler finds every child it reports in the list, unless addjob *)
(* refused the child: blocking SIGCHLD around fork and addjob is enough.   *)
THEOREM ShellHandlerKnowsChild == Spec => []HandlerKnowsChild
BY ShellInvariant, PTL DEF ShellInv

-----------------------------------------------------------------------------
(* Whom the handlers of ctrl-c and ctrl-z signal.                          *)

(* Between fgpid and kill, only sigchld_handler can change the list, and   *)
(* it stops or deletes jobs: what was in the foreground does not go to the *)
(* background.                                                             *)
ForegroundKept ==
  \A s \in {"INT", "TSTP"} : h[s].pc = "kill" =>
     /\ h[s].pid \in Pids
     /\ \A i \in Slots : jobs[i].pid = h[s].pid => jobs[i].state \in {"FG", "ST"}

(* main only goes on when no handler is being run.                         *)
LEMMA MainAlone ==
  ASSUME ShellInv, MainStep
  PROVE  h' = h /\ stack' = stack /\ stack = <<>> /\ \A s \in Sigs : h[s] = idle
<1>1. h' = h /\ stack' = stack /\ stack = <<>>
  BY DEF MainStep, EvalRun, Fork, ForkFails, EvalAdd, EvalUnblock, EvalPrint, WaitfgReturns,
         BgfgByJid, BgfgByPid, BgfgReadPid, BgfgContinue, BgfgSetState, Ends, At
<1>2. \A s \in Sigs : h[s] = idle
  BY <1>1 DEF ShellInv, HandlersStacked
<1> QED
  BY <1>1, <1>2

(* What the body of sigchld_handler's loop does to the list.               *)
LEMMA UpdateEffect ==
  ASSUME ShellInv, Update, ~Ends("crash"), NEW p, p = h["CHLD"].pid
  PROVE  /\ p \in Pids /\ p # NoPid
         /\ h["CHLD"].pc = "got" /\ h'["CHLD"].pc = "start" /\ stack # <<>>
         /\ \A s \in Sigs : s # "CHLD" => h'[s] = h[s]
         /\ UNCHANGED <<pc, arg, mask, sigs, stack, status, proc, pend, keys>>
         /\ \/ /\ h["CHLD"].why = "stop" /\ p \in Listed
               /\ \E k \in Slots : jobs[k].pid = p /\ setstate(k, "ST")
            \/ /\ h["CHLD"].why # "stop" /\ p \in Listed
               /\ deletejob(p)
               /\ \E k \in Slots : jobs[k].pid = p /\ jobs' = [jobs EXCEPT ![k] = cleared]
            \/ /\ h["CHLD"].why # "stop" /\ p \notin Listed
               /\ UNCHANGED <<jobs, nextjid>>
<1> DEFINE why == h["CHLD"].why
<1>1. /\ h["CHLD"].pc = "got" /\ stack # <<>>
      /\ p \in Listed \/ why = "exit"
      /\ record(p, why) /\ again
      /\ UNCHANGED <<pc, arg, mask, sigs, status, proc, pend, keys>>
  BY DEF Update, Running
<1>2. p \in Pids /\ p # NoPid
  BY <1>1, JobListAssumption DEF ShellInv, ReportedChild
<1>3. /\ h'["CHLD"].pc = "start" /\ stack' = stack
      /\ \A s \in Sigs : s # "CHLD" => h'[s] = h[s]
  BY <1>1 DEF again, ShellInv, TypeOK, Sigs, idle
<1>4. CASE why = "stop"
  <2>1. p \in Listed /\ setstate(getjobpid(p), "ST")
    BY <1>1, <1>4 DEF record
  <2>2. getjobpid(p) \in Slots /\ jobs[getjobpid(p)].pid = p
    BY <2>1, GetjobpidFinds DEF Listed
  <2> QED
    BY <1>1, <1>2, <1>3, <1>4, <2>1, <2>2
<1>5. CASE why # "stop"
  <2>1. deletejob(p)
    BY <1>1, <1>5 DEF record
  <2>2. CASE p \in Listed
    BY <1>1, <1>2, <1>3, <1>5, <2>1, <2>2, DeletejobEffect DEF ShellInv, TypeOK
  <2>3. CASE p \notin Listed
    BY <1>1, <1>2, <1>3, <1>5, <2>1, <2>3 DEF deletejob, listVars
  <2> QED
    BY <2>2, <2>3
<1> QED
  BY <1>4, <1>5

LEMMA KeptInit == Init => ForegroundKept
  BY DEF Init, idle, ForegroundKept, Sigs

LEMMA KeptFrame ==
  ASSUME ForegroundKept, UNCHANGED jobs,
         \A s \in {"INT", "TSTP"} : h'[s].pc = "kill" => h'[s] = h[s]
  PROVE  ForegroundKept'
  BY DEF ForegroundKept

LEMMA KeptUpdate ==
  ASSUME ShellInv, ForegroundKept, Update
  PROVE  ForegroundKept'
<1>1. CASE Ends("crash")
  BY <1>1, KeptFrame DEF Ends
<1>2. CASE ~Ends("crash")
  <2>1. \A s \in {"INT", "TSTP"} : h'[s] = h[s]
    BY <1>2, UpdateEffect DEF Sigs
  <2>2. jobs \in [Slots -> Job] /\ NoPid \notin Pids
    BY JobListAssumption DEF ShellInv, TypeOK, ListTypeOK
  <2>3. \A i \in Slots : jobs'[i].pid \in Pids =>
           jobs'[i].pid = jobs[i].pid /\ jobs'[i].state \in {jobs[i].state, "ST"}
    <3>1. CASE \E k \in Slots : setstate(k, "ST")
      BY <2>2, <3>1 DEF setstate, Job
    <3>2. CASE \E k \in Slots : jobs' = [jobs EXCEPT ![k] = cleared]
      BY <2>2, <3>2 DEF cleared
    <3>3. CASE UNCHANGED jobs
      BY <3>3
    <3> QED
      BY <1>2, <3>1, <3>2, <3>3, UpdateEffect
  <2> QED
    BY <2>1, <2>3 DEF ForegroundKept
<1> QED
  BY <1>1, <1>2

(* fgpid is the pid of a job in the foreground; no other slot has that pid.*)
LEMMA FgpidIsFg ==
  ASSUME TypeOK, PidsUnique, fgpid # NoPid
  PROVE  /\ fgpid \in Pids
         /\ \A i \in Slots : jobs[i].pid = fgpid => jobs[i].state = "FG"
<1> DEFINE S == {k \in Slots : jobs[k].state = "FG"}
<1>1. first(S) = 0 \/ first(S) \in S
  <2>1. S \in SUBSET Slots
    OBVIOUS
  <2> HIDE DEF S
  <2> QED
    BY <2>1, FirstSlot
<1>2. first(S) \in S /\ jobs[first(S)].pid = fgpid
  BY <1>1, JobListAssumption DEF fgpid, Slots
<1> QED
  BY <1>2, FgpidType DEF PidsUnique

LEMMA KeptFind ==
  ASSUME ShellInv, ForegroundKept, NEW s \in {"INT", "TSTP"}, FindForeground(s)
  PROVE  ForegroundKept'
<1>1. UNCHANGED jobs /\ h \in [Sigs -> [pc : {"idle", "start", "got", "kill"},
         pid : Pids \cup {NoPid}, why : {"none", "exit", "kill", "stop"}]]
  BY DEF FindForeground, ShellInv, TypeOK
<1>2. CASE leave(s)
  BY <1>1, <1>2, KeptFrame DEF leave, idle, Sigs
<1>3. CASE ~leave(s)
  <2>1. /\ fgpid # NoPid
        /\ h' = [h EXCEPT ![s] = [pc |-> "kill", pid |-> fgpid, why |-> "none"]]
    BY <1>3 DEF FindForeground
  <2>2. /\ h'[s].pid = fgpid
        /\ \A r \in {"INT", "TSTP"} : r # s => h'[r] = h[r]
    BY <1>1, <2>1 DEF Sigs
  <2>3. /\ fgpid \in Pids
        /\ \A i \in Slots : jobs[i].pid = fgpid => jobs[i].state = "FG"
    BY <2>1, FgpidIsFg DEF ShellInv
  <2> QED
    BY <1>1, <2>2, <2>3 DEF ForegroundKept
<1> QED
  BY <1>2, <1>3

LEMMA KeptNext ==
  ASSUME ShellInv, ForegroundKept, [Next]_vars
  PROVE  ForegroundKept'
<1>0. h \in [Sigs -> [pc : {"idle", "start", "got", "kill"},
         pid : Pids \cup {NoPid}, why : {"none", "exit", "kill", "stop"}]]
  BY DEF ShellInv, TypeOK
<1>1. CASE MainStep
  <2>1. \A s \in {"INT", "TSTP"} : h'[s].pc # "kill"
    BY <1>1, MainAlone DEF Sigs, idle
  <2> QED
    BY <2>1 DEF ForegroundKept
<1>2. CASE Waitpid
  BY <1>0, <1>2, KeptFrame DEF Waitpid, Sigs
<1>3. CASE WaitpidNone
  BY <1>0, <1>3, KeptFrame DEF WaitpidNone, leave, Sigs
<1>4. ASSUME NEW s \in {"INT", "TSTP"}, Forward(s) PROVE ForegroundKept'
  <2>1. UNCHANGED jobs /\ (h' = h \/ h' = [h EXCEPT ![s] = idle])
    BY <1>4 DEF Forward, Ends, leave
  <2> QED
    BY <1>0, <2>1, KeptFrame DEF idle, Sigs
<1>5. ASSUME NEW s \in Sigs, Deliver(s) PROVE ForegroundKept'
  BY <1>0, <1>5, KeptFrame DEF Deliver, Sigs
<1>6. CASE ChildStep \/ Type \/ Quit \/ UNCHANGED vars
  BY <1>6, KeptFrame DEF ChildStep, Type, Quit, Ends, vars
<1> QED
  BY <1>1, <1>2, <1>3, <1>4, <1>5, <1>6, KeptUpdate, KeptFind DEF Next, HandlerStep

(* Only the two handlers add to what is pending for a process.             *)
LEMMA ChildBecomesShrinks ==
  ASSUME TypeOK, NEW p \in Pids, NEW st, childBecomes(p, st)
  PROVE  \A q \in Pids : pend'[q] \subseteq pend[q]
  BY DEF childBecomes, TypeOK

LEMMA PendingShrinks ==
  ASSUME ShellInv, [Next]_vars, \A s \in {"INT", "TSTP"} : ~Forward(s)
  PROVE  \A q \in Pids : pend'[q] \subseteq pend[q]
<1> USE DEF ShellInv
<1>1. CASE BgfgContinue
  BY <1>1 DEF BgfgContinue, continueGroup, Ends, TypeOK
<1>2. CASE MainStep /\ ~BgfgContinue
  BY <1>2 DEF MainStep, EvalRun, Fork, ForkFails, EvalAdd, EvalUnblock, EvalPrint,
         WaitfgReturns, BgfgByJid, BgfgByPid, BgfgReadPid, BgfgSetState, Ends
<1>3. CASE HandlerStep
  BY <1>3 DEF HandlerStep, Waitpid, WaitpidNone, Update, FindForeground, Ends
<1>4. CASE ChildStep
  <2>1. PICK p \in Pids : \/ JoinGroup(p) \/ Exec(p) \/ Exit(p) \/ Killed(p)
                          \/ StopsItself(p) \/ TakeSignal(p)
    BY <1>4 DEF ChildStep
  <2>2. (\E st : childBecomes(p, st)) \/ UNCHANGED pend
    BY <2>1 DEF JoinGroup, Exec, Exit, Killed, StopsItself, TakeSignal
  <2> QED
    BY <2>2, ChildBecomesShrinks
<1>5. CASE Type \/ Quit \/ (\E s \in Sigs : Deliver(s)) \/ UNCHANGED vars
  BY <1>5 DEF Type, Quit, Deliver, Ends, vars
<1> QED
  BY <1>1, <1>2, <1>3, <1>4, <1>5 DEF Next

(* ctrl-c and ctrl-z never reach a job in the background: what a handler   *)
(* found in the foreground is there or stopped when it is signalled.       *)
THEOREM ShellSparesBackground == Spec => SparesBackground
<1>1. ShellInv /\ ForegroundKept /\ [Next]_vars => ForegroundKept'
  BY KeptNext
<1>2. Spec => []ForegroundKept
  BY <1>1, KeptInit, ShellInvariant, PTL DEF Spec
<1>3. ShellInv /\ ForegroundKept /\ [Next]_vars =>
        [\A i \in Slots : jobs[i].pid \in Pids =>
            pend'[jobs[i].pid] \subseteq pend[jobs[i].pid] \/ jobs[i].state \in {"FG", "ST"}]_vars
  <2> SUFFICES ASSUME ShellInv, ForegroundKept, [Next]_vars
               PROVE  \A i \in Slots : jobs[i].pid \in Pids =>
                         \/ pend'[jobs[i].pid] \subseteq pend[jobs[i].pid]
                         \/ jobs[i].state \in {"FG", "ST"}
    OBVIOUS
  <2>1. CASE \A s \in {"INT", "TSTP"} : ~Forward(s)
    BY <2>1, PendingShrinks
  <2>2. ASSUME NEW s \in {"INT", "TSTP"}, Forward(s), NEW i \in Slots,
               jobs[i].pid \in Pids
        PROVE  \/ pend'[jobs[i].pid] \subseteq pend[jobs[i].pid]
               \/ jobs[i].state \in {"FG", "ST"}
    <3>1. h[s].pc = "kill" /\ (pend' = pend \/ killGroup(h[s].pid, s))
      BY <2>2 DEF Forward, Ends
    <3>2. CASE jobs[i].pid = h[s].pid
      BY <2>2, <3>1, <3>2 DEF ForegroundKept
    <3>3. CASE jobs[i].pid # h[s].pid
      BY <2>2, <3>1, <3>3 DEF killGroup, ShellInv, TypeOK
    <3> QED
      BY <3>2, <3>3
  <2> QED
    BY <2>1, <2>2
<1> QED
  BY <1>2, <1>3, ShellInvariant, PTL DEF Spec, SparesBackground

-----------------------------------------------------------------------------
(* The shell without fg and bg.                                            *)

OnlyRuns == Commands \subseteq {"run", "run &"}

(* What waitpid reported as stopped is not running again.                  *)
StopsLast ==
  h["CHLD"].pc = "got" /\ h["CHLD"].why = "stop" =>
     proc[h["CHLD"].pid] \in {"halt"} \cup Zombie

(* eval's new child is not in the list, and its stop not reported; nextjid *)
(* is what eval has seen.                                                  *)
AboutToAdd ==
  /\ pc = "add" => proc[arg.pid] # "halt"
  /\ pc \in {"fork", "add"} => nextjid <= JidBound

RunsInv == /\ pc \notin {"readpid", "cont", "set"}
           /\ FreeSlotsCleared
           /\ ForegroundIsAwaited
           /\ StoppedShown
           /\ StopsLast
           /\ AboutToAdd

LEMMA RunsInit == Init => RunsInv
  BY DEF Init, initjobs, RunsInv, FreeSlotsCleared, cleared, ForegroundIsAwaited,
         StoppedShown, StopsLast, AboutToAdd, idle, Sigs

(* A step that leaves the list alone and neither reports a stop nor reaps  *)
(* or continues a child.                                                   *)
LEMMA RunsFrame ==
  ASSUME ShellInv, RunsInv, UNCHANGED jobs,
         pc' \notin {"readpid", "cont", "set"}, ForegroundIsAwaited', AboutToAdd',
         h["CHLD"].pc = "got" \/ h'["CHLD"].pc = "got" => h'["CHLD"] = h["CHLD"],
         \A p \in Pids :
            /\ proc'[p] = "halt" => proc[p] = "halt"
            /\ proc[p] \in {"halt"} \cup Zombie => proc'[p] \in {"halt"} \cup Zombie
            /\ proc[p] = "free" /\ p \in Listed => proc'[p] = "free"
  PROVE  RunsInv'
<1>1. FreeSlotsCleared'
  BY DEF RunsInv, FreeSlotsCleared
<1>2. StopsLast'
  BY DEF RunsInv, StopsLast, ShellInv, ReportedChild
<1>3. StoppedShown'
  <2>1. SUFFICES ASSUME NEW i \in Slots, jobs[i].pid # NoPid
                 PROVE  LET p == jobs[i].pid
                            beingRecorded == h'["CHLD"].pc = "got" /\ h'["CHLD"].pid = p
                        IN /\ proc'[p] = "halt" /\ ~beingRecorded => jobs[i].state = "ST"
                           /\ jobs[i].state = "ST" => proc'[p] \in {"halt", "free"} \cup Zombie
    BY DEF StoppedShown
  <2>2. jobs[i].pid \in Pids /\ jobs[i].pid \in Listed
    BY <2>1 DEF ShellInv, TypeOK, ListTypeOK, Job, Listed
  <2>3. jobs[i].state = "ST" => proc'[jobs[i].pid] \in {"halt", "free"} \cup Zombie
    BY <2>1, <2>2 DEF RunsInv, StoppedShown
  <2>4. proc'[jobs[i].pid] = "halt" /\ ~(h'["CHLD"].pc = "got" /\ h'["CHLD"].pid = jobs[i].pid)
          => jobs[i].state = "ST"
    BY <2>1, <2>2 DEF RunsInv, StoppedShown
  <2> QED
    BY <2>3, <2>4
<1> QED
  BY <1>1, <1>2, <1>3 DEF RunsInv

(* fgpid is found whenever there is a job in the foreground.               *)
LEMMA FgpidFinds ==
  ASSUME NEW i \in Slots, jobs[i].state = "FG"
  PROVE  \E k \in Slots : jobs[k].state = "FG" /\ fgpid = jobs[k].pid
<1> DEFINE S == {k \in Slots : jobs[k].state = "FG"}
<1>1. S \in SUBSET Slots /\ S # {}
  OBVIOUS
<1>2. first(S) \in S
  <2> HIDE DEF S
  <2> QED
    BY <1>1, FirstSlot
<1>3. first(S) # 0
  BY <1>2, JobListAssumption DEF Slots
<1>4. fgpid = jobs[first(S)].pid
  BY <1>3 DEF fgpid
<1> QED
  BY <1>2, <1>4

LEMMA RunsMain ==
  ASSUME OnlyRuns, ShellInv, RunsInv, MainStep, ~EvalAdd
  PROVE  RunsInv'
<1>1. h' = h
  BY MainAlone
<1>2. CASE EvalRun
  <2>1. /\ pc = "prompt" /\ pc' = "fork" /\ nextjid <= JidBound
        /\ UNCHANGED <<jobs, nextjid, proc>>
    BY <1>2 DEF EvalRun, At
  <2>2. ForegroundIsAwaited' /\ AboutToAdd'
    BY <2>1 DEF RunsInv, ForegroundIsAwaited, AboutToAdd
  <2> QED
    BY <1>1, <2>1, <2>2, RunsFrame
<1>3. CASE Fork
  <2>1. PICK p \in Pids : /\ proc[p] = "free"
                          /\ proc' = [proc EXCEPT ![p] = "born"]
                          /\ arg' = [arg EXCEPT !.pid = p]
    BY <1>3 DEF Fork
  <2>2. pc = "fork" /\ pc' = "add" /\ UNCHANGED <<jobs, nextjid>> /\ stack = <<>>
    BY <1>3 DEF Fork, At
  <2>3. proc'[p] = "born" /\ arg'.pid = p /\ \A q \in Pids : q # p => proc'[q] = proc[q]
    BY <2>1 DEF ShellInv, TypeOK
  <2>4. ForegroundIsAwaited' /\ AboutToAdd'
    BY <2>2, <2>3 DEF RunsInv, ForegroundIsAwaited, AboutToAdd
  <2>5. p \notin Listed
    BY <2>1, <2>2, MainAlone DEF ShellInv, ListMatchesKernel, idle, Sigs
  <2> QED
    BY <1>1, <2>1, <2>2, <2>3, <2>4, <2>5, RunsFrame DEF Zombie
<1>4. CASE EvalUnblock
  <2>1. /\ pc = "unblock" /\ pc' = IF arg.bg THEN "print" ELSE "waitfg"
        /\ UNCHANGED <<jobs, nextjid, arg, proc>>
    BY <1>4 DEF EvalUnblock, At
  <2>2. ForegroundIsAwaited' /\ AboutToAdd'
    BY <2>1 DEF RunsInv, ForegroundIsAwaited, AboutToAdd
  <2> QED
    BY <1>1, <2>1, <2>2, RunsFrame
<1>5. CASE WaitfgReturns
  <2>1. pc' = "prompt" /\ arg.pid # fgpid /\ UNCHANGED <<jobs, nextjid, proc>>
    BY <1>5 DEF WaitfgReturns, stillForeground
  <2>2. \A i \in Slots : jobs[i].state # "FG"
    BY <2>1, FgpidFinds DEF RunsInv, ForegroundIsAwaited
  <2>3. ForegroundIsAwaited' /\ AboutToAdd'
    BY <2>1, <2>2 DEF ForegroundIsAwaited, AboutToAdd
  <2> QED
    BY <1>1, <2>1, <2>3, RunsFrame
<1>6. CASE EvalPrint /\ ~Ends("crash")
  <2>1. pc = "print" /\ pc' = "prompt" /\ UNCHANGED <<jobs, nextjid, proc>>
    BY <1>6 DEF EvalPrint, At
  <2>2. ForegroundIsAwaited' /\ AboutToAdd'
    BY <2>1 DEF RunsInv, ForegroundIsAwaited, AboutToAdd
  <2> QED
    BY <1>1, <2>1, <2>2, RunsFrame
<1>7. ASSUME NEW how, Ends(how) PROVE RunsInv'
  BY <1>7 DEF Ends, RunsInv, FreeSlotsCleared, ForegroundIsAwaited, StoppedShown,
              StopsLast, AboutToAdd
<1>8. ~(BgfgByJid \/ BgfgByPid \/ BgfgReadPid \/ BgfgContinue \/ BgfgSetState)
  BY DEF OnlyRuns, RunsInv, BgfgByJid, BgfgByPid, BgfgReadPid, BgfgContinue, BgfgSetState, At
<1> QED
  BY <1>2, <1>3, <1>4, <1>5, <1>6, <1>7, <1>8 DEF MainStep, ForkFails

(* addjob: the new job is the only one in the foreground, and not stopped. *)
LEMMA RunsAdd ==
  ASSUME ShellInv, RunsInv, EvalAdd
  PROVE  RunsInv'
<1> DEFINE p == arg.pid
           st == IF arg.bg THEN "BG" ELSE "FG"
<1>1. /\ pc = "add" /\ pc' = "unblock" /\ p \in Pids \ Listed /\ proc[p] # "halt"
      /\ st \in States /\ addjob(p, st) /\ UNCHANGED <<arg, h, proc>>
  BY DEF EvalAdd, At, ShellInv, ForkedIsNew, RunsInv, AboutToAdd, States
<1>2. StopsLast' /\ AboutToAdd'
  BY <1>1 DEF RunsInv, StopsLast, AboutToAdd
<1>3. \A i \in Slots : jobs[i].state # "FG"
  BY <1>1 DEF RunsInv, ForegroundIsAwaited
<1>4. h["CHLD"].pc = "idle"
  BY MainAlone DEF MainStep, Sigs, idle
<1>5. CASE Full
  <2>1. UNCHANGED jobs
    BY <1>1, <1>5 DEF addjob, listVars
  <2> QED
    BY <1>1, <1>2, <1>3, <2>1
       DEF RunsInv, FreeSlotsCleared, ForegroundIsAwaited, StoppedShown
<1>6. CASE ~Full
  <2> HIDE DEF p
  <2>1. PICK k \in Slots :
          jobs' = [jobs EXCEPT ![k] = [pid |-> p, jid |-> nextjid, state |-> st]]
    BY <1>1, <1>6, AddjobEffect DEF ShellInv, TypeOK
  <2>2. /\ jobs'[k].pid = p /\ jobs'[k].state = st /\ p # NoPid
        /\ \A i \in Slots : i # k => jobs'[i] = jobs[i]
    BY <1>1, <2>1, JobListAssumption DEF ShellInv, TypeOK, ListTypeOK
  <2>3. FreeSlotsCleared'
    BY <2>2 DEF RunsInv, FreeSlotsCleared
  <2>4. ForegroundIsAwaited'
    BY <1>1, <1>3, <2>2 DEF ForegroundIsAwaited, p
  <2>5. StoppedShown'
    BY <1>1, <1>4, <2>2 DEF RunsInv, StoppedShown
  <2> QED
    BY <1>1, <1>2, <2>3, <2>4, <2>5 DEF RunsInv
<1> QED
  BY <1>5, <1>6

(* waitpid: the stop it reports is about to be recorded.                   *)
LEMMA RunsWaitpid ==
  ASSUME ShellInv, RunsInv, Waitpid
  PROVE  RunsInv'
<1>1. PICK p \in Pids :
        /\ proc[p] \in Zombie \cup {"stop"}
        /\ proc' = [proc EXCEPT ![p] = IF @ = "stop" THEN "halt" ELSE "free"]
        /\ h' = [h EXCEPT !["CHLD"] = [pc |-> "got", pid |-> p, why |-> proc[p]]]
  BY DEF Waitpid
<1>2. /\ UNCHANGED <<jobs, nextjid, pc, arg>>
      /\ h["CHLD"].pc = "start" /\ stack # <<>>
  BY DEF Waitpid, Running
<1>3. /\ h'["CHLD"] = [pc |-> "got", pid |-> p, why |-> proc[p]]
      /\ proc'[p] = IF proc[p] = "stop" THEN "halt" ELSE "free"
      /\ \A q \in Pids : q # p => proc'[q] = proc[q]
  BY <1>1 DEF ShellInv, TypeOK, Sigs
<1>4. FreeSlotsCleared' /\ ForegroundIsAwaited'
  BY <1>2 DEF RunsInv, FreeSlotsCleared, ForegroundIsAwaited
<1>5. StopsLast' /\ AboutToAdd'
  BY <1>1, <1>2, <1>3 DEF RunsInv, StopsLast, AboutToAdd, ShellInv, ForkWindowQuiet, Zombie
<1>6. StoppedShown'
  <2>1. SUFFICES ASSUME NEW i \in Slots, jobs[i].pid # NoPid
                 PROVE  LET q == jobs[i].pid
                            beingRecorded == h'["CHLD"].pc = "got" /\ h'["CHLD"].pid = q
                        IN /\ proc'[q] = "halt" /\ ~beingRecorded => jobs[i].state = "ST"
                           /\ jobs[i].state = "ST" => proc'[q] \in {"halt", "free"} \cup Zombie
    BY <1>2 DEF StoppedShown
  <2>2. jobs[i].pid \in Pids
    BY <2>1 DEF ShellInv, TypeOK, ListTypeOK, Job
  <2>3. CASE jobs[i].pid = p
    BY <1>3, <2>3
  <2>4. CASE jobs[i].pid # p
    <3>1. proc'[jobs[i].pid] = proc[jobs[i].pid]
      BY <1>3, <2>2, <2>4
    <3> QED
      BY <1>2, <2>1, <3>1 DEF RunsInv, StoppedShown
  <2> QED
    BY <2>3, <2>4
<1> QED
  BY <1>2, <1>4, <1>5, <1>6 DEF RunsInv

(* The body of the handler's loop: the list catches up with the child.     *)
LEMMA RunsUpdate ==
  ASSUME ShellInv, RunsInv, Update
  PROVE  RunsInv'
<1>1. CASE Ends("crash")
  BY <1>1 DEF Ends, RunsInv, FreeSlotsCleared, ForegroundIsAwaited, StoppedShown,
              StopsLast, AboutToAdd
<1>2. CASE ~Ends("crash")
  <2> DEFINE p == h["CHLD"].pid
  <2>1. /\ p \in Pids /\ p # NoPid /\ h["CHLD"].pc = "got" /\ h'["CHLD"].pc = "start"
        /\ stack # <<>> /\ UNCHANGED <<pc, arg, proc>>
    BY <1>2, UpdateEffect
  <2>2. pc \notin {"fork", "add", "unblock"}
    BY <2>1 DEF ShellInv, ForkWindowQuiet
  <2>3. StopsLast' /\ AboutToAdd'
    BY <2>1, <2>2 DEF StopsLast, AboutToAdd
  <2>4. jobs \in [Slots -> Job] /\ PidsUnique
    BY DEF ShellInv, TypeOK, ListTypeOK
  (* What is left to show follows when the other entries stay, and p's is
     stopped, or gone, or was not there. *)
  <2>5. SUFFICES /\ FreeSlotsCleared' /\ ForegroundIsAwaited'
                 /\ \A i \in Slots :
                       \/ jobs'[i] = jobs[i] /\ jobs[i].pid # p
                       \/ /\ jobs'[i].pid = p /\ jobs'[i].state = "ST"
                          /\ proc[p] \in {"halt"} \cup Zombie
                       \/ jobs'[i].pid = NoPid
    BY <2>1, <2>3 DEF RunsInv, StoppedShown
  <2> HIDE DEF p
  <2>6. CASE h["CHLD"].why = "stop"
    <3>1. PICK k \in Slots : jobs[k].pid = p /\ setstate(k, "ST")
      BY <1>2, <2>6, UpdateEffect DEF p
    <3>2. /\ jobs'[k].pid = p /\ jobs'[k].state = "ST"
          /\ \A i \in Slots : i # k => jobs'[i] = jobs[i]
      BY <2>4, <3>1 DEF setstate, Job
    <3>3. \A i \in Slots : i # k => jobs[i].pid # p
      BY <2>1, <2>4, <3>1 DEF PidsUnique
    <3>4. proc[p] \in {"halt"} \cup Zombie
      BY <2>1, <2>6 DEF RunsInv, StopsLast, p
    <3>5. FreeSlotsCleared' /\ ForegroundIsAwaited'
      BY <2>1, <3>2 DEF RunsInv, FreeSlotsCleared, ForegroundIsAwaited
    <3> QED
      BY <3>2, <3>3, <3>4, <3>5
  <2>7. CASE h["CHLD"].why # "stop" /\ p \in Listed
    <3>1. PICK k \in Slots : jobs[k].pid = p /\ jobs' = [jobs EXCEPT ![k] = cleared]
      BY <1>2, <2>7, UpdateEffect DEF p
    <3>2. /\ jobs'[k] = cleared
          /\ \A i \in Slots : i # k => jobs'[i] = jobs[i]
      BY <2>4, <3>1
    <3>3. \A i \in Slots : i # k => jobs[i].pid # p
      BY <2>1, <2>4, <3>1 DEF PidsUnique
    <3>4. FreeSlotsCleared' /\ ForegroundIsAwaited'
      BY <2>1, <3>2 DEF RunsInv, FreeSlotsCleared, ForegroundIsAwaited, cleared
    <3> QED
      BY <3>2, <3>3, <3>4 DEF cleared
  <2>8. CASE h["CHLD"].why # "stop" /\ p \notin Listed
    <3>1. UNCHANGED jobs
      BY <1>2, <2>8, UpdateEffect DEF p
    <3>2. \A i \in Slots : jobs[i].pid # p
      BY <2>1, <2>8 DEF Listed
    <3>3. FreeSlotsCleared' /\ ForegroundIsAwaited'
      BY <2>1, <3>1 DEF RunsInv, FreeSlotsCleared, ForegroundIsAwaited
    <3> QED
      BY <3>1, <3>2, <3>3
  <2> QED
    BY <2>6, <2>7, <2>8
<1> QED
  BY <1>1, <1>2

LEMMA RunsChild ==
  ASSUME ShellInv, RunsInv, ChildStep
  PROVE  RunsInv'
<1>1. UNCHANGED <<jobs, nextjid, pc, arg, h>>
  BY DEF ChildStep
<1>2. \A p \in Pids :
        /\ proc'[p] = "halt" => proc[p] = "halt"
        /\ proc[p] \in {"halt"} \cup Zombie => proc'[p] \in {"halt"} \cup Zombie
        /\ proc[p] = "free" => proc'[p] = "free"
  <2>1. PICK q \in Pids :
          \E st \in {"image", "run", "exit", "kill", "stop"} :
             /\ proc' = [proc EXCEPT ![q] = st]
             /\ proc[q] \notin {"free"} \cup Zombie
             /\ proc[q] = "halt" => st = "kill"
    BY DEF ChildStep, JoinGroup, Exec, Exit, Killed, StopsItself, TakeSignal,
           childBecomes, Stopped, Zombie
  <2> QED
    BY <2>1 DEF ShellInv, TypeOK, Zombie
<1>3. ForegroundIsAwaited' /\ AboutToAdd'
  <2>1. pc = "add" => arg.pid \in Pids
    BY DEF ShellInv, ForkedIsNew
  <2> QED
    BY <1>1, <1>2, <2>1 DEF RunsInv, ForegroundIsAwaited, AboutToAdd
<1> QED
  BY <1>1, <1>2, <1>3, RunsFrame DEF RunsInv

LEMMA RunsQuiet ==
  ASSUME ShellInv, RunsInv, UNCHANGED <<jobs, nextjid, pc, arg, proc>>,
         h["CHLD"].pc = "got" \/ h'["CHLD"].pc = "got" => h'["CHLD"] = h["CHLD"]
  PROVE  RunsInv'
<1>1. ForegroundIsAwaited' /\ AboutToAdd'
  BY DEF RunsInv, ForegroundIsAwaited, AboutToAdd
<1> QED
  BY <1>1, RunsFrame DEF RunsInv

LEMMA RunsNext ==
  ASSUME OnlyRuns, ShellInv, RunsInv, [Next]_vars
  PROVE  RunsInv'
<1>0. h \in [Sigs -> [pc : {"idle", "start", "got", "kill"},
         pid : Pids \cup {NoPid}, why : {"none", "exit", "kill", "stop"}]]
  BY DEF ShellInv, TypeOK
<1>1. CASE MainStep
  BY <1>1, RunsMain, RunsAdd
<1>2. CASE WaitpidNone
  BY <1>0, <1>2, RunsQuiet DEF WaitpidNone, leave, idle, Sigs
<1>3. ASSUME NEW s \in {"INT", "TSTP"}, FindForeground(s) PROVE RunsInv'
  <2>1. h'["CHLD"] = h["CHLD"]
    BY <1>0, <1>3 DEF FindForeground, leave, Sigs
  <2> QED
    BY <1>3, <2>1, RunsQuiet DEF FindForeground
<1>4. ASSUME NEW s \in {"INT", "TSTP"}, Forward(s) PROVE RunsInv'
  <2>1. h'["CHLD"] = h["CHLD"] /\ UNCHANGED <<jobs, nextjid, pc, arg, proc>>
    BY <1>0, <1>4 DEF Forward, Ends, killGroup, leave, Sigs
  <2> QED
    BY <2>1, RunsQuiet
<1>5. ASSUME NEW s \in Sigs, Deliver(s) PROVE RunsInv'
  <2>1. h["CHLD"].pc = "got" \/ h'["CHLD"].pc = "got" => h'["CHLD"] = h["CHLD"]
    BY <1>0, <1>5 DEF Deliver, idle, Sigs
  <2> QED
    BY <1>5, <2>1, RunsQuiet DEF Deliver
<1>6. CASE Type \/ Quit \/ UNCHANGED vars
  BY <1>6, RunsQuiet DEF Type, Quit, Ends, vars
<1> QED
  BY <1>1, <1>2, <1>3, <1>4, <1>5, <1>6, RunsWaitpid, RunsUpdate, RunsChild
     DEF Next, HandlerStep

(* A step of the shell is one of the list's, or leaves it alone.           *)
LEMMA ListStep ==
  ASSUME OnlyRuns, ShellInv, RunsInv, [Next]_vars
  PROVE  [ListNext]_listVars
<1>1. CASE EvalAdd
  <2>1. /\ addjob(arg.pid, IF arg.bg THEN "BG" ELSE "FG") /\ nextjid <= JidBound
        /\ arg.pid \in Pids /\ arg.pid \notin Listed
    BY <1>1 DEF EvalAdd, At, ShellInv, ForkedIsNew, RunsInv, AboutToAdd
  <2>2. Add
    BY <2>1 DEF Add
  <2> QED
    BY <2>2 DEF ListNext
<1>2. CASE Update /\ ~Ends("crash")
  <2>1. PICK p \in Pids :
          \/ \E k \in Slots : jobs[k].pid = p /\ setstate(k, "ST")
          \/ p \in Listed /\ deletejob(p)
          \/ UNCHANGED <<jobs, nextjid>>
    BY <1>2, UpdateEffect
  <2>2. p # NoPid
    BY JobListAssumption
  <2> QED
    BY <2>1, <2>2 DEF ListNext, Delete, Change, listVars
<1>3. CASE MainStep /\ ~EvalAdd
  <2>1. ~BgfgSetState
    BY DEF RunsInv, BgfgSetState, At
  <2> QED
    BY <1>3, <2>1 DEF MainStep, EvalRun, Fork, ForkFails, EvalUnblock, EvalPrint,
         WaitfgReturns, BgfgByJid, BgfgByPid, BgfgReadPid, BgfgContinue, Ends, listVars
<1>4. CASE Ends("crash") \/ (HandlerStep /\ ~Update)
  BY <1>4 DEF HandlerStep, Waitpid, WaitpidNone, FindForeground, Forward, Ends, listVars
<1>5. CASE ChildStep \/ Type \/ Quit \/ (\E s \in Sigs : Deliver(s)) \/ UNCHANGED vars
  BY <1>5 DEF ChildStep, Type, Quit, Deliver, Ends, vars, listVars
<1> QED
  BY <1>1, <1>2, <1>3, <1>4, <1>5 DEF Next, HandlerStep

(* As long as fg and bg are not used, the strengthening holds always.      *)
THEOREM RunsInvariant == ASSUME OnlyRuns PROVE Spec => []RunsInv
<1>1. ShellInv /\ RunsInv /\ [Next]_vars => RunsInv'
  BY OnlyRuns, RunsNext
<1> QED
  BY <1>1, RunsInit, ShellInvariant, PTL DEF Spec

(* As long as fg and bg are not used, eval waits for every foreground job. *)
THEOREM ShellForegroundIsAwaited == ASSUME OnlyRuns PROVE Spec => []ForegroundIsAwaited
<1>1. Spec => []RunsInv
  BY OnlyRuns, RunsInvariant
<1> QED
  BY <1>1, PTL DEF RunsInv

(* As long as fg and bg are not used, the list shows as stopped the jobs   *)
(* whose stop the handler has recorded, and no others.                     *)
THEOREM ShellStoppedShown == ASSUME OnlyRuns PROVE Spec => []StoppedShown
<1>1. Spec => []RunsInv
  BY OnlyRuns, RunsInvariant
<1> QED
  BY <1>1, PTL DEF RunsInv

(* "At most 1 job can be in the FG state" (line 37) is true of the shell   *)
(* as long as fg is not used.                                              *)
THEOREM ShellAtMostOneFg == ASSUME OnlyRuns PROVE Spec => []AtMostOneFg
<1>1. Spec => []RunsInv
  BY OnlyRuns, RunsInvariant
<1>2. ShellInv /\ RunsInv => AtMostOneFg
  BY DEF ShellInv, PidsUnique, RunsInv, ForegroundIsAwaited, AtMostOneFg
<1> QED
  BY <1>1, <1>2, ShellInvariant, PTL

(* The shell uses its job list as intended as long as fg and bg are not    *)
(* used: every step is one of the list's or leaves it alone.               *)
THEOREM ShellImplementsJobList == ASSUME OnlyRuns PROVE Spec => ImplementsJobList
<1>1. Spec => []RunsInv
  BY OnlyRuns, RunsInvariant
<1>2. ShellInv /\ RunsInv /\ [Next]_vars => [ListNext]_listVars
  BY OnlyRuns, ListStep
<1>3. Init => ListInit
  BY DEF Init, ListInit
<1> QED
  BY <1>1, <1>2, <1>3, ShellInvariant, PTL DEF Spec, ImplementsJobList, ListSpec

(* So what is proved of the list holds in the shell: a freed slot carries  *)
(* nothing over ...                                                        *)
THEOREM ShellFreeSlots == ASSUME OnlyRuns PROVE Spec => []FreeSlotsCleared
<1>1. Spec => ImplementsJobList
  BY OnlyRuns, ShellImplementsJobList
<1> QED
  BY <1>1, ListFreeSlots, PTL DEF ImplementsJobList

(* ... and job numbers are fresh until they have wrapped.                  *)
THEOREM ShellJidFresh == ASSUME OnlyRuns PROVE Spec => []JidFreshUntilWrap
<1>1. Spec => ImplementsJobList
  BY OnlyRuns, ShellImplementsJobList
<1> QED
  BY <1>1, ListJidFresh, PTL DEF ImplementsJobList
=============================================================================
