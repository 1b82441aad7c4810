------------------------------ MODULE JobList ------------------------------
(***************************************************************************)
(* The shell's job list (src/sp_02_shelllab/tsh.c, lines 25-53 and the     *)
(* "Helper routines that manipulate the job list", lines 481-603).         *)
(*                                                                         *)
(* The list is an array of MAXJOBS slots.  A slot is free when its pid is  *)
(* 0; NoPid stands for that 0.  The command line kept in a slot is only    *)
(* ever printed and is left out.                                           *)
(***************************************************************************)
EXTENDS Integers, FiniteSetsExt

CONSTANTS
  MAXJOBS,   \* number of slots
  Pids,      \* process ids fork can return
  NoPid,     \* pid 0
  JidBound   \* bound: no job is added once nextjid has passed it

ASSUME JobListAssumption ==
  /\ MAXJOBS \in Nat \ {0}
  /\ JidBound \in Nat
  /\ NoPid \notin Pids

VARIABLES
  jobs,      \* slot -> [pid, jid, state]
  nextjid    \* next job ID to allocate

listVars == <<jobs, nextjid>>

States == {"UNDEF", "FG", "BG", "ST"}
Slots == 1 .. MAXJOBS
Job == [pid : Pids \cup {NoPid}, jid : Nat, state : States]

cleared == [pid |-> NoPid, jid |-> 0, state |-> "UNDEF"]

-----------------------------------------------------------------------------
(* Scans of the array.  Every loop of the code runs from the first slot    *)
(* and returns at the first hit; 0 stands for a NULL job pointer.          *)

first(S) == IF S = {} THEN 0 ELSE Min(S)

getjobpid(pid) == first({i \in Slots : jobs[i].pid = pid})
getjobjid(jid) == first({i \in Slots : jobs[i].jid = jid})

(* Mistake: the first job in the list, whatever its state.                 *)
fgpidAnyState == LET i == first({k \in Slots : jobs[k].state # "UNDEF"})
                 IN  IF i = 0 THEN NoPid ELSE jobs[i].pid

fgpid == LET i == first({k \in Slots : jobs[k].state = "FG"})
         IN  IF i = 0 THEN NoPid ELSE jobs[i].pid

maxjid(table) == Max({0} \cup {table[i].jid : i \in Slots})

Listed == {jobs[i].pid : i \in Slots} \ {NoPid}
Full == \A i \in Slots : jobs[i].pid # NoPid

-----------------------------------------------------------------------------
initjobs == /\ jobs = [i \in Slots |-> cleared]
            /\ nextjid = 1

(* Mistake in addjob: job numbers restart at 0.                            *)
addjobFromZero(pid, state) ==
  IF Full
    THEN UNCHANGED listVars
    ELSE /\ jobs' = [jobs EXCEPT ![getjobpid(NoPid)] =
                       [pid |-> pid, jid |-> nextjid, state |-> state]]
         /\ nextjid' = (nextjid + 1) % MAXJOBS

(* addjob takes the first free slot; a full table is only reported.        *)
addjob(pid, state) ==
  IF Full
    THEN UNCHANGED listVars
    ELSE /\ jobs' = [jobs EXCEPT ![getjobpid(NoPid)] =
                       [pid |-> pid, jid |-> nextjid, state |-> state]]
         /\ nextjid' = IF nextjid + 1 > MAXJOBS THEN 1 ELSE nextjid + 1

(* Mistakes in deletejob: only the pid is reset; the largest jid is given  *)
(* out again.                                                              *)
deletejobPidOnly(pid) ==
  IF pid \notin Listed
    THEN UNCHANGED listVars
    ELSE /\ jobs' = [jobs EXCEPT ![getjobpid(pid)].pid = NoPid]
         /\ nextjid' = maxjid(jobs') + 1

deletejobReusesMax(pid) ==
  IF pid \notin Listed
    THEN UNCHANGED listVars
    ELSE /\ jobs' = [jobs EXCEPT ![getjobpid(pid)] = cleared]
         /\ nextjid' = IF maxjid(jobs') = 0 THEN 1 ELSE maxjid(jobs')

(* deletejob clears the slot first and scans for the largest jid after.    *)
deletejob(pid) ==
  IF pid \notin Listed
    THEN UNCHANGED listVars
    ELSE /\ jobs' = [jobs EXCEPT ![getjobpid(pid)] = cleared]
         /\ nextjid' = maxjid(jobs') + 1

(* An assignment job->state = st through a job pointer.                    *)
setstate(i, st) == /\ jobs' = [jobs EXCEPT ![i].state = st]
                   /\ UNCHANGED nextjid

-----------------------------------------------------------------------------
(* What the job list promises when it is used as intended: only processes  *)
(* that are not listed are added and only listed jobs change.              *)

Add == \E pid \in Pids, st \in {"FG", "BG"} :
          /\ nextjid <= JidBound
          /\ pid \notin Listed
          /\ addjob(pid, st)

Delete == \E pid \in Listed : deletejob(pid)

Change == \E i \in Slots, st \in {"FG", "BG", "ST"} :
             /\ jobs[i].pid # NoPid
             /\ setstate(i, st)

ListInit == initjobs
ListNext == Add \/ Delete \/ Change
ListSpec == ListInit /\ [][ListNext]_listVars

-----------------------------------------------------------------------------
(* Type invariant of the job list.                                         *)
ListTypeOK == /\ jobs \in [Slots -> Job]
              /\ nextjid \in Nat \ {0}

(* No process is listed twice, whatever the order of additions and         *)
(* deletions: deletejob and getjobpid stop at the first hit, so a second   *)
(* entry would stay in the list for ever (deletejob, line 546-551).        *)
PidsUnique == \A i, j \in Slots :
                 jobs[i].pid = jobs[j].pid /\ jobs[i].pid # NoPid => i = j

(* A slot that addjob would take carries nothing of the job it held        *)
(* before: fgpid, maxjid and getjobjid look at state and jid without       *)
(* looking at pid, so a leftover would be found as a job.                  *)
FreeSlotsCleared == \A i \in Slots : jobs[i].pid = NoPid => jobs[i] = cleared

(* A job number can only be given out twice once the numbers have reached  *)
(* MAXJOBS and wrapped (addjob, line 525): until then nextjid is above     *)
(* every jid in the list, whatever was deleted in between, so that fg %n   *)
(* and bg %n name one job.                                                 *)
JidFreshUntilWrap == nextjid > maxjid(jobs) \/ maxjid(jobs) >= MAXJOBS
=============================================================================
