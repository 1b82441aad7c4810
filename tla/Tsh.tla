-------------------------------- MODULE Tsh --------------------------------
(***************************************************************************)
(* The job-control shell src/sp_02_shelllab/tsh.c: its read/eval loop, its *)
(* signal handlers, its job list (module JobList) and, as far as the shell *)
(* can see it, the kernel: children, process groups, pending signals.      *)
(*                                                                         *)
(* One step is one piece of code that no handler can be seen to interrupt: *)
(* main stops between two system calls, or between a read of the job list  *)
(* and its use.  A handler may interrupt main or another handler at any    *)
(* such point, because Signal() installs every handler with an empty       *)
(* sa_mask (line 678); it runs to its end before what it interrupted goes  *)
(* on.                                                                     *)
(***************************************************************************)
EXTENDS JobList, Sequences

CONSTANTS
  Commands,  \* commands the user types, a subset of AllCommands
  Keys,      \* signals the user types at the keyboard, INT or TSTP
  KeyBound   \* bound: number of keys typed in one behaviour

AllCommands == {"run", "run &", "fg %jid", "fg pid", "bg %jid", "bg pid"}

ASSUME TshAssumption ==
  /\ Commands \subseteq AllCommands
  /\ Keys \subseteq {"INT", "TSTP"}
  /\ KeyBound \in Nat

VARIABLES
  pc,        \* where main is
  arg,       \* main's locals: [bg, pid, slot]
  mask,      \* the shell's blocked signals
  sigs,      \* the shell's pending signals: a set, signals do not queue
  h,         \* signal -> locals of its handler: [pc, pid, why]
  stack,     \* handlers being run, the innermost one last
  status,    \* "up", or how the shell ended
  proc,      \* pid -> what the kernel knows of the process
  pend,      \* pid -> signals pending for the process
  keys,      \* number of keys typed so far
  refused    \* history: unreaped children addjob had no slot for

mainVars == <<pc, arg, mask>>
handlerVars == <<h, stack>>
kernelVars == <<proc, pend>>
vars == <<jobs, nextjid, pc, arg, mask, sigs, h, stack, status, proc, pend,
          keys, refused>>

Sigs == {"CHLD", "INT", "TSTP"}

(* free: no child has this pid        born:  forked, still in the shell's   *)
(* image: own group, not yet exec'ed         process group                  *)
(* run: the program runs              stop:  stopped, not yet reported      *)
(* halt: stopped and reported         exit:  zombie that exited             *)
(*                                    kill:  zombie a signal terminated     *)
ProcStates == {"free", "born", "image", "run", "stop", "halt", "exit", "kill"}
Zombie == {"exit", "kill"}
Stopped == {"stop", "halt"}

Locations == {"prompt", "fork", "add", "unblock", "print", "waitfg",
              "readpid", "cont", "set"}

noarg == [bg |-> FALSE, pid |-> NoPid, slot |-> 0]
idle == [pc |-> "idle", pid |-> NoPid, why |-> "none"]

-----------------------------------------------------------------------------
(* The kernel's side.                                                      *)

(* A negative pid addresses a process group.  A child has a group of its   *)
(* own from its setpgid until it is reaped; kill(-pid) fails otherwise.    *)
HasGroup(p) == proc[p] \notin {"free", "born"}

(* A signal for a child that has not exec'ed yet is caught by the handler  *)
(* the child inherits, which finds no foreground job in the child's copy   *)
(* of the job list and returns: nothing happens.                           *)
reaches(s, p) == proc[p] = "run" \/ (s = "INT" /\ proc[p] \in Stopped)

killGroup(p, s) ==
  /\ pend' = [pend EXCEPT ![p] = IF reaches(s, p) THEN @ \cup {s} ELSE @]
  /\ UNCHANGED <<proc, sigs>>

continueGroup(p) ==
  /\ proc' = [proc EXCEPT ![p] = IF @ \in Stopped THEN "run" ELSE @]
  /\ pend' = [pend EXCEPT ![p] = @ \ {"TSTP"}]
  /\ sigs' = IF proc[p] \in Stopped THEN sigs \cup {"CHLD"} ELSE sigs

(* A change of a child's state that the kernel reports with SIGCHLD.       *)
childBecomes(p, st) ==
  /\ proc' = [proc EXCEPT ![p] = st]
  /\ pend' = [pend EXCEPT ![p] = IF st \in Zombie THEN {} ELSE @ \ {"TSTP"}]
  /\ sigs' = sigs \cup {"CHLD"}

(* Steps of a child.                                                       *)
JoinGroup(p) == /\ proc[p] = "born"
                /\ proc' = [proc EXCEPT ![p] = "image"]
                /\ UNCHANGED <<pend, sigs>>

Exec(p) == /\ proc[p] = "image"
           /\ proc' = [proc EXCEPT ![p] = "run"]
           /\ UNCHANGED <<pend, sigs>>

(* The program exits, or execve failed: "Command not found" and exit(1).   *)
Exit(p) == proc[p] \in {"image", "run"} /\ childBecomes(p, "exit")

(* A signal it sent itself (myint.c, mystop.c) or somebody else sent it.   *)
Killed(p) == proc[p] \in {"run"} \cup Stopped /\ childBecomes(p, "kill")
StopsItself(p) == proc[p] = "run" /\ childBecomes(p, "stop")

(* The child takes a signal the shell forwarded.                           *)
TakeSignal(p) ==
  /\ proc[p] = "run"
  /\ \/ "INT" \in pend[p] /\ childBecomes(p, "kill")
     \/ "TSTP" \in pend[p] /\ childBecomes(p, "stop")

ChildStep ==
  /\ status = "up"
  /\ \E p \in Pids : \/ JoinGroup(p) \/ Exec(p) \/ Exit(p) \/ Killed(p)
                     \/ StopsItself(p) \/ TakeSignal(p)
  /\ UNCHANGED <<jobs, nextjid, pc, arg, mask, h, stack, status, keys, refused>>

(* The user types ctrl-c or ctrl-z.                                        *)
Type ==
  /\ status = "up"
  /\ keys < KeyBound
  /\ \E s \in Keys : sigs' = sigs \cup {s}
  /\ keys' = keys + 1
  /\ UNCHANGED <<jobs, nextjid, pc, arg, mask, h, stack, status, proc, pend,
                 refused>>

(* How the shell ends: exit(0); exit(1) from unix_error; a NULL dereference. *)
Ends(how) ==
  /\ status' = how
  /\ UNCHANGED <<jobs, nextjid, pc, arg, mask, sigs, h, stack, proc, pend, keys,
                 refused>>

-----------------------------------------------------------------------------
(* main, eval, builtin_cmd, do_bgfg, waitfg.                               *)

At(loc) == status = "up" /\ stack = <<>> /\ pc = loc

(* quit, end of file, or SIGQUIT (which is never blocked).                 *)
Quit == /\ status = "up"
        /\ Ends("quit")

(* sigprocmask(SIG_BLOCK), and the mistake of leaving it out.              *)
blockNothing == UNCHANGED mask
blockSignals == mask' = Sigs

(* A command to run: eval blocks the three signals it has handlers for.    *)
EvalRun ==
  /\ At("prompt")
  /\ nextjid <= JidBound
  /\ \E c \in Commands \cap {"run", "run &"} :
        arg' = [noarg EXCEPT !.bg = (c = "run &")]
  /\ blockSignals
  /\ pc' = "fork"
  /\ UNCHANGED <<jobs, nextjid, sigs, h, stack, status, proc, pend, keys, refused>>

(* fork takes a pid that is free; it fails when there is none left.        *)
Fork ==
  /\ At("fork")
  /\ \E p \in Pids :
        /\ proc[p] = "free"
        /\ proc' = [proc EXCEPT ![p] = "born"]
        /\ arg' = [arg EXCEPT !.pid = p]
  /\ pc' = "add"
  /\ UNCHANGED <<jobs, nextjid, mask, sigs, h, stack, status, pend, keys, refused>>

ForkFails ==
  /\ At("fork")
  /\ \A p \in Pids : proc[p] # "free"
  /\ Ends("died")

(* The result of addjob is not looked at.                                  *)
EvalAdd ==
  /\ At("add")
  /\ addjob(arg.pid, IF arg.bg THEN "BG" ELSE "FG")
  /\ refused' = IF Full THEN refused \cup {arg.pid} ELSE refused
  /\ pc' = "unblock"
  /\ UNCHANGED <<arg, mask, sigs, h, stack, status, proc, pend, keys>>

EvalUnblock ==
  /\ At("unblock")
  /\ mask' = {}
  /\ pc' = IF arg.bg THEN "print" ELSE "waitfg"
  /\ UNCHANGED <<jobs, nextjid, arg, sigs, h, stack, status, proc, pend, keys, refused>>

(* print_job_info(getjobpid(jobs, pid)): no such job is a NULL dereference. *)
EvalPrint ==
  /\ At("print")
  /\ IF arg.pid \in Listed
       THEN /\ pc' = "prompt"
            /\ arg' = noarg
            /\ UNCHANGED <<jobs, nextjid, mask, sigs, h, stack, status, proc, pend,
                           keys, refused>>
       ELSE Ends("crash")

(* The busy loop: nothing happens while pid is the foreground job.  The    *)
(* mistake sleeps once and does not look again.                            *)
notAgain(pid) == FALSE
stillForeground(pid) == pid = fgpid

WaitfgReturns ==
  /\ At("waitfg")
  /\ ~stillForeground(arg.pid)
  /\ pc' = "prompt"
  /\ arg' = noarg
  /\ UNCHANGED <<jobs, nextjid, mask, sigs, h, stack, status, proc, pend, keys, refused>>

(* fg and bg look their job up with no signal blocked.  (With no argument, *)
(* or one that names no job, they print a line and change nothing.)        *)
BgfgByJid ==
  /\ At("prompt")
  /\ \E c \in Commands \cap {"fg %jid", "bg %jid"}, i \in Slots :
        /\ jobs[i].jid # 0 /\ i = getjobjid(jobs[i].jid)
        /\ arg' = [bg |-> c = "bg %jid", pid |-> NoPid, slot |-> i]
  /\ pc' = "readpid"
  /\ UNCHANGED <<jobs, nextjid, mask, sigs, h, stack, status, proc, pend, keys, refused>>

BgfgByPid ==
  /\ At("prompt")
  /\ \E c \in Commands \cap {"fg pid", "bg pid"}, p \in Listed :
        arg' = [bg |-> c = "bg pid", pid |-> p, slot |-> getjobpid(p)]
  /\ pc' = "cont"
  /\ UNCHANGED <<jobs, nextjid, mask, sigs, h, stack, status, proc, pend, keys, refused>>

(* pid = curr_job->pid: the slot may have been cleared since the lookup.   *)
BgfgReadPid ==
  /\ At("readpid")
  /\ arg' = [arg EXCEPT !.pid = jobs[arg.slot].pid]
  /\ pc' = "cont"
  /\ UNCHANGED <<jobs, nextjid, mask, sigs, h, stack, status, proc, pend, keys, refused>>

(* kill(-pid, SIGCONT).  kill(0, ...) continues the shell's own group,     *)
(* where nothing is stopped.                                               *)
BgfgContinue ==
  /\ At("cont")
  /\ \/ /\ arg.pid # NoPid
        /\ ~HasGroup(arg.pid)
        /\ Ends("died")
     \/ /\ IF arg.pid = NoPid THEN UNCHANGED <<proc, pend, sigs>>
                               ELSE HasGroup(arg.pid) /\ continueGroup(arg.pid)
        /\ pc' = "set"
        /\ UNCHANGED <<jobs, nextjid, arg, mask, h, stack, status, keys, refused>>

(* curr_job->state = FG or BG, through the pointer of the lookup.          *)
BgfgSetState ==
  /\ At("set")
  /\ setstate(arg.slot, IF arg.bg THEN "BG" ELSE "FG")
  /\ IF arg.bg THEN pc' = "prompt" /\ arg' = noarg
               ELSE pc' = "waitfg" /\ UNCHANGED arg
  /\ UNCHANGED <<mask, sigs, h, stack, status, proc, pend, keys, refused>>

MainStep == \/ EvalRun \/ Fork \/ ForkFails \/ EvalAdd \/ EvalUnblock \/ EvalPrint
            \/ WaitfgReturns \/ BgfgByJid \/ BgfgByPid \/ BgfgReadPid
            \/ BgfgContinue \/ BgfgSetState

-----------------------------------------------------------------------------
(* The signal handlers.                                                    *)

Running(s) == /\ status = "up"
              /\ stack # <<>>
              /\ stack[Len(stack)] = s

(* A handler starts when its signal is pending, not blocked, and not the   *)
(* signal of a handler being run (a handler blocks its own signal).        *)
Deliver(s) ==
  /\ status = "up"
  /\ s \in sigs \ mask
  /\ h[s] = idle
  /\ sigs' = sigs \ {s}
  /\ stack' = Append(stack, s)
  /\ h' = [h EXCEPT ![s].pc = "start"]
  /\ UNCHANGED <<jobs, nextjid, pc, arg, mask, status, proc, pend, keys, refused>>

leave(s) == /\ stack' = SubSeq(stack, 1, Len(stack) - 1)
            /\ h' = [h EXCEPT ![s] = idle]

(* waitpid(-1, WNOHANG | WUNTRACED) gives a zombie, which is thereby       *)
(* reaped, or a child whose stop has not been reported.                    *)
Waitpid ==
  /\ Running("CHLD") /\ h["CHLD"].pc = "start"
  /\ \E p \in Pids :
        /\ proc[p] \in Zombie \cup {"stop"}
        /\ proc' = [proc EXCEPT ![p] = IF @ = "stop" THEN "halt" ELSE "free"]
        /\ h' = [h EXCEPT !["CHLD"] = [pc |-> "got", pid |-> p, why |-> proc[p]]]
  /\ UNCHANGED <<jobs, nextjid, pc, arg, mask, sigs, stack, status, pend, keys, refused>>

(* Nothing to report: waitpid gives 0, or fails with ECHILD when there is  *)
(* no child at all.  Both end the loop and are accepted.                   *)
WaitpidNone ==
  /\ Running("CHLD") /\ h["CHLD"].pc = "start"
  /\ \A p \in Pids : proc[p] \notin Zombie \cup {"stop"}
  /\ leave("CHLD")
  /\ UNCHANGED <<jobs, nextjid, pc, arg, mask, sigs, status, proc, pend, keys, refused>>

(* What the list learns of a child.  Mistakes: a stop is not recorded; a   *)
(* job that a signal terminated stays in the list.                         *)
recordEnds(p, why) == IF why = "stop" THEN UNCHANGED listVars ELSE deletejob(p)
recordExits(p, why) == IF why = "stop" THEN setstate(getjobpid(p), "ST")
                       ELSE IF why = "exit" THEN deletejob(p) ELSE UNCHANGED listVars
record(p, why) == IF why = "stop" THEN setstate(getjobpid(p), "ST") ELSE deletejob(p)

(* The end of the loop body: on to the next child.  The mistake is an      *)
(* "if" in the place of the "while".                                       *)
onlyOnce == leave("CHLD")
again == /\ h' = [h EXCEPT !["CHLD"] = [idle EXCEPT !.pc = "start"]]
         /\ UNCHANGED stack

(* The body of the loop.  A child that is not in the list makes            *)
(* print_signal_info dereference NULL, unless it exited.                   *)
Update ==
  LET p == h["CHLD"].pid
      why == h["CHLD"].why
  IN /\ Running("CHLD") /\ h["CHLD"].pc = "got"
     /\ \/ /\ p \notin Listed
           /\ why # "exit"
           /\ Ends("crash")
        \/ /\ p \in Listed \/ why = "exit"
           /\ record(p, why)
           /\ again
           /\ refused' = IF why = "stop" THEN refused ELSE refused \ {p}
           /\ UNCHANGED <<pc, arg, mask, sigs, status, proc, pend, keys>>

(* sigint_handler and sigtstp_handler: read the foreground pid, ...        *)
FindForeground(s) ==
  /\ Running(s) /\ h[s].pc = "start"
  /\ IF fgpid = NoPid
       THEN leave(s)
       ELSE /\ h' = [h EXCEPT ![s] = [pc |-> "kill", pid |-> fgpid, why |-> "none"]]
            /\ UNCHANGED stack
  /\ UNCHANGED <<jobs, nextjid, pc, arg, mask, sigs, status, proc, pend, keys, refused>>

(* ... then send its group the signal; a failed kill ends the shell.       *)
Forward(s) ==
  /\ Running(s) /\ h[s].pc = "kill"
  /\ \/ /\ ~HasGroup(h[s].pid)
        /\ Ends("died")
     \/ /\ HasGroup(h[s].pid)
        /\ killGroup(h[s].pid, s)
        /\ leave(s)
        /\ UNCHANGED <<jobs, nextjid, pc, arg, mask, status, keys, refused>>

HandlerStep == \/ Waitpid \/ WaitpidNone \/ Update
               \/ \E s \in {"INT", "TSTP"} : FindForeground(s) \/ Forward(s)

-----------------------------------------------------------------------------
Init ==
  /\ initjobs
  /\ pc = "prompt"
  /\ arg = noarg
  /\ mask = {}
  /\ sigs = {}
  /\ h = [s \in Sigs |-> idle]
  /\ stack = <<>>
  /\ status = "up"
  /\ proc = [p \in Pids |-> "free"]
  /\ pend = [p \in Pids |-> {}]
  /\ keys = 0
  /\ refused = {}

Next == \/ MainStep \/ HandlerStep \/ ChildStep \/ Type \/ Quit
        \/ \E s \in Sigs : Deliver(s)

Spec == Init /\ [][Next]_vars

(* What the scheduler and the kernel guarantee.  Main and the handlers     *)
(* keep running, and so do children; a signal that is pending and not      *)
(* blocked is delivered at the next return to user mode, so one that is    *)
(* unblocked again and again (eval does) is delivered: strong fairness.    *)
(* Nothing forces the user to type, or a program to exit or to stop.       *)
MainProgress == \/ Fork \/ ForkFails \/ EvalAdd \/ EvalUnblock \/ EvalPrint
                \/ WaitfgReturns \/ BgfgReadPid \/ BgfgContinue \/ BgfgSetState

ChildProgress(p) ==
  /\ status = "up"
  /\ JoinGroup(p) \/ Exec(p) \/ TakeSignal(p)
  /\ UNCHANGED <<jobs, nextjid, pc, arg, mask, h, stack, status, keys, refused>>

Fairness == /\ WF_vars(MainProgress)
            /\ WF_vars(HandlerStep)
            /\ \A s \in Sigs : SF_vars(Deliver(s))
            /\ \A p \in Pids : WF_vars(ChildProgress(p))

FairSpec == Spec /\ Fairness

-----------------------------------------------------------------------------
(* Type invariant of the shell.                                            *)
TypeOK ==
  /\ ListTypeOK
  /\ pc \in Locations
  /\ arg \in [bg : BOOLEAN, pid : Pids \cup {NoPid}, slot : Slots \cup {0}]
  /\ mask \in SUBSET Sigs
  /\ sigs \in SUBSET Sigs
  /\ h \in [Sigs -> [pc : {"idle", "start", "got", "kill"},
                     pid : Pids \cup {NoPid},
                     why : {"none", "exit", "kill", "stop"}]]
  /\ stack \in Seq(Sigs)
  /\ status \in {"up", "quit", "died", "crash"}
  /\ proc \in [Pids -> ProcStates]
  /\ pend \in [Pids -> SUBSET {"INT", "TSTP"}]
  /\ keys \in Nat
  /\ refused \in SUBSET Pids

(* The list and the kernel agree.  Every child not reaped yet is in the    *)
(* list, unless addjob refused it or eval has just forked it; and a listed *)
(* pid is such a child, unless the handler is between reaping it and       *)
(* deleting it.  This is what blocking the signals around fork is for.     *)
ListMatchesKernel ==
  /\ \A p \in Pids : proc[p] # "free" =>
        p \in Listed \cup refused \/ (pc = "add" /\ arg.pid = p)
  /\ \A p \in Listed : proc[p] = "free" =>
        h["CHLD"].pc = "got" /\ h["CHLD"].pid = p /\ h["CHLD"].why \in Zombie

(* sigchld_handler never meets a child that eval has not put in the list   *)
(* yet: only a child addjob refused can make it dereference NULL           *)
(* (lines 415-428).                                                        *)
HandlerKnowsChild ==
  h["CHLD"].pc = "got" => h["CHLD"].pid \in Listed \cup refused

(* The strengthening under which the two properties above are inductive.   *)
(* A handler that is being run is on the stack; ...                        *)
HandlersStacked ==
  \A s \in Sigs : h[s] # idle => \E i \in 1 .. Len(stack) : stack[i] = s

(* ... none is from sigprocmask to sigprocmask in eval; ...                *)
ForkWindowQuiet ==
  pc \in {"fork", "add", "unblock"} => mask = Sigs /\ stack = <<>>

(* ... the child eval is about to add is alive or a zombie and not listed; *)
ForkedIsNew ==
  pc = "add" => /\ arg.pid \in Pids \ Listed
                /\ proc[arg.pid] # "free"

(* ... what waitpid gave is a child, which is gone unless it just stopped. *)
ReportedChild ==
  h["CHLD"].pc = "got" =>
     /\ h["CHLD"].pid \in Pids
     /\ h["CHLD"].why \in {"exit", "kill", "stop"}
     /\ h["CHLD"].why # "stop" => proc[h["CHLD"].pid] = "free"

SlotLookedUp == pc = "readpid" => arg.slot \in Slots

ShellInv == /\ TypeOK
            /\ PidsUnique
            /\ ListMatchesKernel
            /\ HandlerKnowsChild
            /\ HandlersStacked
            /\ ForkWindowQuiet
            /\ ForkedIsNew
            /\ ReportedChild
            /\ SlotLookedUp

(* As long as fg and bg are not used, a foreground job is the one eval is  *)
(* waiting for: the prompt never returns with a job left in the foreground,*)
(* and there is never a second one.                                        *)
ForegroundIsAwaited ==
  \A i \in Slots : jobs[i].state = "FG" =>
     jobs[i].pid = arg.pid /\ ~arg.bg /\ pc \in {"unblock", "waitfg"}

(* As long as fg and bg are not used, the list shows as stopped exactly    *)
(* the jobs whose stop waitpid has reported and which have not ended since. *)
StoppedShown ==
  \A i \in Slots : jobs[i].pid # NoPid =>
     LET p == jobs[i].pid
         beingRecorded == h["CHLD"].pc = "got" /\ h["CHLD"].pid = p
     IN /\ proc[p] = "halt" /\ ~beingRecorded => jobs[i].state = "ST"
        /\ jobs[i].state = "ST" => proc[p] \in {"halt", "free"} \cup Zombie

(* As long as fg and bg are not used, the shell uses its list as it is     *)
(* meant to be used: eval never adds a process that is listed already, and *)
(* handlers only change entries that are in use.                           *)
ImplementsJobList == ListSpec

(* "At most 1 job can be in the FG state" (line 37).                       *)
AtMostOneFg ==
  \A i, j \in Slots : /\ jobs[i].state = "FG" /\ jobs[i].pid # NoPid
                     /\ jobs[j].state = "FG" /\ jobs[j].pid # NoPid
                     => i = j

(* ctrl-c and ctrl-z reach the foreground job only (lines 440-442 and      *)
(* 459-461): a handler never signals the group of a job that is in the     *)
(* background by the time it does, though it read the job list earlier.    *)
SparesBackground ==
  [][\A i \in Slots : jobs[i].pid \in Pids =>
        pend'[jobs[i].pid] \subseteq pend[jobs[i].pid] \/ jobs[i].state \in {"FG", "ST"}]_vars

(* The handler reaps all available zombies (lines 390-395), although       *)
(* several deaths may have been reported by one SIGCHLD only.              *)
ZombiesReaped ==
  \A p \in Pids : proc[p] \in Zombie ~> proc[p] \notin Zombie \/ status # "up"

(* waitfg returns once its job is gone ("wait for the foreground job to    *)
(* terminate", line 363).                                                  *)
WaitfgEndsOnExit ==
  pc = "waitfg" /\ (arg.pid = NoPid \/ proc[arg.pid] \in Zombie \cup {"free"})
    ~> pc # "waitfg" \/ status # "up"

(* waitfg returns when its job is stopped ("FG -> ST : ctrl-z", line 33,   *)
(* and "Block until process pid is no longer the foreground process",      *)
(* line 373), unless the job is continued first.                           *)
WaitfgEndsOnStop ==
  \A p \in Pids : pc = "waitfg" /\ arg.pid = p /\ proc[p] \in Stopped
                   ~> pc # "waitfg" \/ proc[p] \notin Stopped \/ status # "up"
=============================================================================
