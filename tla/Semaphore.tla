----------------------------- MODULE Semaphore -----------------------------
(* The wrappers of sem_wait and sem_post in csapp.c.  s is a variable; the *)
(* program installs no signal handler, so sem_wait is never interrupted.   *)
EXTENDS Integers

P(s) == s > 0 /\ s' = s - 1
V(s) == s' = s + 1
=============================================================================
