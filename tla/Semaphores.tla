----------------------------- MODULE Semaphores -----------------------------
(***************************************************************************)
(* POSIX counting semaphores (sem_wait, sem_post), as the program uses     *)
(* them: a family of semaphores is a function from their names to their    *)
(* values.  SemWait is the moment a sem_wait call returns: the value is    *)
(* positive and is taken down by one.  A thread whose sem_wait cannot      *)
(* return yet simply has no step.  POSIX promises no order among waiters,  *)
(* so any thread whose wait is enabled may be the one that returns.        *)
(***************************************************************************)
EXTENDS Naturals

SemWait(s, name) ==
  /\ s[name] > 0
  /\ s' = [s EXCEPT ![name] = @ - 1]

SemPost(s, name) == s' = [s EXCEPT ![name] = @ + 1]
=============================================================================
