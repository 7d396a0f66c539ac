---------------------------- MODULE TimedSystem ----------------------------
(***************************************************************************)
(* The timed client and the timed server together: the design of trial/    *)
(* that was to give both programs a safe exit (README, "Server", issues 1  *)
(* and 2).  It is checked together with the other programs of trial/, as   *)
(* pair 1 of module LockedSystem.                                          *)
(***************************************************************************)
EXTENDS SystemInv, TimedClient, TimedServer

timedVars == <<shmVars, clientVars, timedServerVars>>

TimedInit == ShmInit /\ ClientInit /\ TimedServerInit

TimedNext ==
  \/ TimedClientNext /\ UNCHANGED timedServerVars
  \/ TimedServerNext /\ UNCHANGED clientVars

TimedSpec == TimedInit /\ [][TimedNext]_timedVars

-----------------------------------------------------------------------------
(* Safety.                                                                 *)

\* The handler destroys the semaphores and the table when no thread of the server
\* uses them any more.  (cleanup of server.cpp does not wait.)
ServerExitsLast == spc = "finished" => ServerThreadsLeft

-----------------------------------------------------------------------------
(* Liveness.                                                               *)

\* The safe exit: the server ends when it gets SIGINT, even if locks are lost and
\* no client is there any more.
ServerEnds == (spc = "draining" /\ ServerThreadsBorn) ~> spc = "finished"

\* The same for a client process, even if the server is gone.
ClientEnds ==
  \A p \in Procs :
    (mpc[p] = "draining" /\ \A c \in Threads(p) : cpc[c] # "unborn")
      ~> mpc[p] = "finished"

\* Every request comes to an end for the thread that made it: it is answered, or
\* the thread gives it up.
RequestsSettled ==
  \A c \in Clients : cpc[c] = "wait_space" ~> cpc[c] = "create"

-----------------------------------------------------------------------------
(* What the README says of the server, and the timed server does not do.   *)

\* README, "Server": the enqueue and dequeue processes of the queues are safely
\* synchronized using lock mechanisms.  So the lock of the request queue is free when
\* neither the request thread nor a worker is at the queue.  (processRequests waits for
\* the lock also when it missed its ticket, and then goes on without giving it back.)
RequestQueueLockKept == RequestQueueLock
=============================================================================
