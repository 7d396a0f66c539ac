---------------------------- MODULE TimedClient ----------------------------
(***************************************************************************)
(* The timed client (trial/client.cpp).  It is the client of module Client *)
(* with two differences.  The waits of a request thread are sem_timedwait, *)
(* so that it never stays in one when the process is to end: a thread may  *)
(* give up sending its request, and it may give up the response.  And the  *)
(* SIGINT handler joins the threads before it exits.                       *)
(*                                                                         *)
(* Of the timespec of a deadline the program sets tv_sec only; tv_nsec is  *)
(* whatever the stack held, and a value that is no number of nanoseconds   *)
(* makes sem_timedwait fail at once.  A timed wait may hence fail at any   *)
(* moment, whatever the semaphore holds.                                   *)
(***************************************************************************)
EXTENDS Client

CONSTANT MaxDraws  \* bound: how many requests each thread creates

ASSUME TimedClientAssumption == MaxDraws \in Nat /\ ~Bounded

\* num_requests, which this client does not have, counts towards MaxDraws.
DrawRequest(c) ==
  /\ Goto(c, "create", "wait_space")
  /\ KeepsGoing(c)
  /\ num_requests[c] < MaxDraws
  /\ num_requests' = [num_requests EXCEPT ![c] = @ + 1]
  /\ \E id \in Ids, op \in DrawnOps, v \in Values :
       /\ CanDraw(c, id)
       /\ creq' = [creq EXCEPT ![c] =
                     [requestid |-> id, operation |-> op, value |-> v]]
  /\ UNCHANGED <<shmVars, processVars>>

\* "Request NOT Sent".
GiveUpSending(c) ==
  /\ Goto(c, "wait_space", "create")
  /\ UNCHANGED <<shmVars, creq, num_requests, processVars>>

\* The top of the inner loop: once more, ...
PollAgain(c) ==
  /\ Goto(c, "wait_response", "poll")
  /\ running[Home[c]]
  /\ UNCHANGED <<shmVars, creq, num_requests, processVars>>

\* Mutant: the end of the process is not looked at, and the deadline never comes.
NeverGiveUp(c) ==
  /\ Goto(c, "wait_response", "poll")
  /\ UNCHANGED <<shmVars, creq, num_requests, processVars>>

\* ... or no more: res_ts has passed, or the process is to end.
GiveUpResponse(c) ==
  /\ Goto(c, "wait_response", "create")
  /\ UNCHANGED <<shmVars, creq, num_requests, processVars>>

TakeResponse(c) ==
  /\ Goto(c, "poll", "check")
  /\ SemWait(sem, "res_available")
  /\ UNCHANGED <<request, response, creq, num_requests, processVars>>

\* "Response Iteration. Timeout Warning!"
MissResponse(c) ==
  /\ Goto(c, "poll", "wait_response")
  /\ UNCHANGED <<shmVars, creq, num_requests, processVars>>

\* The handler has its posts, joins the threads, and exits.
JoinAndExit(p) ==
  /\ mpc[p] = "draining"
  /\ drained[p] = Cardinality(Threads(p))
  /\ mpc' = [mpc EXCEPT ![p] = "finished"]
  /\ joinable' = [joinable EXCEPT ![p] = FALSE]
  /\ UNCHANGED <<shmVars, threadVars, running, threads_safe_exit, drained>>

TimedThreadStep(c) ==
  \/ DrawRequest(c)
  \/ WaitRequestSpace(c) \/ GiveUpSending(c)
  \/ WriteRequest(c) \/ PostRequest(c)
  \/ PollAgain(c) \/ GiveUpResponse(c)
  \/ TakeResponse(c) \/ MissResponse(c)
  \/ CheckResponse(c) \/ RepostResponse(c) \/ ReleaseResponse(c)
  \/ LeaveLoop(c)

TimedMainStep(p) ==
  \/ \E c \in Threads(p) : SpawnThread(c)
  \/ JoinThreads(p) \/ ReturnFromMain(p)
  \/ DrainOneExit(p) \/ JoinAndExit(p)

TimedClientNext ==
  \/ \E c \in Clients : TimedThreadStep(c)
  \/ \E p \in Procs : TimedMainStep(p) \/ Sigint(p)

=============================================================================
