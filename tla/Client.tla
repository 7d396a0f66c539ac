------------------------------- MODULE Client -------------------------------
(***************************************************************************)
(* The client program (client.cpp, and the measuring clients under expt-1, *)
(* expt-2 and expt-4, which add a request count).  A process runs a main   *)
(* thread, which spawns the request threads, joins them and handles        *)
(* SIGINT, and NUM_CLIENT_THREADS request threads, each in a loop: create  *)
(* a request, put it in the request slot, and poll the response slot until *)
(* the response in it carries the id of that request.                      *)
(***************************************************************************)
EXTENDS SharedMemory, FiniteSets

CONSTANTS
  Clients,       \* the request threads of all client processes
  Procs,         \* the client processes
  Home,          \* the process of each request thread
  Bounded,       \* the thread counts its requests (expt-*), or not (client.cpp)
  NumRequests,   \* NUM_REQUESTS, when it does
  DrawnOps,      \* the operations the random draw yields (all of Ops in the code)
  CollidingIds   \* whether a draw may repeat an id that is in flight

ASSUME ClientAssumption ==
  /\ IsFiniteSet(Clients)
  /\ Home \in [Clients -> Procs]
  /\ Bounded \in BOOLEAN
  /\ NumRequests \in Nat
  /\ DrawnOps \subseteq Ops
  /\ CollidingIds \in BOOLEAN

VARIABLES
  cpc,           \* where each request thread is
  creq,          \* its local variable request
  num_requests,  \* its local variable num_requests
  running,       \* of each process: the flag its request threads poll
  threads_safe_exit, \* of each process: the semaphore its threads post on leaving
  mpc,           \* where the main thread of each process is
  drained,       \* how many posts its SIGINT handler has collected
  joinable       \* whether its vector threads holds a thread not joined yet

threadVars  == <<cpc, creq, num_requests>>
processVars == <<running, threads_safe_exit, mpc, drained, joinable>>
clientVars  == <<threadVars, processVars>>

Threads(p) == {c \in Clients : Home[c] = p}

\* The labels between the creation of a request and its acknowledgement.
BusyLabels ==
  {"wait_space", "write", "post", "wait_response", "check", "repost", "release"}
Busy(c) == cpc[c] \in BusyLabels

ClientInit ==
  /\ cpc = [c \in Clients |-> "unborn"]
  /\ creq = [c \in Clients |-> ZeroRequest]
  /\ num_requests = [c \in Clients |-> 0]
  /\ running = [p \in Procs |-> TRUE]
  /\ threads_safe_exit = [p \in Procs |-> 0]
  /\ mpc = [p \in Procs |-> "spawning"]
  /\ drained = [p \in Procs |-> 0]
  /\ joinable = [p \in Procs |-> FALSE]

-----------------------------------------------------------------------------
(* The request threads: sendRequestwaitResponse.                           *)

Goto(c, here, there) ==
  /\ cpc[c] = here
  /\ cpc' = [cpc EXCEPT ![c] = there]

\* The condition of the outer loop.
KeepsGoing(c) == running[Home[c]] /\ (Bounded => num_requests[c] < NumRequests)

\* A 64-bit random draw: it does not repeat an id in flight, unless the run
\* says that it may.
CanDraw(c, id) ==
  CollidingIds \/ \A d \in Clients \ {c} : Busy(d) => creq[d].requestid # id

CreateRequest(c) ==
  /\ Goto(c, "create", "wait_space")
  /\ KeepsGoing(c)
  /\ \E id \in Ids, op \in DrawnOps, v \in Values :
       /\ CanDraw(c, id)
       /\ creq' = [creq EXCEPT ![c] =
                     [requestid |-> id, operation |-> op, value |-> v]]
  /\ UNCHANGED <<shmVars, num_requests, processVars>>

WaitRequestSpace(c) ==
  /\ Goto(c, "wait_space", "write")
  /\ SemWait(sem, "req_space_available")
  /\ UNCHANGED <<request, response, creq, num_requests, processVars>>

WriteRequest(c) ==
  /\ Goto(c, "write", "post")
  /\ request' = creq[c]
  /\ UNCHANGED <<response, sem, creq, num_requests, processVars>>

PostRequest(c) ==
  /\ Goto(c, "post", "wait_response")
  /\ SemPost(sem, "req_available")
  /\ UNCHANGED <<request, response, creq, num_requests, processVars>>

WaitResponse(c) ==
  /\ Goto(c, "wait_response", "check")
  /\ SemWait(sem, "res_available")
  /\ UNCHANGED <<request, response, creq, num_requests, processVars>>

\* Mutant: any response is taken for the own one.
CheckNothing(c) ==
  /\ Goto(c, "check", "release")
  /\ UNCHANGED <<shmVars, creq, num_requests, processVars>>

\* The response is mine, or it goes back for the thread it belongs to.
CheckResponse(c) ==
  /\ Goto(c, "check", IF response.requestid = creq[c].requestid
                        THEN "release" ELSE "repost")
  /\ UNCHANGED <<shmVars, creq, num_requests, processVars>>

\* Mutant: the response of another thread is not put back.
RepostForgotten(c) ==
  /\ Goto(c, "repost", "wait_response")
  /\ UNCHANGED <<shmVars, creq, num_requests, processVars>>

RepostResponse(c) ==
  /\ Goto(c, "repost", "wait_response")
  /\ SemPost(sem, "res_available")
  /\ UNCHANGED <<request, response, creq, num_requests, processVars>>

\* Mutant: the response slot is not freed.
ReleaseForgotten(c) ==
  /\ Goto(c, "release", "create")
  /\ UNCHANGED <<shmVars, creq, num_requests, processVars>>

ReleaseResponse(c) ==
  /\ Goto(c, "release", "create")
  /\ SemPost(sem, "res_space_available")
  /\ num_requests' = IF Bounded THEN [num_requests EXCEPT ![c] = @ + 1]
                                ELSE num_requests
  /\ UNCHANGED <<request, response, creq, processVars>>

\* Mutant: the thread returns without posting threads_safe_exit.
LeaveSilently(c) ==
  /\ Goto(c, "create", "exited")
  /\ ~KeepsGoing(c)
  /\ UNCHANGED <<shmVars, creq, num_requests, processVars>>

\* The loop ends: the thread posts threads_safe_exit and is gone.
LeaveLoop(c) ==
  /\ Goto(c, "create", "exited")
  /\ ~KeepsGoing(c)
  /\ SemPost(threads_safe_exit, Home[c])
  /\ UNCHANGED <<shmVars, creq, num_requests, running, mpc, drained, joinable>>

-----------------------------------------------------------------------------
(* The main thread: main and, on SIGINT, cleanup.                          *)

SpawnThread(c) ==
  LET p == Home[c] IN
  /\ mpc[p] = "spawning"
  /\ Goto(c, "unborn", "create")
  /\ joinable' = [joinable EXCEPT ![p] = TRUE]
  /\ mpc' = [mpc EXCEPT ![p] =
               IF \A d \in Threads(p) \ {c} : cpc[d] # "unborn"
                 THEN "joining" ELSE "spawning"]
  /\ UNCHANGED <<shmVars, creq, num_requests, running, threads_safe_exit, drained>>

\* The join loop is over: no thread of the vector is joinable any more.
JoinThreads(p) ==
  /\ mpc[p] = "joining"
  /\ \A c \in Threads(p) : cpc[c] = "exited"
  /\ mpc' = [mpc EXCEPT ![p] = "joined"]
  /\ joinable' = [joinable EXCEPT ![p] = FALSE]
  /\ UNCHANGED <<shmVars, threadVars, running, threads_safe_exit, drained>>

ReturnFromMain(p) ==
  /\ mpc[p] = "joined"
  /\ mpc' = [mpc EXCEPT ![p] = "finished"]
  /\ UNCHANGED <<shmVars, threadVars, running, threads_safe_exit, drained, joinable>>

\* SIGINT is handled by the main thread, wherever it is; the handler never
\* goes back to it.
Sigint(p) ==
  /\ mpc[p] \in {"spawning", "joining", "joined"}
  /\ mpc' = [mpc EXCEPT ![p] = "draining"]
  /\ running' = [running EXCEPT ![p] = FALSE]
  /\ UNCHANGED <<shmVars, threadVars, threads_safe_exit, drained, joinable>>

\* One turn of the handler's loop over sem_wait(&threads_safe_exit).
DrainOneExit(p) ==
  /\ mpc[p] = "draining"
  /\ drained[p] < Cardinality(Threads(p))
  /\ SemWait(threads_safe_exit, p)
  /\ drained' = [drained EXCEPT ![p] = @ + 1]
  /\ UNCHANGED <<shmVars, threadVars, running, mpc, joinable>>

\* Mutant: the handler is content with one post.
ExitAfterOne(p) ==
  /\ mpc[p] = "draining"
  /\ drained[p] > 0
  /\ mpc' = [mpc EXCEPT ![p] = IF joinable[p] THEN "aborted" ELSE "finished"]
  /\ UNCHANGED <<shmVars, threadVars, running, threads_safe_exit, drained, joinable>>

\* munmap, then exit(0), which runs the destructor of the global vector
\* threads: a thread that is still joinable makes it call std::terminate.
ExitFromHandler(p) ==
  /\ mpc[p] = "draining"
  /\ drained[p] = Cardinality(Threads(p))
  /\ mpc' = [mpc EXCEPT ![p] = IF joinable[p] THEN "aborted" ELSE "finished"]
  /\ UNCHANGED <<shmVars, threadVars, running, threads_safe_exit, drained, joinable>>

-----------------------------------------------------------------------------
ThreadStep(c) ==
  \/ CreateRequest(c)
  \/ WaitRequestSpace(c)
  \/ WriteRequest(c)
  \/ PostRequest(c)
  \/ WaitResponse(c)
  \/ CheckResponse(c)
  \/ RepostResponse(c)
  \/ ReleaseResponse(c)
  \/ LeaveLoop(c)

MainStep(p) ==
  \/ \E c \in Threads(p) : SpawnThread(c)
  \/ JoinThreads(p)
  \/ ReturnFromMain(p)
  \/ DrainOneExit(p)
  \/ ExitFromHandler(p)

ClientNext ==
  \/ \E c \in Clients : ThreadStep(c)
  \/ \E p \in Procs : MainStep(p) \/ Sigint(p)

ThreadLabels == BusyLabels \cup {"unborn", "create", "exited"}
MainLabels   ==
  {"spawning", "joining", "joined", "draining", "finished", "aborted"}

ClientTypeOK ==
  /\ cpc \in [Clients -> ThreadLabels]
  /\ creq \in [Clients -> Requests \cup {ZeroRequest}]
  /\ \A c \in Clients : Busy(c) => creq[c] \in Requests
  /\ num_requests \in [Clients -> Nat]
  /\ running \in [Procs -> BOOLEAN]
  /\ threads_safe_exit \in [Procs -> Nat]
  /\ mpc \in [Procs -> MainLabels]
  /\ drained \in [Procs -> Nat]
  /\ joinable \in [Procs -> BOOLEAN]
=============================================================================
