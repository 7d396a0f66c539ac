---------------------------- MODULE TimedServer ----------------------------
(***************************************************************************)
(* The timed server (trial/server.cpp): the threads of module Server, with *)
(* sem_timedwait in the place of sem_wait, loops that end when the flag    *)
(* running is down, and a SIGINT handler that waits for all of them.       *)
(*                                                                         *)
(* A thread at "wait" is at the top of its loop.  Two kinds of deadline:   *)
(* curr_ts is complete and already past, so a wait for it fails exactly    *)
(* when the semaphore is zero; of the others only tv_sec is set, and a     *)
(* wait for one of them may fail at any moment (see module TimedClient).   *)
(***************************************************************************)
EXTENDS Server

VARIABLES
  srunning,            \* the flag running
  all_threads_exited,  \* the semaphore each thread posts when it leaves
  spc,                 \* where the main thread is
  sdrained             \* how many posts the handler has collected

serverMainVars == <<srunning, all_threads_exited, spc, sdrained>>
timedServerVars == <<serverVars, serverMainVars>>

TimedServerInit ==
  /\ requestQueue = <<>> /\ responseQueue = <<>>
  /\ qsem = [n \in QueueSems |->
               IF n \in {"req_queue_lock", "res_queue_lock"} THEN 1 ELSE 0]
  /\ epc = "unborn" /\ ereq = ZeroRequest
  /\ wpc = [w \in Workers |-> "unborn"]
  /\ wreq = [w \in Workers |-> ZeroRequest]
  /\ wres = [w \in Workers |-> ZeroResponse]
  /\ rpc = "unborn" /\ rres = ZeroResponse
  /\ store = [v \in Values |-> 0]
  /\ srunning = TRUE
  /\ all_threads_exited = 0
  /\ spc = "spawning"
  /\ sdrained = 0

PostExit == all_threads_exited' = all_threads_exited + 1

-----------------------------------------------------------------------------
(* The request thread: enqueueRequests.                                    *)

ETop ==
  /\ EGoto("wait", "timed_wait")
  /\ srunning
  /\ UNCHANGED <<shmVars, queueVars, ereq, workVars, deqVars, serverMainVars>>

ELeave ==
  /\ EGoto("wait", "exited")
  /\ ~srunning
  /\ PostExit
  /\ UNCHANGED <<shmVars, queueVars, ereq, workVars, deqVars, srunning, spc, sdrained>>

WaitRequestInTime ==
  /\ EGoto("timed_wait", "copy")
  /\ SemWait(sem, "req_available")
  /\ UNCHANGED <<request, response, queueVars, ereq, workVars, deqVars, serverMainVars>>

MissRequest ==
  /\ EGoto("timed_wait", "wait")
  /\ UNCHANGED <<shmVars, queueVars, ereq, workVars, deqVars, serverMainVars>>

\* "Request ignored. Not enqueued".
IgnoreRequest ==
  /\ EGoto("lock", "wait")
  /\ ereq' = ZeroRequest
  /\ UNCHANGED <<shmVars, queueVars, workVars, deqVars, serverMainVars>>

TimedRequestThreadStep ==
  \/ ETop \/ ELeave \/ WaitRequestInTime \/ MissRequest \/ IgnoreRequest
  \/ /\ \/ CopyRequest \/ ReleaseRequestSlot
        \/ LockForEnqueue \/ PushRequest \/ UnlockAfterEnqueue \/ AnnounceRequest
     /\ UNCHANGED serverMainVars

-----------------------------------------------------------------------------
(* The processing threads: processRequests.  "ticket" and "lock" are the   *)
(* two waits when the first succeeds; "lock_anyway" is the second wait of  *)
(* a thread that missed its ticket.                                        *)

WTop(w) ==
  /\ WGoto(w, "wait", "ticket")
  /\ srunning
  /\ UNCHANGED <<shmVars, queueVars, enqVars, wreq, wres, store, deqVars, serverMainVars>>

\* Mutant: a processing thread does not report that it leaves.
WLeaveSilently(w) ==
  /\ WGoto(w, "wait", "exited")
  /\ ~srunning
  /\ UNCHANGED <<shmVars, queueVars, enqVars, wreq, wres, store, deqVars, serverMainVars>>

WLeave(w) ==
  /\ WGoto(w, "wait", "exited")
  /\ ~srunning
  /\ PostExit
  /\ UNCHANGED <<shmVars, queueVars, enqVars, wreq, wres, store, deqVars,
                 srunning, spc, sdrained>>

TakeTicketInTime(w) ==
  /\ WGoto(w, "ticket", "lock")
  /\ SemWait(qsem, "req_queue_size")
  /\ UNCHANGED <<shmVars, requestQueue, responseQueue, enqVars, wreq, wres, store,
                 deqVars, serverMainVars>>

MissTicket(w) ==
  /\ WGoto(w, "ticket", "lock_anyway")
  /\ qsem["req_queue_size"] = 0
  /\ UNCHANGED <<shmVars, queueVars, enqVars, wreq, wres, store, deqVars, serverMainVars>>

\* The second wait is made even so.  When it succeeds nothing is popped, and
\* the lock is not given back.
LockAndForget(w) ==
  /\ WGoto(w, "lock_anyway", "wait")
  /\ SemWait(qsem, "req_queue_lock")
  /\ UNCHANGED <<shmVars, requestQueue, responseQueue, enqVars, wreq, wres, store,
                 deqVars, serverMainVars>>

MissBoth(w) ==
  /\ WGoto(w, "lock_anyway", "wait")
  /\ qsem["req_queue_lock"] = 0
  /\ UNCHANGED <<shmVars, queueVars, enqVars, wreq, wres, store, deqVars, serverMainVars>>

MissLock(w) ==
  /\ WGoto(w, "lock", "give_back")
  /\ qsem["req_queue_lock"] = 0
  /\ UNCHANGED <<shmVars, queueVars, enqVars, wreq, wres, store, deqVars, serverMainVars>>

\* Mutant: the ticket is not given back, as in trial/server3.cpp.
KeepTicket(w) ==
  /\ WGoto(w, "give_back", "wait")
  /\ UNCHANGED <<shmVars, queueVars, enqVars, wreq, wres, store, deqVars, serverMainVars>>

GiveTicketBack(w) ==
  /\ WGoto(w, "give_back", "wait")
  /\ SemPost(qsem, "req_queue_size")
  /\ UNCHANGED <<shmVars, requestQueue, responseQueue, enqVars, wreq, wres, store,
                 deqVars, serverMainVars>>

\* "Response not Enqueued. Timeout".
DropResponse(w) ==
  /\ WGoto(w, "lock_res", "wait")
  /\ wreq' = [wreq EXCEPT ![w] = ZeroRequest]
  /\ wres' = [wres EXCEPT ![w] = ZeroResponse]
  /\ UNCHANGED <<shmVars, queueVars, enqVars, store, deqVars, serverMainVars>>

\* A DELETE is answered with FAILURE: the third test of the operation is for
\* INSERT again.
TimedProcess(w) == ProcessNoDelete(w)

TimedWorkerStep(w) ==
  \/ WTop(w) \/ WLeave(w)
  \/ TakeTicketInTime(w) \/ MissTicket(w)
  \/ LockAndForget(w) \/ MissBoth(w) \/ MissLock(w) \/ GiveTicketBack(w)
  \/ DropResponse(w)
  \/ /\ \/ LockForDequeue(w) \/ PopRequest(w) \/ UnlockAfterDequeue(w)
        \/ TimedProcess(w)
        \/ LockForResponse(w) \/ PushResponse(w) \/ UnlockAfterResponse(w)
        \/ AnnounceResponse(w)
     /\ UNCHANGED serverMainVars

-----------------------------------------------------------------------------
(* The response thread: dequeueResponses.                                  *)

RTop ==
  /\ RGoto("wait", "ticket")
  /\ srunning
  /\ UNCHANGED <<shmVars, queueVars, enqVars, workVars, rres, serverMainVars>>

RLeave ==
  /\ RGoto("wait", "exited")
  /\ ~srunning
  /\ PostExit
  /\ UNCHANGED <<shmVars, queueVars, enqVars, workVars, rres, srunning, spc, sdrained>>

WaitResultInTime ==
  /\ RGoto("ticket", "lock")
  /\ SemWait(qsem, "res_queue_size")
  /\ UNCHANGED <<shmVars, requestQueue, responseQueue, enqVars, workVars, rres,
                 serverMainVars>>

MissResult ==
  /\ RGoto("ticket", "lock_anyway")
  /\ qsem["res_queue_size"] = 0
  /\ UNCHANGED <<shmVars, queueVars, enqVars, workVars, rres, serverMainVars>>

LockResultsAndForget ==
  /\ RGoto("lock_anyway", "wait")
  /\ SemWait(qsem, "res_queue_lock")
  /\ UNCHANGED <<shmVars, requestQueue, responseQueue, enqVars, workVars, rres,
                 serverMainVars>>

MissResultAndLock ==
  /\ RGoto("lock_anyway", "wait")
  /\ qsem["res_queue_lock"] = 0
  /\ UNCHANGED <<shmVars, queueVars, enqVars, workVars, rres, serverMainVars>>

MissResultLock ==
  /\ RGoto("lock", "give_back")
  /\ qsem["res_queue_lock"] = 0
  /\ UNCHANGED <<shmVars, queueVars, enqVars, workVars, rres, serverMainVars>>

GiveResultBack ==
  /\ RGoto("give_back", "wait")
  /\ SemPost(qsem, "res_queue_size")
  /\ UNCHANGED <<shmVars, requestQueue, responseQueue, enqVars, workVars, rres,
                 serverMainVars>>

\* "Response Space Unavailable. Forcefully making space": the response is
\* written over whatever is in the slot.
ForceSpace ==
  /\ RGoto("wait_space", "write")
  /\ UNCHANGED <<shmVars, queueVars, enqVars, workVars, rres, serverMainVars>>

TimedResponseThreadStep ==
  \/ RTop \/ RLeave
  \/ WaitResultInTime \/ MissResult
  \/ LockResultsAndForget \/ MissResultAndLock \/ MissResultLock \/ GiveResultBack
  \/ ForceSpace
  \/ /\ \/ LockForResult \/ PopResult \/ UnlockAfterResult
        \/ WaitResponseSpace \/ WriteResponse \/ PostResponse
     /\ UNCHANGED serverMainVars

-----------------------------------------------------------------------------
(* The main thread: main and, on SIGINT, cleanup.                          *)

ServerThreadsBorn ==
  epc # "unborn" /\ rpc # "unborn" /\ \A w \in Workers : wpc[w] # "unborn"
ServerThreadsLeft ==
  epc = "exited" /\ rpc = "exited" /\ \A w \in Workers : wpc[w] = "exited"

\* The response thread is spawned first, then the processing threads, then the
\* request thread.
SpawnServerThread ==
  /\ spc = "spawning"
  /\ \/ /\ rpc = "unborn" /\ rpc' = "wait"
        /\ UNCHANGED <<epc, wpc, spc>>
     \/ /\ rpc # "unborn"
        /\ \E w \in Workers : WGoto(w, "unborn", "wait")
        /\ UNCHANGED <<epc, rpc, spc>>
     \/ /\ rpc # "unborn" /\ \A w \in Workers : wpc[w] # "unborn"
        /\ EGoto("unborn", "wait")
        /\ spc' = "joining"
        /\ UNCHANGED <<wpc, rpc>>
  /\ UNCHANGED <<shmVars, queueVars, ereq, wreq, wres, store, rres,
                 srunning, all_threads_exited, sdrained>>

\* The join loop of main has nothing to wait for but the handler: no thread
\* leaves before running is down.
ServerSigint ==
  /\ spc \in {"spawning", "joining"}
  /\ spc' = "draining"
  /\ srunning' = FALSE
  /\ UNCHANGED <<shmVars, serverVars, all_threads_exited, sdrained>>

DrainServerExit ==
  /\ spc = "draining"
  /\ sdrained < Cardinality(Workers) + 2
  /\ all_threads_exited > 0
  /\ all_threads_exited' = all_threads_exited - 1
  /\ sdrained' = sdrained + 1
  /\ UNCHANGED <<shmVars, serverVars, srunning, spc>>

\* Mutant: the handler counts the processing threads only.
ServerExitsEarly ==
  /\ spc = "draining"
  /\ sdrained = Cardinality(Workers)
  /\ spc' = "finished"
  /\ UNCHANGED <<shmVars, serverVars, srunning, all_threads_exited, sdrained>>

\* All posts are there: the handler joins the threads (main, which it interrupts,
\* may be joining one of them: the C library lets both return), destroys the
\* semaphores and the segment, deletes the table, and exits.
ServerExits ==
  /\ spc = "draining"
  /\ sdrained = Cardinality(Workers) + 2
  /\ spc' = "finished"
  /\ UNCHANGED <<shmVars, serverVars, srunning, all_threads_exited, sdrained>>

ServerMainStep == SpawnServerThread \/ DrainServerExit \/ ServerExits

TimedServerNext ==
  \/ TimedRequestThreadStep
  \/ \E w \in Workers : TimedWorkerStep(w)
  \/ TimedResponseThreadStep
  \/ ServerMainStep
  \/ ServerSigint

=============================================================================
