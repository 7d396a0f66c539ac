---------------------------- MODULE LockedServer ---------------------------
(***************************************************************************)
(* The servers with buffer locks (trial/server2.cpp, server3.cpp and       *)
(* server5.cpp), made of the steps below and of those of modules Server    *)
(* and TimedServer that they share.  The waits of server2 and server5 are  *)
(* untimed but for the two that put a response in its slot, and their      *)
(* SIGINT handler exits at once; those of server3 are all timed, and its   *)
(* handler waits for the threads.                                          *)
(*                                                                         *)
(* The deadlines wait_ts, ts and res_recv_ts are complete: a wait for them *)
(* fails only when the semaphore is zero.  enq_ts and process_ts are not,  *)
(* and a wait for them may fail at any moment (module TimedClient).        *)
(***************************************************************************)
EXTENDS TimedServer, BufferLocks

EWalk(here, there) ==
  EGoto(here, there) /\ UNCHANGED <<shmVars, queueVars, ereq, workVars, deqVars, serverMainVars>>
RWalk(here, there) ==
  RGoto(here, there) /\ UNCHANGED <<shmVars, queueVars, enqVars, workVars, rres, serverMainVars>>

-----------------------------------------------------------------------------
(* The request thread.                                                     *)

\* Mutant: the request thread does not wait for a request.
TakeNoRequest == EWalk("timed_wait", "lock_buffer") /\ NoLock

TakeRequest ==
  /\ EGoto("timed_wait", "lock_buffer")
  /\ SemWait(sem, "req_available")
  /\ UNCHANGED <<request, response, queueVars, ereq, workVars, deqVars, serverMainVars>>
  /\ NoLock

LockRequestBuffer == EWalk("lock_buffer", "copy") /\ Lock("req_buffer_lock")

CopyLocked ==
  /\ EGoto("copy", "unlock_buffer")
  /\ ereq' = request
  /\ UNCHANGED <<shmVars, queueVars, workVars, deqVars, serverMainVars>> /\ NoLock

UnlockRequestBuffer == EWalk("unlock_buffer", "release") /\ Unlock("req_buffer_lock")

EnqueueLocked ==
  \/ TakeRequest \/ LockRequestBuffer \/ CopyLocked \/ UnlockRequestBuffer
  \/ /\ \/ ReleaseRequestSlot
        \/ LockForEnqueue \/ PushRequest \/ UnlockAfterEnqueue \/ AnnounceRequest
     /\ UNCHANGED serverMainVars /\ NoLock

\* server3: either wait may miss, and the second then keeps what the first got.
MissRequestOrLock ==
  /\ \/ epc = "timed_wait" /\ sem["req_available"] = 0
     \/ epc = "lock_buffer" /\ bsem["req_buffer_lock"] = 0
  /\ EWalk(epc, "wait") /\ NoLock

-----------------------------------------------------------------------------
(* The processing threads.                                                 *)

\* The test for DELETE is for INSERT again in all three servers.
WorkLocked(w) ==
  /\ \/ LockForDequeue(w) \/ PopRequest(w) \/ UnlockAfterDequeue(w)
     \/ ProcessNoDelete(w)
     \/ LockForResponse(w) \/ PushResponse(w) \/ UnlockAfterResponse(w)
     \/ AnnounceResponse(w)
  /\ UNCHANGED serverMainVars /\ NoLock

WWalk(w, here, there) ==
  /\ WGoto(w, here, there)
  /\ UNCHANGED <<shmVars, queueVars, enqVars, wreq, wres, store, deqVars, serverMainVars>>

\* server3: a missed ticket is nothing, a missed lock loses the ticket.
MissTicketAndTurn(w) ==
  /\ qsem["req_queue_size"] = 0
  /\ WWalk(w, "ticket", "wait") /\ NoLock

LoseTicket(w) ==
  /\ qsem["req_queue_lock"] = 0
  /\ WWalk(w, "lock", "wait") /\ NoLock

-----------------------------------------------------------------------------
(* The response thread.                                                    *)

TakeResponseSpace ==
  /\ RGoto("wait_space", "lock_buffer")
  /\ SemWait(sem, "res_space_available")
  /\ UNCHANGED <<request, response, queueVars, enqVars, workVars, rres, serverMainVars>>
  /\ NoLock

LockResponseBuffer == RWalk("lock_buffer", "write") /\ Lock("res_buffer_lock")

WriteLockedResponse ==
  /\ RGoto("write", "unlock_buffer")
  /\ response' = rres
  /\ UNCHANGED <<request, sem, queueVars, enqVars, workVars, rres, serverMainVars>>
  /\ NoLock

UnlockResponseBuffer == RWalk("unlock_buffer", "post") /\ Unlock("res_buffer_lock")

DequeueLocked ==
  \/ /\ LockForResult \/ PopResult \/ UnlockAfterResult \/ PostResponse
     /\ UNCHANGED serverMainVars /\ NoLock
  \/ TakeResponseSpace \/ LockResponseBuffer
  \/ WriteLockedResponse \/ UnlockResponseBuffer

\* server2 does not look at what the two timed waits return: it writes.
WriteAnyway ==
  \/ sem["res_space_available"] = 0 /\ RWalk("wait_space", "lock_buffer") /\ NoLock
  \/ bsem["res_buffer_lock"] = 0 /\ RWalk("lock_buffer", "write") /\ NoLock

\* server3, server5: without space the lock is waited for all the same, and is not
\* given back; the response is dropped.
MissSpaceAnyway ==
  /\ sem["res_space_available"] = 0
  /\ RWalk("wait_space", "lock_in_vain") /\ NoLock

Drop(here) ==
  /\ RGoto(here, "wait")
  /\ rres' = ZeroResponse
  /\ UNCHANGED <<shmVars, queueVars, enqVars, workVars, serverMainVars>>

LockAndDrop  == Drop("lock_in_vain") /\ Lock("res_buffer_lock")
MissAndDrop  == bsem["res_buffer_lock"] = 0 /\ Drop("lock_in_vain") /\ NoLock

\* server3: without the lock the space is lost with the response.
DropWithSpace == bsem["res_buffer_lock"] = 0 /\ Drop("lock_buffer") /\ NoLock

\* server5: without the lock the space is given back.
MissResponseBuffer ==
  /\ bsem["res_buffer_lock"] = 0
  /\ RWalk("lock_buffer", "return_space") /\ NoLock

ReturnSpaceAndDrop ==
  /\ RGoto("return_space", "wait")
  /\ SemPost(sem, "res_space_available")
  /\ rres' = ZeroResponse
  /\ UNCHANGED <<request, response, queueVars, enqVars, workVars, serverMainVars>>
  /\ NoLock

\* server3: the waits for a result and for its lock.
MissResultAndTurn ==
  /\ qsem["res_queue_size"] = 0
  /\ RWalk("ticket", "wait") /\ NoLock

LoseResult ==
  /\ qsem["res_queue_lock"] = 0
  /\ RWalk("lock", "wait") /\ NoLock

-----------------------------------------------------------------------------
(* The three programs: their request thread, processing threads, response  *)
(* thread and main thread.                                                 *)

Server2Request == (ETop /\ NoLock) \/ EnqueueLocked
Server2Work(w) ==
  \/ TakeTicket(w) /\ UNCHANGED serverMainVars /\ NoLock
  \/ WorkLocked(w)
Server2Response ==
  \/ WaitResult /\ UNCHANGED serverMainVars /\ NoLock
  \/ DequeueLocked \/ WriteAnyway

Server3Request ==
  \/ (ETop \/ ELeave \/ IgnoreRequest) /\ NoLock
  \/ EnqueueLocked \/ MissRequestOrLock
Server3Work(w) ==
  \/ (WTop(w) \/ WLeave(w) \/ TakeTicketInTime(w) \/ DropResponse(w)) /\ NoLock
  \/ WorkLocked(w) \/ MissTicketAndTurn(w) \/ LoseTicket(w)
Server3Response ==
  \/ (RTop \/ RLeave \/ WaitResultInTime) /\ NoLock
  \/ DequeueLocked \/ MissResultAndTurn \/ LoseResult
  \/ MissSpaceAnyway \/ LockAndDrop \/ MissAndDrop \/ DropWithSpace

\* The request and processing threads of server5 are those of server2.
Server5Response ==
  \/ WaitResult /\ UNCHANGED serverMainVars /\ NoLock
  \/ DequeueLocked
  \/ MissSpaceAnyway \/ LockAndDrop \/ MissAndDrop
  \/ MissResponseBuffer \/ ReturnSpaceAndDrop

\* SIGINT in server2 and server5: the handler removes the segment and the table
\* and exits, and the threads are gone, wherever they are.
ServerExitsAtOnce ==
  /\ spc \in {"spawning", "joining"}
  /\ spc' = "finished"
  /\ epc' = "exited" /\ rpc' = "exited" /\ wpc' = [w \in Workers |-> "exited"]
  /\ UNCHANGED <<shmVars, queueVars, ereq, wreq, wres, store, rres,
                 srunning, all_threads_exited, sdrained>>
  /\ NoLock

\* server5 runs with the clients 4 and 5.
LockedRequestThreadStep ==
  \/ trial = 1 /\ TimedRequestThreadStep /\ NoLock
  \/ trial \in {2, 4, 5} /\ Server2Request
  \/ trial = 3 /\ Server3Request

LockedWorkerStep(w) ==
  \/ trial = 1 /\ TimedWorkerStep(w) /\ NoLock
  \/ trial \in {2, 4, 5} /\ Server2Work(w)
  \/ trial = 3 /\ Server3Work(w)

LockedResponseThreadStep ==
  \/ trial = 1 /\ TimedResponseThreadStep /\ NoLock
  \/ trial = 2 /\ Server2Response
  \/ trial = 3 /\ Server3Response
  \/ trial \in {4, 5} /\ Server5Response

\* server3 has the main thread and the handler of server.cpp.
LockedServerMainStep ==
  \/ SpawnServerThread /\ NoLock
  \/ trial \in {1, 3} /\ (DrainServerExit \/ ServerExits) /\ NoLock

LockedServerNext ==
  \/ LockedRequestThreadStep
  \/ \E w \in Workers : LockedWorkerStep(w)
  \/ LockedResponseThreadStep
  \/ LockedServerMainStep
  \/ trial \in {1, 3} /\ ServerSigint /\ NoLock
  \/ trial \in {2, 4, 5} /\ ServerExitsAtOnce

LockedServerTypeOK ==
  /\ requestQueue \in Seq(Requests) /\ responseQueue \in Seq(Responses)
  /\ epc \in EnqLabels \cup {"unborn", "timed_wait", "lock_buffer", "unlock_buffer", "exited"}
  /\ epc \in EnqHolds \cup {"unlock_buffer"} => ereq \in Requests
  /\ wpc \in [Workers -> WorkLabels \cup
                {"unborn", "ticket", "lock_anyway", "give_back", "exited"}]
  /\ \A w \in Workers : wpc[w] \in WorkHolds => wreq[w] \in Requests
  /\ \A w \in Workers : wpc[w] \in WorkDone => wres[w] \in Responses
  /\ rpc \in DeqLabels \cup
       {"unborn", "ticket", "lock_anyway", "give_back", "lock_buffer",
        "unlock_buffer", "lock_in_vain", "return_space", "exited"}
  /\ rpc \in DeqHolds \cup {"lock_buffer", "unlock_buffer", "return_space"} => rres \in Responses
  /\ store \in [Values -> Nat]
  /\ spc \in {"spawning", "joining", "draining", "finished"}
=============================================================================
