------------------------------- MODULE Server -------------------------------
(***************************************************************************)
(* The server program (server.cpp) once its main has set up the segment    *)
(* and its semaphores: the request thread moves requests from the slot to  *)
(* requestQueue, the processing threads move them through the hash table   *)
(* to responseQueue, and the response thread moves responses to the slot.  *)
(* A processing thread applies its table operation in one step; that the   *)
(* locked, step-by-step operation behaves so is shown of module HashTable. *)
(***************************************************************************)
EXTENDS SharedMemory, Sequences, FiniteSets

CONSTANT Workers  \* the processing threads (NUM_PROCESSING_THREADS of them)

ASSUME ServerAssumption == IsFiniteSet(Workers)

VARIABLES
  requestQueue, responseQueue,
  qsem,       \* the four semaphores private to the server, by name
  epc, ereq,  \* the request thread: where it is, its local request
  wpc, wreq, wres,  \* the processing threads, their local request and response
  rpc, rres,  \* the response thread and its local response
  store       \* the contents of the hash table: the copies of each string

queueVars  == <<requestQueue, responseQueue, qsem>>
enqVars    == <<epc, ereq>>
workVars   == <<wpc, wreq, wres, store>>
deqVars    == <<rpc, rres>>
serverVars == <<queueVars, enqVars, workVars, deqVars>>

QueueSems == {"req_queue_size", "req_queue_lock", "res_queue_size", "res_queue_lock"}

ServerInit ==
  /\ requestQueue = <<>> /\ responseQueue = <<>>
  /\ qsem = [n \in QueueSems |->
               IF n \in {"req_queue_lock", "res_queue_lock"} THEN 1 ELSE 0]
  /\ epc = "wait" /\ ereq = ZeroRequest
  /\ wpc = [w \in Workers |-> "wait"]
  /\ wreq = [w \in Workers |-> ZeroRequest]
  /\ wres = [w \in Workers |-> ZeroResponse]
  /\ rpc = "wait" /\ rres = ZeroResponse
  /\ store = [v \in Values |-> 0]

-----------------------------------------------------------------------------
(* The request thread: enqueueRequests.                                    *)

EGoto(here, there) == epc = here /\ epc' = there

\* Mutant: the request thread does not wait for a request.
CopyWithoutWaiting ==
  /\ EGoto("wait", "copy")
  /\ UNCHANGED <<shmVars, queueVars, ereq, workVars, deqVars>>

WaitRequest ==
  /\ EGoto("wait", "copy")
  /\ SemWait(sem, "req_available")
  /\ UNCHANGED <<request, response, queueVars, ereq, workVars, deqVars>>

CopyRequest ==
  /\ EGoto("copy", "release")
  /\ ereq' = request
  /\ UNCHANGED <<shmVars, queueVars, workVars, deqVars>>

ReleaseRequestSlot ==
  /\ EGoto("release", "lock")
  /\ SemPost(sem, "req_space_available")
  /\ UNCHANGED <<request, response, queueVars, ereq, workVars, deqVars>>

\* Mutant: the request thread pushes without the lock of the queue.
EnqueueWithoutLock ==
  /\ EGoto("lock", "push")
  /\ UNCHANGED <<shmVars, queueVars, ereq, workVars, deqVars>>

LockForEnqueue ==
  /\ EGoto("lock", "push")
  /\ SemWait(qsem, "req_queue_lock")
  /\ UNCHANGED <<shmVars, requestQueue, responseQueue, ereq, workVars, deqVars>>

PushRequest ==
  /\ EGoto("push", "unlock")
  /\ requestQueue' = Append(requestQueue, ereq)
  /\ UNCHANGED <<shmVars, responseQueue, qsem, ereq, workVars, deqVars>>

UnlockAfterEnqueue ==
  /\ EGoto("unlock", "announce")
  /\ SemPost(qsem, "req_queue_lock")
  /\ UNCHANGED <<shmVars, requestQueue, responseQueue, ereq, workVars, deqVars>>

\* The end of the loop body is the end of its local variable.
AnnounceRequest ==
  /\ EGoto("announce", "wait")
  /\ SemPost(qsem, "req_queue_size")
  /\ ereq' = ZeroRequest
  /\ UNCHANGED <<shmVars, requestQueue, responseQueue, workVars, deqVars>>

-----------------------------------------------------------------------------
(* The processing threads: processRequests.                                *)

WGoto(w, here, there) ==
  /\ wpc[w] = here
  /\ wpc' = [wpc EXCEPT ![w] = there]

\* Mutant: the size semaphore is looked at and not taken down.
PeekTicket(w) ==
  /\ WGoto(w, "wait", "lock")
  /\ qsem["req_queue_size"] > 0
  /\ UNCHANGED <<shmVars, queueVars, enqVars, wreq, wres, store, deqVars>>

TakeTicket(w) ==
  /\ WGoto(w, "wait", "lock")
  /\ SemWait(qsem, "req_queue_size")
  /\ UNCHANGED <<shmVars, requestQueue, responseQueue, enqVars, wreq, wres, store, deqVars>>

LockForDequeue(w) ==
  /\ WGoto(w, "lock", "pop")
  /\ SemWait(qsem, "req_queue_lock")
  /\ UNCHANGED <<shmVars, requestQueue, responseQueue, enqVars, wreq, wres, store, deqVars>>

\* Mutant: front() without pop().
FrontWithoutPop(w) ==
  /\ WGoto(w, "pop", "unlock")
  /\ wreq' = [wreq EXCEPT ![w] = Head(requestQueue)]
  /\ UNCHANGED <<shmVars, queueVars, enqVars, wres, store, deqVars>>

\* front() and pop(), which the code does not guard: on an empty queue both are
\* undefined, as Head and Tail are.
PopRequest(w) ==
  /\ WGoto(w, "pop", "unlock")
  /\ wreq' = [wreq EXCEPT ![w] = Head(requestQueue)]
  /\ requestQueue' = Tail(requestQueue)
  /\ UNCHANGED <<shmVars, responseQueue, qsem, enqVars, wres, store, deqVars>>

UnlockAfterDequeue(w) ==
  /\ WGoto(w, "unlock", "process")
  /\ SemPost(qsem, "req_queue_lock")
  /\ UNCHANGED <<shmVars, requestQueue, responseQueue, enqVars, wreq, wres, store, deqVars>>

\* The response to request q when the table holds bag.
Reply(q, bag) ==
  [requestid  |-> q.requestid,
   returntype |-> IF q.operation \in Ops THEN "SUCCESS" ELSE "FAILURE",
   result     |-> IF q.operation = "READ" THEN Present(bag, q.value)
                                          ELSE q.operation \in Ops]

\* Mutant of this server: the third branch tests INSERT again, and a DELETE falls
\* through to FAILURE.  (The server of module TimedServer does that.)
ProcessNoDelete(w) ==
  /\ WGoto(w, "process", "lock_res")
  /\ store' = IF wreq[w].operation = "INSERT"
                THEN After(store, "INSERT", wreq[w].value) ELSE store
  /\ wres' = [wres EXCEPT ![w] =
                IF wreq[w].operation = "DELETE"
                  THEN [requestid |-> wreq[w].requestid,
                        returntype |-> "FAILURE", result |-> FALSE]
                  ELSE Reply(wreq[w], store)]
  /\ UNCHANGED <<shmVars, queueVars, enqVars, wreq, deqVars>>

Process(w) ==
  /\ WGoto(w, "process", "lock_res")
  /\ store' = After(store, wreq[w].operation, wreq[w].value)
  /\ wres' = [wres EXCEPT ![w] = Reply(wreq[w], store)]
  /\ UNCHANGED <<shmVars, queueVars, enqVars, wreq, deqVars>>

LockForResponse(w) ==
  /\ WGoto(w, "lock_res", "push_res")
  /\ SemWait(qsem, "res_queue_lock")
  /\ UNCHANGED <<shmVars, requestQueue, responseQueue, enqVars, wreq, wres, store, deqVars>>

PushResponse(w) ==
  /\ WGoto(w, "push_res", "unlock_res")
  /\ responseQueue' = Append(responseQueue, wres[w])
  /\ UNCHANGED <<shmVars, requestQueue, qsem, enqVars, wreq, wres, store, deqVars>>

UnlockAfterResponse(w) ==
  /\ WGoto(w, "unlock_res", "announce_res")
  /\ SemPost(qsem, "res_queue_lock")
  /\ UNCHANGED <<shmVars, requestQueue, responseQueue, enqVars, wreq, wres, store, deqVars>>

\* The end of the loop body is the end of its local variables.
AnnounceResponse(w) ==
  /\ WGoto(w, "announce_res", "wait")
  /\ SemPost(qsem, "res_queue_size")
  /\ wreq' = [wreq EXCEPT ![w] = ZeroRequest]
  /\ wres' = [wres EXCEPT ![w] = ZeroResponse]
  /\ UNCHANGED <<shmVars, requestQueue, responseQueue, enqVars, store, deqVars>>

-----------------------------------------------------------------------------
(* The response thread: dequeueResponses.                                  *)

RGoto(here, there) == rpc = here /\ rpc' = there

WaitResult ==
  /\ RGoto("wait", "lock")
  /\ SemWait(qsem, "res_queue_size")
  /\ UNCHANGED <<shmVars, requestQueue, responseQueue, enqVars, workVars, rres>>

LockForResult ==
  /\ RGoto("lock", "pop")
  /\ SemWait(qsem, "res_queue_lock")
  /\ UNCHANGED <<shmVars, requestQueue, responseQueue, enqVars, workVars, rres>>

PopResult ==
  /\ RGoto("pop", "unlock")
  /\ rres' = Head(responseQueue)
  /\ responseQueue' = Tail(responseQueue)
  /\ UNCHANGED <<shmVars, requestQueue, qsem, enqVars, workVars>>

UnlockAfterResult ==
  /\ RGoto("unlock", "wait_space")
  /\ SemPost(qsem, "res_queue_lock")
  /\ UNCHANGED <<shmVars, requestQueue, responseQueue, enqVars, workVars, rres>>

\* Mutant: the response thread does not wait for a free slot.
WriteWithoutSpace ==
  /\ RGoto("wait_space", "write")
  /\ UNCHANGED <<shmVars, queueVars, enqVars, workVars, rres>>

WaitResponseSpace ==
  /\ RGoto("wait_space", "write")
  /\ SemWait(sem, "res_space_available")
  /\ UNCHANGED <<request, response, queueVars, enqVars, workVars, rres>>

WriteResponse ==
  /\ RGoto("write", "post")
  /\ response' = rres
  /\ UNCHANGED <<request, sem, queueVars, enqVars, workVars, rres>>

\* The end of the loop body is the end of its local variable.
PostResponse ==
  /\ RGoto("post", "wait")
  /\ SemPost(sem, "res_available")
  /\ rres' = ZeroResponse
  /\ UNCHANGED <<request, response, queueVars, enqVars, workVars>>

-----------------------------------------------------------------------------
RequestThreadStep ==
  \/ WaitRequest \/ CopyRequest \/ ReleaseRequestSlot \/ LockForEnqueue
  \/ PushRequest \/ UnlockAfterEnqueue \/ AnnounceRequest

WorkerStep(w) ==
  \/ TakeTicket(w) \/ LockForDequeue(w) \/ PopRequest(w) \/ UnlockAfterDequeue(w)
  \/ Process(w)
  \/ LockForResponse(w) \/ PushResponse(w) \/ UnlockAfterResponse(w)
  \/ AnnounceResponse(w)

ResponseThreadStep ==
  \/ WaitResult \/ LockForResult \/ PopResult \/ UnlockAfterResult
  \/ WaitResponseSpace \/ WriteResponse \/ PostResponse

ServerNext ==
  \/ RequestThreadStep
  \/ \E w \in Workers : WorkerStep(w)
  \/ ResponseThreadStep

EnqLabels  == {"wait", "copy", "release", "lock", "push", "unlock", "announce"}
WorkLabels == {"wait", "lock", "pop", "unlock", "process", "lock_res",
               "push_res", "unlock_res", "announce_res"}
DeqLabels  == {"wait", "lock", "pop", "unlock", "wait_space", "write", "post"}

\* The labels at which a thread's local variable holds a real request or
\* response.
EnqHolds  == {"release", "lock", "push", "unlock", "announce"}
WorkHolds == {"unlock", "process", "lock_res", "push_res", "unlock_res", "announce_res"}
WorkDone  == {"lock_res", "push_res", "unlock_res", "announce_res"}
DeqHolds  == {"unlock", "wait_space", "write", "post"}

ServerTypeOK ==
  /\ requestQueue \in Seq(Requests)
  /\ responseQueue \in Seq(Responses)
  /\ qsem \in [QueueSems -> Nat]
  /\ epc \in EnqLabels
  /\ ereq \in Requests \cup {ZeroRequest}
  /\ epc \in EnqHolds => ereq \in Requests
  /\ wpc \in [Workers -> WorkLabels]
  /\ wreq \in [Workers -> Requests \cup {ZeroRequest}]
  /\ wres \in [Workers -> Responses \cup {ZeroResponse}]
  /\ \A w \in Workers : wpc[w] \in WorkHolds => wreq[w] \in Requests
  /\ \A w \in Workers : wpc[w] \in WorkDone => wres[w] \in Responses
  /\ rpc \in DeqLabels
  /\ rres \in Responses \cup {ZeroResponse}
  /\ rpc \in DeqHolds => rres \in Responses
  /\ store \in [Values -> Nat]
=============================================================================
