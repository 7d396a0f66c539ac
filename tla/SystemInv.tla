----------------------------- MODULE SystemInv ------------------------------
(***************************************************************************)
(* The inductive invariant of the composed system.  The exclusion          *)
(* properties of module System speak of threads only; what makes them      *)
(* inductive is the value of the semaphores: each slot and each queue lock *)
(* has one permit, which is either in a semaphore or in one thread.        *)
(***************************************************************************)
EXTENDS System

\* The request slot: its permit is in req_space_available (free), in
\* req_available (full), with the request thread, or with one client thread.
RequestPermit ==
  /\ sem["req_available"] \in {0, 1}
  /\ sem["req_space_available"] \in {0, 1}
  /\ sem["req_available"] = 1 => sem["req_space_available"] = 0
  /\ sem["req_available"] = 1 \/ sem["req_space_available"] = 1 =>
       /\ ~ServerInRequestSlot
       /\ \A c \in Clients : ~ClientInRequestSlot(c)
  /\ ServerInRequestSlot => \A c \in Clients : ~ClientInRequestSlot(c)
  /\ \A c, d \in Clients : ClientInRequestSlot(c) /\ ClientInRequestSlot(d) => c = d
  /\ \/ sem["req_space_available"] = 1 \/ sem["req_available"] = 1
     \/ ServerInRequestSlot \/ \E c \in Clients : ClientInRequestSlot(c)

\* The response slot, likewise.
ResponsePermit ==
  /\ sem["res_available"] \in {0, 1}
  /\ sem["res_space_available"] \in {0, 1}
  /\ sem["res_available"] = 1 => sem["res_space_available"] = 0
  /\ sem["res_available"] = 1 \/ sem["res_space_available"] = 1 =>
       /\ ~ServerInResponseSlot
       /\ \A c \in Clients : ~ClientInResponseSlot(c)
  /\ ServerInResponseSlot => \A c \in Clients : ~ClientInResponseSlot(c)
  /\ \A c, d \in Clients : ClientInResponseSlot(c) /\ ClientInResponseSlot(d) => c = d
  /\ \/ sem["res_space_available"] = 1 \/ sem["res_available"] = 1
     \/ ServerInResponseSlot \/ \E c \in Clients : ClientInResponseSlot(c)

\* The lock of the request queue: free, with the request thread, or with one
\* worker.
RequestQueueLock ==
  /\ qsem["req_queue_lock"] \in {0, 1}
  /\ qsem["req_queue_lock"] = 1 =>
       /\ ~EnqInRequestQueue
       /\ \A w \in Workers : ~WorkerInRequestQueue(w)
  /\ EnqInRequestQueue => \A w \in Workers : ~WorkerInRequestQueue(w)
  /\ \A w, u \in Workers : WorkerInRequestQueue(w) /\ WorkerInRequestQueue(u) => w = u
  /\ \/ qsem["req_queue_lock"] = 1
     \/ EnqInRequestQueue \/ \E w \in Workers : WorkerInRequestQueue(w)

\* The lock of the response queue: free, with the response thread, or with one
\* worker.
ResponseQueueLock ==
  /\ qsem["res_queue_lock"] \in {0, 1}
  /\ qsem["res_queue_lock"] = 1 =>
       /\ ~DeqInResponseQueue
       /\ \A w \in Workers : ~WorkerInResponseQueue(w)
  /\ DeqInResponseQueue => \A w \in Workers : ~WorkerInResponseQueue(w)
  /\ \A w, u \in Workers : WorkerInResponseQueue(w) /\ WorkerInResponseQueue(u) => w = u
  /\ \/ qsem["res_queue_lock"] = 1
     \/ DeqInResponseQueue \/ \E w \in Workers : WorkerInResponseQueue(w)

\* Each element of a queue is announced by its size semaphore, promised to a
\* thread that has taken a ticket and not popped yet, or still to be announced
\* by the thread that pushed it.
One(b) == IF b THEN 1 ELSE 0

TicketHolders      == {w \in Workers : wpc[w] \in {"lock", "pop"}}
RequestUnannounced == epc \in {"unlock", "announce"}
RequestTickets ==
  Len(requestQueue) =
    qsem["req_queue_size"] + Cardinality(TicketHolders) + One(RequestUnannounced)

ResultTicket        == rpc \in {"lock", "pop"}
ResponseUnannounced == {w \in Workers : wpc[w] \in {"unlock_res", "announce_res"}}
ResponseTickets ==
  Len(responseQueue) =
    qsem["res_queue_size"] + Cardinality(ResponseUnannounced) + One(ResultTicket)

\* A slot that is full holds a request, or a response, and not zeros.
SlotsFilled ==
  /\ RequestSlotFull => request \in Requests
  /\ ResponseSlotFull => response \in Responses

\* The handler has collected, or can still collect, one post of each thread that
\* has left; and the process ends after all of them.
Exited(p) == {c \in Clients : Home[c] = p /\ cpc[c] = "exited"}

ExitTickets ==
  \A p \in Procs :
    /\ threads_safe_exit[p] + drained[p] = Cardinality(Exited(p))
    /\ mpc[p] \in {"joined", "finished", "aborted"} => Exited(p) = Threads(p)

IInv ==
  /\ TypeOK
  /\ RequestPermit /\ ResponsePermit
  /\ RequestQueueLock /\ ResponseQueueLock
  /\ RequestTickets /\ ResponseTickets
  /\ SlotsFilled
  /\ ExitTickets

-----------------------------------------------------------------------------
(* Where the copies of requests and of responses are.  OneCopyInFlight     *)
(* counts those of one client; what makes it inductive is that there are   *)
(* none besides.                                                           *)

\* What is in each place where a request, or a response, can be: pairs of a
\* place and what it holds.
Pairs(name, q) == {<<<<name, i>>, q[i]>> : i \in DOMAIN q}

\* Requests, on their way to the table,
AtClients ==
  {<<<<"client", c>>, creq[c]>> : c \in {d \in Clients : cpc[d] \in {"wait_space", "write"}}}
AtRequestSlot == Here(<<<<"request slot", 0>>, request>>, RequestSlotFull)
AtRequestThread ==
  Here(<<<<"request thread", 0>>, ereq>>, epc \in {"release", "lock", "push"})
InRequestQueue == Pairs("request queue", requestQueue)
AtWorkers ==
  {<<<<"worker", w>>, wreq[w]>> : w \in {u \in Workers : wpc[u] \in {"unlock", "process"}}}

\* and responses, on their way back.
RepliesAtWorkers ==
  {<<<<"reply", w>>, wres[w]>> : w \in {u \in Workers : wpc[u] \in {"lock_res", "push_res"}}}
InResponseQueue == Pairs("response queue", responseQueue)
AtResponseThread ==
  Here(<<<<"response thread", 0>>, rres>>, rpc \in {"unlock", "wait_space", "write"})
AtResponseSlot == Here(<<<<"response slot", 0>>, response>>, ResponseSlotFull)

\* All of them.
Carried  == AtClients \cup AtRequestSlot \cup AtRequestThread \cup InRequestQueue \cup AtWorkers
Returned == RepliesAtWorkers \cup InResponseQueue \cup AtResponseThread \cup AtResponseSlot
Copies   == Carried \cup Returned

\* No two copies have the same id.
OneOfEach(T)  == \A t, u \in T : t[2].requestid = u[2].requestid => t = u
OneCopyOfEach == OneOfEach(Copies)

\* Every copy belongs to a client that waits for it: a request is the client's
\* own, a response has its id.
CopiesOwned ==
  /\ \A t \in Carried  : \E c \in Clients : Busy(c) /\ t[2] = creq[c]
  /\ \A t \in Returned : \E c \in Clients : Busy(c) /\ t[2].requestid = creq[c].requestid

\* Every client that waits has a copy.
ClientsServed ==
  \A c \in Clients : Busy(c) => \E t \in Copies : t[2].requestid = creq[c].requestid

\* Exactly one copy per waiting client, and none besides.
CopyInv == OneCopyOfEach /\ CopiesOwned /\ ClientsServed /\ DistinctIds
=============================================================================
