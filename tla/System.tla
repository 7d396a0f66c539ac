------------------------------- MODULE System -------------------------------
(***************************************************************************)
(* Client processes and one server around one shared-memory segment.       *)
(***************************************************************************)
EXTENDS Client, Server

vars == <<shmVars, clientVars, serverVars>>

Init == ShmInit /\ ClientInit /\ ServerInit

Next ==
  \/ ClientNext /\ UNCHANGED serverVars
  \/ ServerNext /\ UNCHANGED clientVars

Spec == Init /\ [][Next]_vars

\* The scheduler runs every thread that can run.
WeakFairness ==
  /\ \A c \in Clients : WF_vars(ThreadStep(c) /\ UNCHANGED serverVars)
  /\ \A p \in Procs : WF_vars(MainStep(p) /\ UNCHANGED serverVars)
  /\ WF_vars(RequestThreadStep /\ UNCHANGED clientVars)
  /\ \A w \in Workers : WF_vars(WorkerStep(w) /\ UNCHANGED clientVars)
  /\ WF_vars(ResponseThreadStep /\ UNCHANGED clientVars)

\* Beyond that, a thread that finds a semaphore free again and again is served
\* at last.  POSIX does not promise it; with one client thread, which is what
\* client.cpp is built with, WeakSpec is enough for a process to end.
SemaphoreFairness ==
  /\ \A c \in Clients :
       /\ SF_vars(WaitRequestSpace(c) /\ UNCHANGED serverVars)
       /\ SF_vars(WaitResponse(c) /\ UNCHANGED serverVars)
  /\ \A w \in Workers :
       /\ SF_vars(LockForDequeue(w) /\ UNCHANGED clientVars)
       /\ SF_vars(LockForResponse(w) /\ UNCHANGED clientVars)

WeakSpec == Spec /\ WeakFairness
FairSpec == WeakSpec /\ SemaphoreFairness

TypeOK == ShmTypeOK /\ ClientTypeOK /\ ServerTypeOK

-----------------------------------------------------------------------------
(* Who is inside which critical region.                                    *)

\* Inside the request slot: past the wait that opens it, before the post that
\* hands it on.
ClientInRequestSlot(c) == cpc[c] \in {"write", "post"}
ServerInRequestSlot    == epc \in {"copy", "release"}

ClientInResponseSlot(c) == cpc[c] \in {"check", "repost", "release"}
ServerInResponseSlot    == rpc \in {"write", "post"}

WorkerInRequestQueue(w)  == wpc[w] \in {"pop", "unlock"}
EnqInRequestQueue        == epc \in {"push", "unlock"}
WorkerInResponseQueue(w) == wpc[w] \in {"push_res", "unlock_res"}
DeqInResponseQueue       == rpc \in {"pop", "unlock"}

\* The request slot is never in two hands: while one client writes it, no other
\* client writes it and the server does not copy it.  This is what the commented
\* out req_buffer_lock would be for (client.cpp, "Do we need req_buffer_lock").
RequestSlotExclusive ==
  \A c \in Clients : ClientInRequestSlot(c) =>
    /\ ~ServerInRequestSlot
    /\ \A d \in Clients : ClientInRequestSlot(d) => d = c

\* The response slot is never in two hands: the server does not write the
\* response while a client compares its id, and one client compares at a time.
\* This is what the commented out res_buffer_lock would be for.
ResponseSlotExclusive ==
  \A c \in Clients : ClientInResponseSlot(c) =>
    /\ ~ServerInResponseSlot
    /\ \A d \in Clients : ClientInResponseSlot(d) => d = c

\* The std::queue objects are not thread safe: no two threads are inside the
\* same queue between its lock and its unlock.
QueuesExclusive ==
  \A w \in Workers :
    /\ WorkerInRequestQueue(w) =>
         /\ ~EnqInRequestQueue
         /\ \A u \in Workers : WorkerInRequestQueue(u) => u = w
    /\ WorkerInResponseQueue(w) =>
         /\ ~DeqInResponseQueue
         /\ \A u \in Workers : WorkerInResponseQueue(u) => u = w

\* front() and pop() never meet an empty queue, although neither is guarded and
\* the size semaphore is taken down before the lock is.
NoPopFromEmptyQueue ==
  /\ \A w \in Workers : wpc[w] = "pop" => requestQueue # <<>>
  /\ rpc = "pop" => responseQueue # <<>>

-----------------------------------------------------------------------------
(* Where a request is.                                                     *)

\* The request slot holds a request that the server has not copied yet, the
\* response slot a response that no client has accepted yet.
RequestSlotFull ==
  \/ sem["req_available"] > 0
  \/ \E c \in Clients : cpc[c] = "post"
  \/ epc = "copy"
ResponseSlotFull ==
  \/ sem["res_available"] > 0
  \/ rpc = "post"
  \/ \E c \in Clients : ClientInResponseSlot(c)

Here(place, holds) == IF holds THEN {place} ELSE {}

\* The places that hold the request of client thread c, and those that hold a
\* response with its id.
RequestPlaces(c) ==
  LET mine(q) == q.requestid = creq[c].requestid IN
    UNION {
      Here(<<"client">>, cpc[c] \in {"wait_space", "write"}),
      Here(<<"request slot">>, RequestSlotFull /\ mine(request)),
      Here(<<"request thread">>, epc \in {"release", "lock", "push"} /\ mine(ereq)),
      {<<"request queue", i>> : i \in {j \in DOMAIN requestQueue : mine(requestQueue[j])}},
      {<<"worker", w>> : w \in
         {u \in Workers : wpc[u] \in {"unlock", "process"} /\ mine(wreq[u])}} }

\* The responses with the id of c's request: <<place, response>>.
ResponsesTo(c) ==
  LET mine(r) == r.requestid = creq[c].requestid IN
    UNION {
      {<<<<"worker", w>>, wres[w]>> : w \in
         {u \in Workers : wpc[u] \in {"lock_res", "push_res"} /\ mine(wres[u])}},
      {<<<<"response queue", i>>, responseQueue[i]>> : i \in
         {j \in DOMAIN responseQueue : mine(responseQueue[j])}},
      Here(<<<<"response thread">>, rres>>,
           rpc \in {"unlock", "wait_space", "write"} /\ mine(rres)),
      Here(<<<<"response slot">>, response>>, ResponseSlotFull /\ mine(response)) }

\* A request is never lost and never duplicated: from its creation to its
\* acknowledgement exactly one copy of it, or of the response to it, is on its
\* way somewhere between the client and the server.
OneCopyInFlight ==
  \A c \in Clients : Busy(c) =>
    Cardinality(RequestPlaces(c)) + Cardinality(ResponsesTo(c)) = 1

\* A client that takes the response slot back holds the response to its own
\* request, and the status in it is never FAILURE.
ReleasesOwnResponse ==
  \A c \in Clients : cpc[c] = "release" =>
    /\ response.requestid = creq[c].requestid
    /\ response.returntype = "SUCCESS"

-----------------------------------------------------------------------------
(* The system implements the service: its requests are linearizable.       *)

ServicePhase(c) ==
  IF ~Busy(c) THEN "idle"
  ELSE IF ResponsesTo(c) = {} THEN "waiting" ELSE "answered"

NoCall == [operation |-> "NONE", value |-> ""]

Promise == INSTANCE Service WITH
  Callers <- Clients,
  bag    <- store,
  phase  <- [c \in Clients |-> ServicePhase(c)],
  call   <- [c \in Clients |->
               IF Busy(c) THEN [operation |-> creq[c].operation, value |-> creq[c].value]
                          ELSE NoCall],
  answer <- [c \in Clients |->
               /\ ServicePhase(c) = "answered"
               /\ \E r \in ResponsesTo(c) : r[2].result]

\* Every request takes effect once, atomically, while its client waits, and the
\* response that the client accepts carries the result of that effect.
ImplementsService == Promise!Spec

-----------------------------------------------------------------------------
(* The end of a client process.                                            *)

Gone(p) == mpc[p] \in {"finished", "aborted"}

\* When the handler unmaps the segment and exits, no request thread of the
\* process is left: none can touch the segment afterwards, and none takes a
\* permit of a shared semaphore with it, which would stop every other process.
ExitsOnlyWhenThreadsLeft ==
  \A p \in Procs : Gone(p) => \A c \in Threads(p) : cpc[c] = "exited"

\* No permit is ever lost: a slot is free, full or in one hand, and a queue lock
\* is free or in one hand.
NoPermitLost ==
  /\ \/ sem["req_space_available"] = 1 \/ sem["req_available"] = 1
     \/ ServerInRequestSlot \/ \E c \in Clients : ClientInRequestSlot(c)
  /\ \/ sem["res_space_available"] = 1 \/ sem["res_available"] = 1
     \/ ServerInResponseSlot \/ \E c \in Clients : ClientInResponseSlot(c)
  /\ \/ qsem["req_queue_lock"] = 1
     \/ EnqInRequestQueue \/ \E w \in Workers : WorkerInRequestQueue(w)
  /\ \/ qsem["res_queue_lock"] = 1
     \/ DeqInResponseQueue \/ \E w \in Workers : WorkerInResponseQueue(w)

-----------------------------------------------------------------------------
(* Liveness.                                                               *)

\* Every request that is created is answered and acknowledged.
RequestsAnswered ==
  \A c \in Clients : cpc[c] = "wait_space" ~> cpc[c] = "create"

\* A process that handles SIGINT after it has spawned its threads ends.
SigintEnds ==
  \A p \in Procs :
    (mpc[p] = "draining" /\ \A c \in Threads(p) : cpc[c] # "unborn") ~> Gone(p)

\* Ids are drawn at random, and a draw may repeat one that is in flight: then each
\* of the two threads may take the response to the other.  A thread whose response
\* is taken gets another one, so if ids do not collide for ever every request is
\* answered all the same, and a process that gets SIGINT ends.  (If they do, one
\* thread can take the responses of another time and again.)
DistinctIds ==
  \A c, d \in Clients : c # d /\ Busy(c) /\ Busy(d) => creq[c].requestid # creq[d].requestid
RequestsAnsweredThoughColliding == <>[]DistinctIds => RequestsAnswered

\* The same of SIGINT.
SigintEndsThoughColliding == <>[]DistinctIds => SigintEnds

-----------------------------------------------------------------------------
(* What the README says of the system, and the code does not do.           *)

\* README, "How does the server and client interact?", steps 5 and 6: the server
\* processes the request, and then signals that the space to write a new request
\* is available.  (enqueueRequests signals it as soon as the request is copied.)
SpaceMeansProcessed ==
  sem["req_space_available"] > 0 =>
    /\ epc \in {"wait", "copy"}
    /\ requestQueue = <<>>
    /\ \A w \in Workers : wpc[w] \notin {"unlock", "process"}

\* README, "Server", issues 1 and 2: a safe exit is not achieved for the server,
\* the client waits on SIGINT until all its locks are released.  (The client does
\* wait, then exit destroys its vector of threads before they are joined.)
SigintExitsSafely == \A p \in Procs : mpc[p] # "aborted"

\* The same: the wait of the client on SIGINT ends.  (It does not when SIGINT
\* comes before all NUM_CLIENT_THREADS threads are spawned: the handler waits
\* for a post from each.)
SigintAlwaysEnds == \A p \in Procs : mpc[p] = "draining" ~> Gone(p)

\* README, "Client": as soon as any response is put in the response slot, the
\* client thread checks whether it belongs to its request.  (A thread that puts a
\* response back waits for it again at once and may take it again for ever.)
ResponseChecked ==
  \A c \in Clients :
    (/\ cpc[c] = "wait_response"
     /\ ResponseSlotFull /\ response.requestid = creq[c].requestid)
      ~> cpc[c] = "check"
=============================================================================
