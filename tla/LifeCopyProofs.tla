--------------------------- MODULE LifeCopyProofs ---------------------------
(***************************************************************************)
(* Proof that processes that come and go duplicate no request, and lose    *)
(* none but those they have in their hands (RequestsKept of module         *)
(* Lifecycle), for ids that do not collide.  Module CopyProofs says what   *)
(* each step of the system does to the copies of a request; here its       *)
(* lemmas are used of the system as the attached clients make it, and the  *)
(* steps that start and end processes are added.                           *)
(***************************************************************************)
EXTENDS LifeProofs

\* The system that the attached clients make, with what is proved of a system.
Steps == INSTANCE CopyProofs WITH cpc <- seen

USE DEF lifeVars, bootVars, segmentVars, orphanVars, historyVars, counterVars,
        vars, shmVars, clientVars, serverVars, threadVars, processVars,
        queueVars, enqVars, workVars, deqVars,
        Goto, EGoto, WGoto, RGoto, SemWait, SemPost

-----------------------------------------------------------------------------
(* The system as it is seen.                                               *)

\* The instance has the constants of module System.
LEMMA SameConstants ==
  /\ Steps!Requests = Requests /\ Steps!ZeroRequest = ZeroRequest
  /\ Steps!Responses = Responses /\ Steps!ZeroResponse = ZeroResponse
  /\ Steps!ShmSems = ShmSems /\ Steps!QueueSems = QueueSems
  /\ Steps!BusyLabels = BusyLabels /\ Steps!ThreadLabels = ThreadLabels
  /\ Steps!MainLabels = MainLabels
BY DEF Steps!Requests, Requests, Steps!ZeroRequest, ZeroRequest, Steps!Responses, Responses,
   Steps!ZeroResponse, ZeroResponse, Steps!Ops, Ops, Steps!ReturnTypes, ReturnTypes,
   Steps!ShmSems, ShmSems, Steps!QueueSems, QueueSems, Steps!BusyLabels, BusyLabels,
   Steps!ThreadLabels, ThreadLabels, Steps!MainLabels, MainLabels

\* So what is assumed of its constants holds, and it counts alike.
LEMMA SameAssumptions ==
  /\ Steps!IsFiniteSet(Clients) /\ Steps!IsFiniteSet(Workers)
  /\ Steps!Ops = Ops /\ DataAssumption /\ ClientAssumption /\ ServerAssumption
BY DataAssumption, ClientAssumption, ServerAssumption
   DEF IsFiniteSet, Steps!IsFiniteSet, Ops, Steps!Ops

LEMMA SameCardinality ==
  ASSUME NEW S
  PROVE  Steps!Cardinality(S) = Cardinality(S)
BY DEF Steps!Cardinality, Cardinality

\* A thread is seen where it is, if its client is attached.
LEMMA SeenLabels ==
  ASSUME NEW c \in Clients
  PROVE  /\ Attached(Home[c]) => seen[c] = cpc[c]
         /\ ~Attached(Home[c]) => seen[c] = "unborn"
         /\ Steps!Busy(c) <=> At(c, BusyLabels)
BY DEF seen, Steps!Busy, At, Steps!BusyLabels, BusyLabels

\* What module LifeInv says of the copies, said of the system that is seen.
SeenKept == Steps!OneCopyOfEach /\ Steps!OwnId /\ (~broken => Steps!ClientsServed)

LEMMA KeptAsSeen ==
  /\ CopiesKept <=> (~disturbed => SeenKept)
  /\ CopiesKept' <=> (~disturbed' => SeenKept')
<1> USE DEF Seen!Copies, Steps!Copies, Seen!Carried, Steps!Carried, Seen!Returned,
        Steps!Returned, Seen!AtClients, Steps!AtClients, Seen!AtRequestSlot,
        Steps!AtRequestSlot, Seen!AtRequestThread, Steps!AtRequestThread,
        Seen!InRequestQueue, Steps!InRequestQueue, Seen!AtWorkers, Steps!AtWorkers,
        Seen!RepliesAtWorkers, Steps!RepliesAtWorkers, Seen!InResponseQueue,
        Steps!InResponseQueue, Seen!AtResponseThread, Steps!AtResponseThread,
        Seen!AtResponseSlot, Steps!AtResponseSlot, Seen!Pairs, Steps!Pairs, Seen!Here,
        Steps!Here, Seen!RequestSlotFull, Steps!RequestSlotFull, Seen!ResponseSlotFull,
        Steps!ResponseSlotFull, Seen!ClientInResponseSlot, Steps!ClientInResponseSlot
<1>1. /\ Seen!OneCopyOfEach = Steps!OneCopyOfEach
      /\ Seen!OneCopyOfEach' = Steps!OneCopyOfEach'
  BY DEF Seen!OneCopyOfEach, Steps!OneCopyOfEach, Seen!OneOfEach, Steps!OneOfEach
<1>2. /\ Seen!ClientsServed = Steps!ClientsServed
      /\ Seen!ClientsServed' = Steps!ClientsServed'
  BY DEF Seen!ClientsServed, Steps!ClientsServed, Seen!Busy, Steps!Busy, Seen!BusyLabels,
     Steps!BusyLabels
<1>3. \A c \in Clients : /\ seen[c] = "release" <=> At(c, {"release"})
                         /\ seen'[c] = "release" <=> At(c, {"release"})'
  BY DEF seen, At
<1>4. /\ Steps!OwnId <=>
           \A c \in Clients : At(c, {"release"}) => response.requestid = creq[c].requestid
      /\ Steps!OwnId' <=>
           \A c \in Clients : At(c, {"release"})' => response'.requestid = creq'[c].requestid
  BY <1>3 DEF Steps!OwnId
<1> QED
  BY <1>1, <1>2, <1>4, Zenon DEF CopiesKept, SeenKept

\* Its state is one of a system,
LEMMA SeenTypes ==
  ASSUME LifeTypeOK
  PROVE  Steps!TypeOK
<1> USE SameConstants DEF LifeTypeOK
<1>1. Steps!ShmTypeOK
  BY DEF Steps!ShmTypeOK, ShmTypeOK
<1>2. Steps!ClientTypeOK
  <2>1. seen \in [Clients -> ThreadLabels]
    BY DEF seen, ClientTypeOK, ThreadLabels
  <2>2. \A c \in Clients : Steps!Busy(c) => creq[c] \in Requests
    BY SeenLabels DEF At, Busy, ClientTypeOK
  <2> QED
    BY <2>1, <2>2 DEF Steps!ClientTypeOK, ClientTypeOK
<1>3. Steps!ServerTypeOK
  BY DEF Steps!ServerTypeOK, ServerTypeOK, Steps!EnqLabels, EnqLabels, Steps!EnqHolds, EnqHolds,
     Steps!WorkLabels, WorkLabels, Steps!WorkHolds, WorkHolds, Steps!WorkDone, WorkDone,
     Steps!DeqLabels, DeqLabels, Steps!DeqHolds, DeqHolds
<1> QED
  BY <1>1, <1>2, <1>3 DEF Steps!TypeOK

\* and an orderly one as long as the semaphores are not set up under its clients.
LEMMA SeenOrderly ==
  ASSUME LifeIInv, ~disturbed
  PROVE  Steps!Orderly
<1>1. Steps!TypeOK
  BY SeenTypes DEF LifeIInv
<1>2. Steps!NoPopFromEmptyQueue
  <2>1. NoPopFromEmptyQueue
    BY TicketsFillQueues DEF LifeIInv, LifeTypeOK, TypeOK, QueuesKept
  <2> QED
    BY <2>1 DEF NoPopFromEmptyQueue, Steps!NoPopFromEmptyQueue
<1>3. /\ \A c \in Clients : Steps!ClientInRequestSlot(c) <=> InRequestSlot(c)
      /\ \A c \in Clients : Steps!ClientInResponseSlot(c) <=> InResponseSlot(c)
      /\ Steps!ServerInRequestSlot <=> ServerInRequestSlot
      /\ Steps!ServerInResponseSlot <=> ServerInResponseSlot
  BY SeenLabels DEF InRequestSlot, InResponseSlot, At, Steps!ClientInRequestSlot,
     Steps!ClientInResponseSlot, Steps!ServerInRequestSlot, ServerInRequestSlot,
     Steps!ServerInResponseSlot, ServerInResponseSlot
<1>4. /\ sem["req_available"] \in Nat /\ sem["req_space_available"] \in Nat
      /\ sem["res_available"] \in Nat /\ sem["res_space_available"] \in Nat
  BY DEF LifeIInv, LifeTypeOK, ShmTypeOK, ShmSems
<1>5. RequestOnce /\ ResponseOnce
  BY DEF LifeIInv, SegmentKept, PermitsOnce
<1>6. /\ Steps!RequestSlotExclusive
      /\ sem["req_available"] > 0 => /\ ~Steps!ServerInRequestSlot
                                     /\ \A c \in Clients : ~Steps!ClientInRequestSlot(c)
  BY <1>3, <1>4, <1>5 DEF RequestOnce, RequestFree, Steps!RequestSlotExclusive
<1>7. /\ Steps!ResponseSlotExclusive
      /\ sem["res_available"] > 0 => /\ ~Steps!ServerInResponseSlot
                                     /\ \A c \in Clients : ~Steps!ClientInResponseSlot(c)
  BY <1>3, <1>4, <1>5 DEF ResponseOnce, ResponseFree, Steps!ResponseSlotExclusive
<1> QED
  BY <1>1, <1>2, <1>6, <1>7 DEF Steps!Orderly

-----------------------------------------------------------------------------
(* Steps of the system: threads of attached clients, and of the server.    *)

\* A step of a thread is a step of the system that is seen, and when it creates a
\* request, it is this thread that does.
LEMMA ThreadSeen ==
  ASSUME LifeTypeOK, NEW c \in Clients, ThreadActs(c)
  PROVE  /\ Steps!Next /\ UNCHANGED <<disturbed, broken>>
         /\ \A d \in Clients : Steps!CreateRequest(d) => d = c /\ CreateRequest(c)
<1>1. /\ ThreadStep(c) /\ Attached(Home[c])
      /\ \A d \in Clients : Attached(Home[d])' <=> Attached(Home[d])
      /\ \A d \in Clients \ {c} : cpc'[d] = cpc[d] /\ creq'[d] = creq[d]
      /\ UNCHANGED <<serverVars, disturbed, broken>>
  BY ThreadFrame
<1>2. cpc \in [Clients -> ThreadLabels]
  BY DEF LifeTypeOK, ClientTypeOK
<1>3. seen[c] = cpc[c] /\ \A d \in Clients \ {c} : seen'[d] = seen[d]
  BY <1>1 DEF seen
<1>4. ASSUME NEW there, cpc' = [cpc EXCEPT ![c] = there]
      PROVE  seen' = [seen EXCEPT ![c] = there]
  BY <1>1, <1>2, <1>4 DEF seen
<1>5. UNCHANGED Steps!serverVars
  BY <1>1 DEF Steps!serverVars, Steps!queueVars, Steps!enqVars, Steps!workVars, Steps!deqVars
<1> USE DEF Steps!Goto, Steps!SemWait, Steps!SemPost, Steps!shmVars, Steps!processVars
<1>6. CreateRequest(c) => Steps!CreateRequest(c)
  <2> SUFFICES ASSUME CreateRequest(c)
               PROVE  Steps!CreateRequest(c)
    OBVIOUS
  <2>1. PICK id \in Ids, op \in DrawnOps, v \in Values :
          /\ CanDraw(c, id)
          /\ creq' = [creq EXCEPT ![c] = [requestid |-> id, operation |-> op, value |-> v]]
    BY DEF CreateRequest
  <2>2. Steps!CanDraw(c, id)
    BY <2>1, SeenLabels DEF CanDraw, Steps!CanDraw, At, Busy
  <2>3. seen[c] = "create" /\ seen' = [seen EXCEPT ![c] = "wait_space"]
    BY <1>3, <1>4 DEF CreateRequest
  <2>4. Steps!KeepsGoing(c) /\ UNCHANGED <<shmVars, num_requests, processVars>>
    BY DEF CreateRequest, KeepsGoing, Steps!KeepsGoing
  <2> QED
    BY <2>1, <2>2, <2>3, <2>4 DEF Steps!CreateRequest
<1>7. WaitRequestSpace(c) => Steps!WaitRequestSpace(c)
  BY <1>3, <1>4 DEF WaitRequestSpace, Steps!WaitRequestSpace
<1>8. WriteRequest(c) => Steps!WriteRequest(c)
  BY <1>3, <1>4 DEF WriteRequest, Steps!WriteRequest
<1>9. PostRequest(c) => Steps!PostRequest(c)
  BY <1>3, <1>4 DEF PostRequest, Steps!PostRequest
<1>10. WaitResponse(c) => Steps!WaitResponse(c)
  BY <1>3, <1>4 DEF WaitResponse, Steps!WaitResponse
<1>11. CheckResponse(c) => Steps!CheckResponse(c)
  BY <1>3, <1>4 DEF CheckResponse, Steps!CheckResponse
<1>12. RepostResponse(c) => Steps!RepostResponse(c)
  BY <1>3, <1>4 DEF RepostResponse, Steps!RepostResponse
<1>13. ReleaseResponse(c) => Steps!ReleaseResponse(c)
  BY <1>3, <1>4 DEF ReleaseResponse, Steps!ReleaseResponse
<1>14. LeaveLoop(c) => Steps!LeaveLoop(c)
  BY <1>3, <1>4 DEF LeaveLoop, Steps!LeaveLoop, KeepsGoing, Steps!KeepsGoing
<1>15. Steps!ThreadStep(c)
  BY <1>1, <1>6, <1>7, <1>8, <1>9, <1>10, <1>11, <1>12, <1>13, <1>14
     DEF ThreadStep, Steps!ThreadStep
<1>16. ASSUME NEW d \in Clients, Steps!CreateRequest(d)
       PROVE  d = c /\ CreateRequest(c)
  <2>1. seen[d] = "create" /\ seen'[d] = "wait_space"
    <3>1. seen[d] = "create" /\ seen' = [seen EXCEPT ![d] = "wait_space"]
      BY <1>16 DEF Steps!CreateRequest
    <3>2. DOMAIN seen = Clients
      BY DEF seen
    <3> QED
      BY <3>1, <3>2
  <2>2. d = c
    BY <1>3, <2>1
  <2>3. cpc[c] = "create" /\ cpc'[c] = "wait_space"
    BY <1>1, <2>1, <2>2 DEF seen
  <2>4. CreateRequest(c)
    BY <1>1, <1>2, <2>3 DEF ThreadStep, WaitRequestSpace, WriteRequest, PostRequest, WaitResponse,
       CheckResponse, RepostResponse, ReleaseResponse, LeaveLoop
  <2> QED
    BY <2>2, <2>4
<1> QED
  BY <1>1, <1>5, <1>15, <1>16 DEF Steps!Next, Steps!ClientNext

\* A step of a thread of the server is one, too.
LEMMA ServerSeen ==
  ASSUME ServerActs
  PROVE  /\ Steps!Next /\ UNCHANGED <<seen, disturbed, broken>>
<1>1. UNCHANGED <<clientVars, where, disturbed, broken>>
  BY DEF ServerActs
<1>2. seen' = seen
  BY <1>1 DEF seen, Attached, Gone
<1>3. UNCHANGED Steps!clientVars
  BY <1>1, <1>2 DEF Steps!clientVars, Steps!threadVars, Steps!processVars
<1> USE DEF Steps!EGoto, Steps!WGoto, Steps!RGoto, Steps!SemWait, Steps!SemPost, Steps!shmVars,
        Steps!queueVars, Steps!enqVars, Steps!workVars, Steps!deqVars
<1>4. RequestThreadStep => Steps!RequestThreadStep
  <2>1. WaitRequest => Steps!WaitRequest
    BY DEF WaitRequest, Steps!WaitRequest
  <2>2. CopyRequest => Steps!CopyRequest
    BY DEF CopyRequest, Steps!CopyRequest
  <2>3. ReleaseRequestSlot => Steps!ReleaseRequestSlot
    BY DEF ReleaseRequestSlot, Steps!ReleaseRequestSlot
  <2>4. LockForEnqueue => Steps!LockForEnqueue
    BY DEF LockForEnqueue, Steps!LockForEnqueue
  <2>5. PushRequest => Steps!PushRequest
    BY DEF PushRequest, Steps!PushRequest
  <2>6. UnlockAfterEnqueue => Steps!UnlockAfterEnqueue
    BY DEF UnlockAfterEnqueue, Steps!UnlockAfterEnqueue
  <2>7. AnnounceRequest => Steps!AnnounceRequest
    BY SameConstants DEF AnnounceRequest, Steps!AnnounceRequest
  <2> QED
    BY <2>1, <2>2, <2>3, <2>4, <2>5, <2>6, <2>7 DEF RequestThreadStep, Steps!RequestThreadStep
<1>5. ASSUME NEW w \in Workers
      PROVE  WorkerStep(w) => Steps!WorkerStep(w)
  <2>1. TakeTicket(w) => Steps!TakeTicket(w)
    BY DEF TakeTicket, Steps!TakeTicket
  <2>2. LockForDequeue(w) => Steps!LockForDequeue(w)
    BY DEF LockForDequeue, Steps!LockForDequeue
  <2>3. PopRequest(w) => Steps!PopRequest(w)
    BY DEF PopRequest, Steps!PopRequest
  <2>4. UnlockAfterDequeue(w) => Steps!UnlockAfterDequeue(w)
    BY DEF UnlockAfterDequeue, Steps!UnlockAfterDequeue
  <2>5. Process(w) => Steps!Process(w)
    BY DEF Process, Steps!Process, Reply, Steps!Reply, After, Steps!After, Present, Steps!Present,
       Ops, Steps!Ops
  <2>6. LockForResponse(w) => Steps!LockForResponse(w)
    BY DEF LockForResponse, Steps!LockForResponse
  <2>7. PushResponse(w) => Steps!PushResponse(w)
    BY DEF PushResponse, Steps!PushResponse
  <2>8. UnlockAfterResponse(w) => Steps!UnlockAfterResponse(w)
    BY DEF UnlockAfterResponse, Steps!UnlockAfterResponse
  <2>9. AnnounceResponse(w) => Steps!AnnounceResponse(w)
    BY SameConstants DEF AnnounceResponse, Steps!AnnounceResponse
  <2> QED
    BY <2>1, <2>2, <2>3, <2>4, <2>5, <2>6, <2>7, <2>8, <2>9 DEF WorkerStep, Steps!WorkerStep
<1>6. ResponseThreadStep => Steps!ResponseThreadStep
  <2>1. WaitResult => Steps!WaitResult
    BY DEF WaitResult, Steps!WaitResult
  <2>2. LockForResult => Steps!LockForResult
    BY DEF LockForResult, Steps!LockForResult
  <2>3. PopResult => Steps!PopResult
    BY DEF PopResult, Steps!PopResult
  <2>4. UnlockAfterResult => Steps!UnlockAfterResult
    BY DEF UnlockAfterResult, Steps!UnlockAfterResult
  <2>5. WaitResponseSpace => Steps!WaitResponseSpace
    BY DEF WaitResponseSpace, Steps!WaitResponseSpace
  <2>6. WriteResponse => Steps!WriteResponse
    BY DEF WriteResponse, Steps!WriteResponse
  <2>7. PostResponse => Steps!PostResponse
    BY SameConstants DEF PostResponse, Steps!PostResponse
  <2> QED
    BY <2>1, <2>2, <2>3, <2>4, <2>5, <2>6, <2>7 DEF ResponseThreadStep, Steps!ResponseThreadStep
<1>7. Steps!ServerNext
  BY <1>4, <1>5, <1>6 DEF ServerActs, ServerNext, Steps!ServerNext
<1> QED
  BY <1>1, <1>2, <1>3, <1>7 DEF Steps!Next

-----------------------------------------------------------------------------
(* Ids.                                                                    *)

\* A new id differs from that of every client inside its request, wherever it is.
LEMMA StepKeepsIds ==
  ASSUME LifeTypeOK, ~CollidingIds, DistinctIds, [LifeNext]_lifeVars
  PROVE  DistinctIds'
<1> DEFINE old(d) == Busy(d)' => Busy(d) /\ creq'[d] = creq[d]
<1>0. /\ cpc \in [Clients -> ThreadLabels]
      /\ creq \in [Clients -> Requests \cup {ZeroRequest}]
  BY DEF LifeTypeOK, ClientTypeOK
<1>1. ASSUME \A d \in Clients : old(d)
      PROVE  DistinctIds'
  BY <1>1 DEF DistinctIds
<1>2. ASSUME NEW c \in Clients, \A d \in Clients \ {c} : old(d),
             \A d \in Clients \ {c} : Busy(d) => creq[d].requestid # creq'[c].requestid
      PROVE  DistinctIds'
  BY <1>2 DEF DistinctIds
<1>3. ASSUME NEW c \in Clients, CreateRequest(c) \/ Orphan!CreateRequest(c)
      PROVE  DistinctIds'
  <2>1. PICK id \in Ids : /\ \A d \in Clients \ {c} : Busy(d) => creq[d].requestid # id
                          /\ creq'[c].requestid = id
                          /\ \A d \in Clients \ {c} : cpc'[d] = cpc[d] /\ creq'[d] = creq[d]
    BY <1>0, <1>3 DEF CreateRequest, Orphan!CreateRequest, CanDraw, Orphan!CanDraw, Busy,
       Orphan!Busy, BusyLabels, Orphan!BusyLabels, Orphan!Goto
  <2> QED
    BY <1>2, <2>1 DEF Busy
<1>4. ASSUME NEW c \in Clients,
             \/ WaitRequestSpace(c) \/ WriteRequest(c) \/ PostRequest(c) \/ WaitResponse(c)
             \/ CheckResponse(c) \/ RepostResponse(c) \/ ReleaseResponse(c) \/ LeaveLoop(c)
      PROVE  DistinctIds'
  BY <1>0, <1>1, <1>4 DEF WaitRequestSpace, WriteRequest, PostRequest, WaitResponse,
     CheckResponse, RepostResponse, ReleaseResponse, LeaveLoop, Busy, BusyLabels
<1>5. ASSUME NEW c \in Clients,
             \/ Orphan!WaitRequestSpace(c) \/ Orphan!WriteRequest(c) \/ Orphan!PostRequest(c)
             \/ Orphan!WaitResponse(c) \/ Orphan!CheckResponse(c) \/ Orphan!RepostResponse(c)
             \/ Orphan!ReleaseResponse(c) \/ Orphan!LeaveLoop(c)
      PROVE  DistinctIds'
  BY <1>0, <1>1, <1>5 DEF Orphan!WaitRequestSpace, Orphan!WriteRequest, Orphan!PostRequest,
     Orphan!WaitResponse, Orphan!CheckResponse, Orphan!RepostResponse,
     Orphan!ReleaseResponse, Orphan!LeaveLoop, Orphan!Goto, Busy, BusyLabels
<1>6. ASSUME NEW c \in Clients, ThreadActs(c) \/ OrphanActs(c)
      PROVE  DistinctIds'
  BY <1>3, <1>4, <1>5, <1>6 DEF ThreadActs, OrphanActs, ThreadStep, Orphan!ThreadStep
<1>7. ASSUME NEW p \in Procs, Blank(p)
      PROVE  DistinctIds'
  BY <1>0, <1>1, <1>7 DEF Blank, Busy, BusyLabels
<1>8. ASSUME NEW p \in Procs, MainActs(p) \/ FirstSigint(p)
      PROVE  DistinctIds'
  BY <1>0, <1>1, <1>8 DEF MainActs, FirstSigint, MainStep, SpawnThread, JoinThreads,
     ReturnFromMain, Sigint, DrainOneExit, ExitFromHandler, Busy, BusyLabels
<1>9. ASSUME UNCHANGED clientVars
      PROVE  DistinctIds'
  BY <1>1, <1>9 DEF Busy
<1>10. ASSUME Boot \/ ServerMain \/ KillServer \/ Unmap \/ ServerActs
       PROVE  UNCHANGED clientVars
  BY <1>10 DEF Boot, ServerMain, Size, InitSem, StartThreads, Fault, Unlink, KillServer,
     Unmap, ServerActs
<1>11. ASSUME NEW c \in Clients, SecondSigint(c)
       PROVE  UNCHANGED clientVars
  BY <1>11 DEF SecondSigint
<1>12. ASSUME NEW p \in Procs, Launch(p) \/ KillClient(p) \/ BusError(p)
       PROVE  Blank(p)
  BY <1>12 DEF Launch, KillClient, BusError, ClientDies
<1>13. ASSUME UNCHANGED lifeVars PROVE UNCHANGED clientVars
  BY <1>13
<1> QED
  BY <1>6, <1>7, <1>8, <1>9, <1>10, <1>11, <1>12, <1>13 DEF LifeNext

\* So do those of the clients that are seen.
LEMMA SeenIds ==
  ASSUME DistinctIds
  PROVE  Steps!DistinctIds
BY SeenLabels DEF DistinctIds, Steps!DistinctIds, At, Busy

\* A new id differs from that of every copy that is seen, also of those that nobody
\* waits for.
LEMMA FreshId ==
  ASSUME LifeTypeOK, ~CollidingIds, NEW c \in Clients, ThreadActs(c), CreateRequest(c)
  PROVE  \A t \in Steps!Copies : t[2].requestid # creq'[c].requestid
<1> DEFINE k == creq'[c].requestid
<1>0. /\ cpc \in [Clients -> ThreadLabels]
      /\ creq \in [Clients -> Requests \cup {ZeroRequest}]
      /\ Attached(Home[c])
  BY DEF LifeTypeOK, ClientTypeOK, ThreadActs
<1>1. /\ \A d \in Clients \ {c} : Busy(d) => creq[d].requestid # k
      /\ cpc[c] = "create" /\ cpc'[c] = "wait_space"
  BY <1>0 DEF CreateRequest, CanDraw
<1>2. k \notin OnTheWay
  BY <1>1 DEF ThreadActs, FreshDraw, Busy, BusyLabels
<1> HIDE DEF k
<1>3. \A x, y : <<x, y>>[2] = y
  OBVIOUS
<1>4. /\ Steps!RequestSlotFull => RequestSlotFull
      /\ Steps!ResponseSlotFull => ResponseSlotFull
  BY DEF seen, Steps!RequestSlotFull, RequestSlotFull, Steps!ResponseSlotFull,
     ResponseSlotFull, Steps!ClientInResponseSlot, ClientInResponseSlot
<1>5. \A t \in Steps!AtClients : t[2].requestid # k
  <2>1. \A d \in Clients : seen[d] \in {"wait_space", "write"} => d # c /\ Busy(d)
    BY <1>0, <1>1 DEF seen, Busy, BusyLabels
  <2> QED
    BY <1>1, <2>1 DEF Steps!AtClients
<1>6. \A t \in Steps!AtRequestSlot \cup Steps!AtResponseSlot : t[2].requestid # k
  <2>1. \A t \in Steps!AtRequestSlot : t[2] = request /\ RequestSlotFull
    BY <1>3, <1>4, Zenon DEF Steps!AtRequestSlot, Steps!Here
  <2>2. \A t \in Steps!AtResponseSlot : t[2] = response /\ ResponseSlotFull
    BY <1>3, <1>4, Zenon DEF Steps!AtResponseSlot, Steps!Here
  <2>3. /\ RequestSlotFull => request.requestid # k
        /\ ResponseSlotFull => response.requestid # k
    BY <1>2 DEF OnTheWay, Here
  <2> QED
    BY <2>1, <2>2, <2>3
<1>7. \A t \in Steps!AtRequestThread \cup Steps!AtResponseThread : t[2].requestid # k
  <2>1. \A t \in Steps!AtRequestThread : t[2] = ereq
    BY <1>3, Zenon DEF Steps!AtRequestThread, Steps!Here
  <2>2. \A t \in Steps!AtResponseThread : t[2] = rres
    BY <1>3, Zenon DEF Steps!AtResponseThread, Steps!Here
  <2>3. ereq.requestid # k /\ rres.requestid # k
    BY <1>2 DEF OnTheWay
  <2> QED
    BY <2>1, <2>2, <2>3
<1>8. \A t \in Steps!InRequestQueue \cup Steps!InResponseQueue : t[2].requestid # k
  <2>1. \A t \in Steps!InRequestQueue : \E i \in DOMAIN requestQueue : t[2] = requestQueue[i]
    <3> SUFFICES ASSUME NEW t \in Steps!InRequestQueue
                 PROVE  \E i \in DOMAIN requestQueue : t[2] = requestQueue[i]
      OBVIOUS
    <3>1. PICK i \in DOMAIN requestQueue : t = <<<<"request queue", i>>, requestQueue[i]>>
      BY DEF Steps!InRequestQueue, Steps!Pairs
    <3> QED
      BY <1>3, <3>1, Zenon
  <2>2. \A t \in Steps!InResponseQueue : \E i \in DOMAIN responseQueue : t[2] = responseQueue[i]
    <3> SUFFICES ASSUME NEW t \in Steps!InResponseQueue
                 PROVE  \E i \in DOMAIN responseQueue : t[2] = responseQueue[i]
      OBVIOUS
    <3>1. PICK i \in DOMAIN responseQueue : t = <<<<"response queue", i>>, responseQueue[i]>>
      BY DEF Steps!InResponseQueue, Steps!Pairs
    <3> QED
      BY <1>3, <3>1, Zenon
  <2>3. /\ \A i \in DOMAIN requestQueue : requestQueue[i].requestid # k
        /\ \A i \in DOMAIN responseQueue : responseQueue[i].requestid # k
    BY <1>2 DEF OnTheWay
  <2> QED
    BY <2>1, <2>2, <2>3
<1>9. \A t \in Steps!AtWorkers \cup Steps!RepliesAtWorkers : t[2].requestid # k
  <2>1. \A t \in Steps!AtWorkers : \E w \in Workers : t[2] = wreq[w]
    BY DEF Steps!AtWorkers
  <2>2. \A t \in Steps!RepliesAtWorkers : \E w \in Workers : t[2] = wres[w]
    BY DEF Steps!RepliesAtWorkers
  <2>3. \A w \in Workers : wreq[w].requestid # k /\ wres[w].requestid # k
    BY <1>2 DEF OnTheWay
  <2> QED
    BY <2>1, <2>2, <2>3
<1>10. \A t \in Steps!Copies : t[2].requestid # k
  BY <1>5, <1>6, <1>7, <1>8, <1>9 DEF Steps!Copies, Steps!Carried, Steps!Returned
<1> QED
  BY <1>10 DEF k

-----------------------------------------------------------------------------
(* Client processes that come and go.                                      *)

\* Fewer copies keep being different from each other.
LEMMA FewerCopies ==
  ASSUME Steps!OneCopyOfEach, Steps!Copies' \subseteq Steps!Copies
  PROVE  Steps!OneCopyOfEach'
BY DEF Steps!OneCopyOfEach, Steps!OneOfEach

\* No process that comes or goes adds a copy, and those that go take none along but what
\* is noted.
LEMMA ComingKeepsCopies ==
  ASSUME LifeTypeOK, DistinctIds, CopiesKept, Shrinks, Elsewhere, UNCHANGED serverVars,
         Noted \/ (Stays /\ UNCHANGED <<broken, unrest>>)
  PROVE  CopiesKept'
<1> SUFFICES ASSUME ~disturbed
             PROVE  SeenKept'
  BY KeptAsSeen DEF Elsewhere
<1>0. SeenKept /\ UNCHANGED shmVars
  BY KeptAsSeen DEF Elsewhere
<1>1. \A c \in Clients : At(c, BusyLabels)' =>
        At(c, BusyLabels) /\ seen'[c] = seen[c] /\ creq'[c] = creq[c]
  BY DEF Shrinks, At, seen
<1>2. \A c \in Clients : seen'[c] \in BusyLabels => At(c, BusyLabels)'
  BY DEF seen, At, BusyLabels
<1>3. \A c \in Clients : seen'[c] \in BusyLabels => seen'[c] = seen[c] /\ creq'[c] = creq[c]
  BY <1>1, <1>2
<1>4. Steps!AtClients' \subseteq Steps!AtClients
  BY <1>3 DEF Steps!AtClients, BusyLabels
<1>5. /\ Steps!RequestSlotFull' => Steps!RequestSlotFull
      /\ Steps!ResponseSlotFull' => Steps!ResponseSlotFull
  BY <1>0, <1>3 DEF Steps!RequestSlotFull, Steps!ResponseSlotFull,
     Steps!ClientInResponseSlot, BusyLabels
<1>6. /\ Steps!AtRequestThread' = Steps!AtRequestThread
      /\ Steps!InRequestQueue' = Steps!InRequestQueue
      /\ Steps!AtWorkers' = Steps!AtWorkers
      /\ Steps!RepliesAtWorkers' = Steps!RepliesAtWorkers
      /\ Steps!InResponseQueue' = Steps!InResponseQueue
      /\ Steps!AtResponseThread' = Steps!AtResponseThread
  BY DEF Steps!AtRequestThread, Steps!InRequestQueue, Steps!AtWorkers,
     Steps!RepliesAtWorkers, Steps!InResponseQueue, Steps!AtResponseThread, Steps!Here,
     Steps!Pairs
<1>7. /\ Steps!AtRequestSlot' \subseteq Steps!AtRequestSlot
      /\ Steps!AtResponseSlot' \subseteq Steps!AtResponseSlot
  BY <1>0, <1>5 DEF Steps!AtRequestSlot, Steps!AtResponseSlot, Steps!Here
<1>8. Steps!OneCopyOfEach'
  <2>1. Steps!Copies' \subseteq Steps!Copies
    BY <1>4, <1>6, <1>7 DEF Steps!Copies, Steps!Carried, Steps!Returned
  <2> QED
    BY <1>0, <2>1, FewerCopies DEF SeenKept
<1>9. Steps!OwnId'
  BY <1>0, <1>3 DEF SeenKept, Steps!OwnId, BusyLabels
<1>10. ASSUME ~broken'
       PROVE  Steps!ClientsServed'
  <2>1. Stays /\ Steps!ClientsServed
    BY <1>0, <1>10 DEF SeenKept, Noted
  <2>2. \A c \in Clients : seen[c] \in BusyLabels \ {"wait_space"} =>
          seen'[c] = seen[c]
    BY <1>1, <2>1 DEF Stays, At, seen, BusyLabels
  <2>3. /\ Steps!RequestSlotFull => Steps!RequestSlotFull'
        /\ Steps!ResponseSlotFull => Steps!ResponseSlotFull'
    BY <1>0, <2>2 DEF Steps!RequestSlotFull, Steps!ResponseSlotFull,
       Steps!ClientInResponseSlot, BusyLabels
  <2>4. /\ Steps!AtRequestSlot' = Steps!AtRequestSlot
        /\ Steps!AtResponseSlot' = Steps!AtResponseSlot
    BY <1>0, <1>5, <2>3 DEF Steps!AtRequestSlot, Steps!AtResponseSlot, Steps!Here
  <2> SUFFICES ASSUME NEW c \in Clients, Steps!Busy(c)'
               PROVE  \E t \in Steps!Copies' : t[2].requestid = creq'[c].requestid
    BY DEF Steps!ClientsServed
  <2>5. /\ seen'[c] \in BusyLabels /\ seen'[c] = seen[c] /\ creq'[c] = creq[c]
        /\ Steps!Busy(c)
    BY <1>3, SameConstants DEF Steps!Busy
  <2>6. PICK t \in Steps!Copies : t[2].requestid = creq[c].requestid
    BY <2>1, <2>5 DEF Steps!ClientsServed
  <2>7. CASE t \in Steps!AtClients
    <3>1. PICK d \in Clients : /\ seen[d] \in {"wait_space", "write"}
                               /\ t = <<<<"client", d>>, creq[d]>>
      BY <2>7 DEF Steps!AtClients
    <3>2. creq[d].requestid = creq[c].requestid
      BY <2>6, <3>1
    <3>3. Steps!Busy(d)
      BY <3>1 DEF Steps!Busy, Steps!BusyLabels
    <3>4. d = c
      BY <2>5, <3>2, <3>3, SeenIds DEF Steps!DistinctIds
    <3>5. t \in Steps!AtClients'
      BY <2>5, <3>1, <3>4 DEF Steps!AtClients
    <3> QED
      BY <2>5, <2>6, <3>5 DEF Steps!Copies, Steps!Carried
  <2>8. CASE t \notin Steps!AtClients
    <3>1. t \in Steps!Copies'
      BY <1>6, <2>4, <2>8 DEF Steps!Copies, Steps!Carried, Steps!Returned
    <3> QED
      BY <2>5, <2>6, <3>1
  <2> QED
    BY <2>7, <2>8
<1> QED
  BY <1>8, <1>9, <1>10 DEF SeenKept

-----------------------------------------------------------------------------
(* The main thread of the server.                                          *)

\* What a step leaves alone keeps its copies.
LEMMA UntouchedCopies ==
  ASSUME CopiesKept, UNCHANGED <<vars, where, disturbed, broken>>
  PROVE  CopiesKept'
<1> SUFFICES ASSUME ~disturbed
             PROVE  SeenKept'
  BY KeptAsSeen
<1>0. SeenKept
  BY KeptAsSeen
<1>1. seen' = seen /\ UNCHANGED vars
  BY DEF seen, Attached, Gone
<1>2. Steps!Copies' = Steps!Copies
  BY <1>1 DEF Steps!Copies, Steps!Carried, Steps!Returned, Steps!AtClients,
     Steps!AtRequestSlot, Steps!AtRequestThread, Steps!InRequestQueue, Steps!AtWorkers,
     Steps!RepliesAtWorkers, Steps!InResponseQueue, Steps!AtResponseThread,
     Steps!AtResponseSlot, Steps!Here, Steps!Pairs, Steps!RequestSlotFull,
     Steps!ResponseSlotFull, Steps!ClientInResponseSlot
<1>3. Steps!OneCopyOfEach'
  BY <1>0, <1>2 DEF SeenKept, Steps!OneCopyOfEach, Steps!OneOfEach
<1>4. Steps!OwnId'
  BY <1>0, <1>1 DEF SeenKept, Steps!OwnId
<1>5. ~broken' => Steps!ClientsServed'
  BY <1>0, <1>1, <1>2 DEF SeenKept, Steps!ClientsServed, Steps!Busy
<1> QED
  BY <1>3, <1>4, <1>5 DEF SeenKept

\* The copies in the memory of the server.
ServerCopies ==
  Steps!AtRequestThread \cup Steps!InRequestQueue \cup Steps!AtWorkers
    \cup Steps!RepliesAtWorkers \cup Steps!InResponseQueue \cup Steps!AtResponseThread

\* A server that holds nothing has none.
LEMMA NothingHeld ==
  /\ ~ServerHolds => ServerCopies = {} /\ epc = "wait" /\ rpc = "wait"
  /\ ~ServerHolds' => ServerCopies' = {}
<1> USE DEF ServerHolds
<1>1. ASSUME ~ServerHolds
      PROVE  ServerCopies = {}
  <2>1. /\ Steps!AtRequestThread = {} /\ Steps!AtResponseThread = {}
        /\ Steps!AtWorkers = {} /\ Steps!RepliesAtWorkers = {}
    BY <1>1 DEF Steps!AtRequestThread, Steps!AtResponseThread, Steps!AtWorkers,
       Steps!RepliesAtWorkers, Steps!Here
  <2>2. DOMAIN requestQueue = {} /\ DOMAIN responseQueue = {}
    BY <1>1
  <2>3. Steps!InRequestQueue = {} /\ Steps!InResponseQueue = {}
    BY <2>2 DEF Steps!InRequestQueue, Steps!InResponseQueue, Steps!Pairs
  <2> QED
    BY <2>1, <2>3 DEF ServerCopies
<1>2. ASSUME ~ServerHolds'
      PROVE  ServerCopies' = {}
  <2>1. /\ Steps!AtRequestThread' = {} /\ Steps!AtResponseThread' = {}
        /\ Steps!AtWorkers' = {} /\ Steps!RepliesAtWorkers' = {}
    BY <1>2 DEF Steps!AtRequestThread, Steps!AtResponseThread, Steps!AtWorkers,
       Steps!RepliesAtWorkers, Steps!Here
  <2>2. DOMAIN requestQueue' = {} /\ DOMAIN responseQueue' = {}
    BY <1>2
  <2>3. Steps!InRequestQueue' = {} /\ Steps!InResponseQueue' = {}
    BY <2>2 DEF Steps!InRequestQueue, Steps!InResponseQueue, Steps!Pairs
  <2> QED
    BY <2>1, <2>3 DEF ServerCopies
<1> QED
  BY <1>1, <1>2

\* A server that dies takes its copies along, which is noted.
LEMMA DeathKeepsCopies ==
  ASSUME LifeTypeOK, CopiesKept, KillServer \/ Fault
  PROVE  CopiesKept'
<1> SUFFICES ASSUME ~disturbed
             PROVE  SeenKept'
  BY KeptAsSeen DEF KillServer, Fault
<1>1. /\ ServerDies /\ UNCHANGED <<shmVars, clientVars, where>>
      /\ ~broken' => ~broken /\ ~ServerHolds
  BY DEF KillServer, Fault
<1>2. seen' = seen
  BY <1>1 DEF seen, Attached, Gone
<1>3. SeenKept /\ epc' = "wait" /\ rpc' = "wait"
  BY <1>1, KeptAsSeen DEF ServerDies
<1>4. ServerCopies' = {}
  BY <1>1, DeathKeepsQueues, NothingHeld
<1>5. Steps!AtClients' = Steps!AtClients
  BY <1>1, <1>2 DEF Steps!AtClients
<1>6. /\ Steps!AtRequestSlot' \subseteq Steps!AtRequestSlot
      /\ Steps!AtResponseSlot' \subseteq Steps!AtResponseSlot
  BY <1>1, <1>2, <1>3 DEF Steps!AtRequestSlot, Steps!AtResponseSlot, Steps!Here,
     Steps!RequestSlotFull, Steps!ResponseSlotFull, Steps!ClientInResponseSlot
<1>7. Steps!OneCopyOfEach'
  <2>1. Steps!Copies' \subseteq Steps!Copies
    BY <1>4, <1>5, <1>6 DEF Steps!Copies, Steps!Carried, Steps!Returned, ServerCopies
  <2> QED
    BY <1>3, <2>1, FewerCopies DEF SeenKept
<1>8. Steps!OwnId'
  BY <1>1, <1>2, <1>3 DEF SeenKept, Steps!OwnId
<1>9. ASSUME ~broken'
      PROVE  Steps!ClientsServed'
  <2>1. ServerCopies = {} /\ epc = "wait" /\ rpc = "wait"
    BY <1>1, <1>9, NothingHeld DEF ServerHolds
  <2>2. /\ Steps!AtRequestSlot' = Steps!AtRequestSlot
        /\ Steps!AtResponseSlot' = Steps!AtResponseSlot
    BY <1>1, <1>2, <1>3, <2>1 DEF Steps!AtRequestSlot, Steps!AtResponseSlot, Steps!Here,
       Steps!RequestSlotFull, Steps!ResponseSlotFull, Steps!ClientInResponseSlot
  <2>3. Steps!Copies' = Steps!Copies
    BY <1>4, <1>5, <2>1, <2>2 DEF Steps!Copies, Steps!Carried, Steps!Returned, ServerCopies
  <2> QED
    BY <1>1, <1>2, <1>3, <1>9, <2>3 DEF SeenKept, Steps!ClientsServed, Steps!Busy
<1> QED
  BY <1>7, <1>8, <1>9 DEF SeenKept

\* Where nobody is inside a request and nothing is in the slots or in the server there is
\* no copy, and nobody to have one.
LEMMA EmptyKeepsCopies ==
  ASSUME ServerCopies' = {}, ~Steps!RequestSlotFull', ~Steps!ResponseSlotFull',
         \A c \in Clients : seen'[c] \notin BusyLabels
  PROVE  SeenKept'
<1>1. Steps!Copies' = {}
  <2>1. Steps!AtClients' = {}
    BY DEF Steps!AtClients, BusyLabels
  <2>2. Steps!AtRequestSlot' = {} /\ Steps!AtResponseSlot' = {}
    BY DEF Steps!AtRequestSlot, Steps!AtResponseSlot, Steps!Here
  <2> QED
    BY <2>1, <2>2 DEF Steps!Copies, Steps!Carried, Steps!Returned, ServerCopies
<1>2. Steps!OneCopyOfEach'
  BY <1>1 DEF Steps!OneCopyOfEach, Steps!OneOfEach
<1>3. Steps!OwnId' /\ Steps!ClientsServed'
  BY SameConstants DEF Steps!OwnId, Steps!ClientsServed, Steps!Busy, BusyLabels
<1> QED
  BY <1>2, <1>3 DEF SeenKept

\* What the name will stand for next is empty.
LEMMA UnlinkKeepsCopies ==
  ASSUME Unlink
  PROVE  CopiesKept'
<1>1. /\ \A c \in Clients : seen'[c] = "unborn"
      /\ \A n \in ShmSems : sem'[n] = 0
      /\ epc' = "wait" /\ rpc' = "wait"
  BY ClientAssumption DEF Unlink, ServerDies, ZeroSems, seen, Attached
<1>2. ServerCopies' = {}
  BY DeathKeepsQueues, NothingHeld DEF Unlink
<1>3. ~Steps!RequestSlotFull' /\ ~Steps!ResponseSlotFull'
  BY <1>1 DEF Steps!RequestSlotFull, Steps!ResponseSlotFull, Steps!ClientInResponseSlot,
     ShmSems
<1> QED
  BY <1>1, <1>2, <1>3, EmptyKeepsCopies, KeptAsSeen DEF BusyLabels

\* sem_init of a new segment finds the two semaphores that say that a slot is full at
\* zero; in an old one with nobody inside a request it empties the slots, and the last
\* one leaves nothing there; and in any other the clients are disturbed.
LEMMA InitKeepsCopies ==
  ASSUME LifeTypeOK, ServerIdle, SegmentKept, CopiesKept, InitSem
  PROVE  CopiesKept'
<1> USE OrderOfInit
<1> DEFINE restless == unrest \/ (~fresh /\ \E c \in Clients : At(c, BusyLabels))
<1>1. /\ sup = "sized" /\ inited \in 0 .. 3 /\ sem \in [ShmSems -> Nat]
      /\ "req_available" \in ShmSems /\ "res_available" \in ShmSems
      /\ UNCHANGED <<request, response, clientVars, serverVars, where>>
  BY DEF InitSem, LifeTypeOK, ShmTypeOK, ShmSems
<1>2. inited # 3 \/ fresh \/ restless =>
        (~disturbed' => ~disturbed /\ ~restless) /\ broken' = broken
  <2>1. restless <=>
          unrest \/ (~fresh /\ \E c \in {d \in Clients : Attached(Home[d])} : Busy(c))
    BY DEF At, Busy
  <2>2. inited # 3 => inited + 1 # 4
    BY <1>1
  <2>3. broken \in BOOLEAN
    BY DEF LifeTypeOK
  <2> HIDE DEF restless
  <2>4. inited # 3 \/ fresh \/ restless =>
          (disturbed' <=> disturbed \/ restless) /\ (broken' <=> broken) /\ broken' \in BOOLEAN
    BY <2>1, <2>2 DEF InitSem, NoteInit
  <2> QED
    BY <2>3, <2>4
<1>3. seen' = seen
  BY <1>1 DEF seen, Attached, Gone
<1>4. ~ServerHolds /\ epc = "wait" /\ rpc = "wait" /\ ServerCopies' = {} /\ ServerCopies = {}
  <2>1. ~ServerHolds
    BY <1>1 DEF ServerIdle
  <2>2. ~ServerHolds'
    BY <1>1, <2>1 DEF ServerHolds
  <2> QED
    BY <2>1, <2>2, NothingHeld DEF ServerHolds
<1>5. /\ sem'["req_available"] = IF inited = 0 THEN 0 ELSE sem["req_available"]
      /\ sem'["res_available"] = IF inited = 2 THEN 0 ELSE sem["res_available"]
  BY <1>1 DEF InitSem
<1>6. CASE fresh
  <2> SUFFICES ASSUME ~disturbed, broken' = broken
               PROVE  SeenKept'
    BY <1>1, <1>2, <1>6, KeptAsSeen
  <2>1. RequestFree \in Nat /\ ResponseFree \in Nat
    BY <1>1 DEF RequestFree, ResponseFree, ShmSems
  <2>2. /\ inited = 0 => sem["req_available"] = 0
        /\ inited = 2 => sem["res_available"] = 0
    BY <1>1, <1>6 DEF SegmentKept, NewSegment, RequestFree, ResponseFree, ShmSems
  <2>3. /\ sem'["req_available"] = sem["req_available"]
        /\ sem'["res_available"] = sem["res_available"]
    BY <1>5, <2>2
  <2>4. /\ Steps!RequestSlotFull' <=> Steps!RequestSlotFull
        /\ Steps!ResponseSlotFull' <=> Steps!ResponseSlotFull
    BY <1>1, <1>3, <2>3 DEF Steps!RequestSlotFull, Steps!ResponseSlotFull,
       Steps!ClientInResponseSlot
  <2>5. Steps!Copies' = Steps!Copies
    <3>1. Steps!AtClients' = Steps!AtClients
      BY <1>1, <1>3 DEF Steps!AtClients
    <3>2. /\ Steps!AtRequestSlot' = Steps!AtRequestSlot
          /\ Steps!AtResponseSlot' = Steps!AtResponseSlot
      BY <1>1, <2>4 DEF Steps!AtRequestSlot, Steps!AtResponseSlot, Steps!Here
    <3> QED
      BY <1>4, <3>1, <3>2 DEF Steps!Copies, Steps!Carried, Steps!Returned, ServerCopies
  <2>6. SeenKept
    BY KeptAsSeen
  <2>7. Steps!OneCopyOfEach'
    BY <2>5, <2>6, FewerCopies DEF SeenKept
  <2>8. Steps!OwnId'
    BY <1>1, <1>3, <2>6 DEF SeenKept, Steps!OwnId
  <2>9. ~broken' => Steps!ClientsServed'
    BY <1>1, <1>3, <2>5, <2>6 DEF SeenKept, Steps!ClientsServed, Steps!Busy
  <2> QED
    BY <2>7, <2>8, <2>9 DEF SeenKept
<1>7. CASE ~fresh /\ restless
  BY <1>1, <1>2, <1>7, KeptAsSeen
<1>8. CASE ~fresh /\ ~restless
  <2>1. \A c \in Clients : seen'[c] \notin BusyLabels
    BY <1>3, <1>8 DEF seen, At, BusyLabels
  <2>2. Restoring
    BY <1>1, <1>8 DEF Restoring
  <2>3. /\ Steps!RequestSlotFull' => sem'["req_available"] > 0
        /\ Steps!ResponseSlotFull' => sem'["res_available"] > 0
    BY <1>1, <1>4, <2>1 DEF Steps!RequestSlotFull, Steps!ResponseSlotFull,
       Steps!ClientInResponseSlot, BusyLabels
  <2>4. CASE inited = 3
    <3>1. sem["req_available"] = 0
      <4>1. \A c \in Clients : ~At(c, {"wait_response", "check", "repost"})
        BY <1>8 DEF At, BusyLabels
      <4> QED
        BY <1>1, <2>2, <2>4, <4>1 DEF SegmentKept, RequestHasClient
    <3>2. sem["res_available"] = 0
      BY <2>2, <2>4 DEF SegmentKept, Restored
    <3>3. ~Steps!RequestSlotFull' /\ ~Steps!ResponseSlotFull'
      BY <1>5, <2>3, <2>4, <3>1, <3>2
    <3> QED
      BY <1>4, <2>1, <3>3, EmptyKeepsCopies, KeptAsSeen
  <2>5. CASE inited # 3
    <3> SUFFICES ASSUME ~disturbed
                 PROVE  SeenKept'
      BY <1>2, <2>5, KeptAsSeen
    <3>1. SeenKept
      BY KeptAsSeen
    <3>2. /\ Steps!RequestSlotFull' => Steps!RequestSlotFull
          /\ Steps!ResponseSlotFull' => Steps!ResponseSlotFull
      BY <1>1, <1>5, <2>3 DEF Steps!RequestSlotFull, Steps!ResponseSlotFull
    <3>3. Steps!Copies' \subseteq Steps!Copies
      <4>1. Steps!AtClients' = Steps!AtClients
        BY <1>1, <1>3 DEF Steps!AtClients
      <4>2. /\ Steps!AtRequestSlot' \subseteq Steps!AtRequestSlot
            /\ Steps!AtResponseSlot' \subseteq Steps!AtResponseSlot
        BY <1>1, <3>2 DEF Steps!AtRequestSlot, Steps!AtResponseSlot, Steps!Here
      <4> QED
        BY <1>4, <4>1, <4>2 DEF Steps!Copies, Steps!Carried, Steps!Returned, ServerCopies
    <3>4. Steps!OneCopyOfEach'
      BY <3>1, <3>3, FewerCopies DEF SeenKept
    <3>5. Steps!OwnId' /\ Steps!ClientsServed'
      BY <2>1, SameConstants DEF Steps!OwnId, Steps!ClientsServed, Steps!Busy, BusyLabels
    <3> QED
      BY <3>4, <3>5 DEF SeenKept
  <2> QED
    BY <2>4, <2>5
<1> QED
  BY <1>6, <1>7, <1>8

-----------------------------------------------------------------------------
(* Steps of the system.                                                    *)

\* What the lemmas of module CopyProofs say of the steps of a system that is in order.
LEMMA SystemKeepsCopies ==
  ASSUME LifeIInv, DistinctIds, CopiesKept, Steps!Next, UNCHANGED <<disturbed, broken>>,
         \A c \in Clients : Steps!CreateRequest(c) =>
           \A t \in Steps!Copies : t[2].requestid # creq'[c].requestid
  PROVE  CopiesKept'
<1> USE SameAssumptions
<1> SUFFICES ASSUME ~disturbed
             PROVE  SeenKept'
  BY KeptAsSeen
<1>1. Steps!OneCopyOfEach /\ Steps!OwnId /\ (~broken => Steps!ClientsServed)
  BY KeptAsSeen DEF SeenKept
<1>2. Steps!Orderly /\ Steps!DistinctIds
  BY SeenOrderly, SeenIds
<1>3. Steps!OwnId'
  <2>1. Steps!TypeOK /\ Steps!ResponseSlotExclusive
    BY <1>2 DEF Steps!Orderly
  <2> QED
    BY <1>1, <2>1, Steps!OwnIdKept
<1>4. CASE Steps!Keeps /\ Steps!SameClients
  <2>1. Steps!OneCopyOfEach'
    BY <1>1, <1>4 DEF Steps!Keeps
  <2>2. Steps!ClientsServed => Steps!ClientsServed'
    BY <1>4, Steps!KeepsServed
  <2> QED
    BY <1>1, <1>3, <2>1, <2>2 DEF SeenKept
<1>5. ASSUME NEW w \in Workers, Steps!Process(w), UNCHANGED Steps!clientVars
      PROVE  SeenKept'
  <2>1. Steps!OneCopyOfEach' /\ (Steps!ClientsServed => Steps!ClientsServed')
    BY <1>1, <1>2, <1>5, Steps!ProcessKeepsCopies
  <2> QED
    BY <1>1, <1>3, <2>1 DEF SeenKept
<1>6. ASSUME NEW c \in Clients, Steps!CreateRequest(c), UNCHANGED Steps!serverVars
      PROVE  SeenKept'
  <2>1. Steps!OneCopyOfEach' /\ (Steps!ClientsServed => Steps!ClientsServed')
    BY <1>1, <1>2, <1>6, Steps!CreateKeepsCopies
  <2> QED
    BY <1>1, <1>3, <2>1 DEF SeenKept
<1>7. ASSUME NEW c \in Clients, Steps!ReleaseResponse(c), UNCHANGED Steps!serverVars
      PROVE  SeenKept'
  <2>1. Steps!OneCopyOfEach' /\ (Steps!ClientsServed => Steps!ClientsServed')
    BY <1>1, <1>2, <1>7, Steps!ReleaseKeepsCopies
  <2> QED
    BY <1>1, <1>3, <2>1 DEF SeenKept
<1> QED
  BY <1>2, <1>4, <1>5, <1>6, <1>7, Steps!StepKinds

-----------------------------------------------------------------------------
(* The invariant.                                                          *)

\* By the kinds of steps.
LEMMA StepKeepsCopies ==
  ASSUME ~CollidingIds, LifeIInv, ExitTickets', LifeCopyInv, [LifeNext]_lifeVars
  PROVE  CopiesKept'
<1> USE DEF LifeIInv, LifeCopyInv
<1>1. ASSUME Boot \/ Size \/ StartThreads \/ Unmap \/ UNCHANGED lifeVars
      PROVE  CopiesKept'
  <2>1. UNCHANGED <<vars, where, disturbed, broken>>
    BY <1>1 DEF Boot, Size, StartThreads, Unmap
  <2> QED
    BY <2>1, UntouchedCopies
<1>2. ASSUME InitSem \/ KillServer \/ Fault \/ Unlink
      PROVE  CopiesKept'
  BY <1>2, InitKeepsCopies, DeathKeepsCopies, UnlinkKeepsCopies
<1>3. ASSUME NEW p \in Procs,
             Launch(p) \/ MainActs(p) \/ FirstSigint(p) \/ KillClient(p) \/ BusError(p)
      PROVE  CopiesKept'
  <2>1. Shrinks /\ Elsewhere /\ (Noted \/ (Stays /\ UNCHANGED <<broken, unrest>>))
    BY <1>3, LaunchComes, MainGoes, DeathGoes
  <2>2. UNCHANGED serverVars
    BY <1>3 DEF Launch, MainActs, FirstSigint, KillClient, BusError, ClientDies
  <2> QED
    BY <2>1, <2>2, ComingKeepsCopies
<1>4. ASSUME NEW c \in Clients, OrphanActs(c) \/ SecondSigint(c)
      PROVE  CopiesKept'
  <2>1. Shrinks /\ Elsewhere /\ Stays /\ UNCHANGED <<broken, unrest>>
    BY <1>4, OrphanElsewhere
  <2>2. UNCHANGED serverVars
    BY <1>4 DEF OrphanActs, SecondSigint
  <2> QED
    BY <2>1, <2>2, ComingKeepsCopies
<1>5. ASSUME NEW c \in Clients, ThreadActs(c)
      PROVE  CopiesKept'
  <2>1. /\ Steps!Next /\ UNCHANGED <<disturbed, broken>>
        /\ \A d \in Clients : Steps!CreateRequest(d) => d = c /\ CreateRequest(c)
    BY <1>5, ThreadSeen
  <2>2. CreateRequest(c) => \A t \in Steps!Copies : t[2].requestid # creq'[c].requestid
    BY <1>5, FreshId
  <2> QED
    BY <2>1, <2>2, SystemKeepsCopies
<1>6. ASSUME ServerActs
      PROVE  CopiesKept'
  <2>1. Steps!Next /\ UNCHANGED <<seen, disturbed, broken>>
    BY <1>6, ServerSeen
  <2>2. ASSUME NEW d \in Clients
        PROVE  ~Steps!CreateRequest(d)
    <3>1. DOMAIN seen = Clients
      BY DEF seen
    <3> QED
      BY <2>1, <3>1 DEF Steps!CreateRequest, Steps!Goto
  <2> QED
    BY <2>1, <2>2, SystemKeepsCopies
<1> QED
  BY <1>1, <1>2, <1>3, <1>4, <1>5, <1>6 DEF LifeNext, ServerMain

\* At first there is no copy, and nobody to have one.
LEMMA LifeInitHasNoCopies ==
  ASSUME LifeInit
  PROVE  LifeCopyInv
<1>1. /\ \A c \in Clients : seen[c] = "unborn" /\ cpc[c] = "unborn"
      /\ \A n \in ShmSems : sem[n] = 0
  BY ClientAssumption DEF LifeInit, ClientInit, ZeroSems, seen, Attached
<1>2. ServerCopies = {} /\ epc = "wait" /\ rpc = "wait"
  <2>1. ~ServerHolds
    BY DEF LifeInit, ServerInit, ServerHolds
  <2> QED
    BY <2>1, NothingHeld
<1>3. ~Steps!RequestSlotFull /\ ~Steps!ResponseSlotFull
  BY <1>1, <1>2 DEF Steps!RequestSlotFull, Steps!ResponseSlotFull,
     Steps!ClientInResponseSlot, ShmSems
<1>4. Steps!Copies = {}
  <2>1. Steps!AtClients = {}
    BY <1>1 DEF Steps!AtClients
  <2>2. Steps!AtRequestSlot = {} /\ Steps!AtResponseSlot = {}
    BY <1>3 DEF Steps!AtRequestSlot, Steps!AtResponseSlot, Steps!Here
  <2> QED
    BY <1>2, <2>1, <2>2 DEF Steps!Copies, Steps!Carried, Steps!Returned, ServerCopies
<1>5. Steps!OneCopyOfEach
  BY <1>4 DEF Steps!OneCopyOfEach, Steps!OneOfEach
<1>6. Steps!OwnId /\ Steps!ClientsServed
  BY <1>1 DEF Steps!OwnId, Steps!ClientsServed, Steps!Busy, Steps!BusyLabels
<1>7. DistinctIds
  BY <1>1 DEF DistinctIds, Busy, BusyLabels
<1> QED
  BY <1>5, <1>6, <1>7, KeptAsSeen DEF SeenKept, LifeCopyInv

\* Whoever comes and goes, there is at most one copy of each request and of each
\* response, and only a process that dies takes one from a client that waits, until
\* semaphores are set up under a client inside its request: for any sets of clients,
\* processes and workers and any number of starts and signals, if no id is drawn while
\* it is on its way.
THEOREM LifeCopyInvariance ==
  ASSUME ~CollidingIds
  PROVE  LifeSpec => []LifeCopyInv
<1>1. LifeInit => LifeCopyInv
  BY LifeInitHasNoCopies
<1>2. LifeIInv /\ LifeIInv' /\ LifeCopyInv /\ [LifeNext]_lifeVars => LifeCopyInv'
  <2> SUFFICES ASSUME LifeIInv, LifeIInv', LifeCopyInv, [LifeNext]_lifeVars
               PROVE  LifeCopyInv'
    OBVIOUS
  <2>1. LifeTypeOK /\ ExitTickets' /\ DistinctIds
    BY DEF LifeIInv, LifeCopyInv
  <2>2. DistinctIds'
    BY <2>1, StepKeepsIds
  <2>3. CopiesKept'
    BY <2>1, StepKeepsCopies
  <2> QED
    BY <2>2, <2>3 DEF LifeCopyInv
<1> QED
  BY <1>1, <1>2, LifeInvariance, PTL DEF LifeSpec

\* RequestsKept: the server never applies a request twice, whoever is killed and started
\* again, and none is lost but one that a process has in its hands when it dies.
THEOREM NothingLostButByDeath ==
  ASSUME ~CollidingIds
  PROVE  LifeSpec => []RequestsKept
<1>1. ASSUME NEW c \in Clients
      PROVE  /\ View!Busy(c) <=> Steps!Busy(c)
             /\ View!RequestPlaces(c) = Steps!RequestPlaces(c)
             /\ View!ResponsesTo(c) = Steps!ResponsesTo(c)
  <2>1. View!RequestSlotFull <=> Steps!RequestSlotFull
    BY DEF View!RequestSlotFull, Steps!RequestSlotFull, seen
  <2>2. View!ResponseSlotFull <=> Steps!ResponseSlotFull
    BY DEF View!ResponseSlotFull, Steps!ResponseSlotFull, View!ClientInResponseSlot,
       Steps!ClientInResponseSlot, seen
  <2>3. View!Busy(c) <=> Steps!Busy(c)
    BY DEF View!Busy, Steps!Busy, View!BusyLabels, Steps!BusyLabels, seen
  <2>4. View!RequestPlaces(c) = Steps!RequestPlaces(c)
    BY <2>1, Zenon DEF View!RequestPlaces, Steps!RequestPlaces, View!Here, Steps!Here, seen
  <2>5. View!ResponsesTo(c) = Steps!ResponsesTo(c)
    BY <2>2, Zenon DEF View!ResponsesTo, Steps!ResponsesTo, View!Here, Steps!Here
  <2> QED
    BY <2>3, <2>4, <2>5
<1>2. ASSUME LifeCopyInv, NEW c \in Clients, View!Busy(c), ~disturbed
      PROVE  Cardinality(View!RequestPlaces(c)) + Cardinality(View!ResponsesTo(c))
               \in (IF broken THEN {0, 1} ELSE {1})
  <2>1. Steps!OneCopyOfEach /\ Steps!DistinctIds /\ (~broken => Steps!ClientsServed)
    BY <1>2, KeptAsSeen, SeenIds DEF LifeCopyInv, SeenKept
  <2>2. Steps!Busy(c)
    BY <1>1, <1>2
  <2>3. LET n == Cardinality(Steps!RequestPlaces(c)) + Cardinality(Steps!ResponsesTo(c))
        IN  n \in {0, 1} /\ (Steps!ClientsServed => n = 1)
    BY <2>1, <2>2, Steps!CopiesCounted, SameAssumptions, SameCardinality
  <2> QED
    BY <1>1, <2>1, <2>3
<1>3. LifeCopyInv => RequestsKept
  BY <1>2 DEF RequestsKept
<1> QED
  BY <1>3, LifeCopyInvariance, PTL
=============================================================================
