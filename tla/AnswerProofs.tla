---------------------------- MODULE AnswerProofs ----------------------------
(***************************************************************************)
(* Proof that a client acknowledges its own response, and a successful     *)
(* one, for any number of clients and workers, also when ids collide.  The *)
(* comparison of ids is a step before the acknowledgement; what the thread *)
(* compared is still in the slot because the slot is in its hand alone.    *)
(***************************************************************************)
EXTENDS SystemProofs

USE DEF vars, shmVars, clientVars, serverVars, threadVars, processVars,
        queueVars, enqVars, workVars, deqVars,
        Goto, EGoto, WGoto, RGoto, SemWait, SemPost

\* Every response on its way, and the one in the slot, says SUCCESS.
AllSucceed ==
  /\ \A w \in Workers : wres[w].returntype = "SUCCESS"
  /\ \A i \in DOMAIN responseQueue : responseQueue[i].returntype = "SUCCESS"
  /\ rres.returntype = "SUCCESS"
  /\ response.returntype = "SUCCESS"

\* A client that is about to acknowledge has its own id in front of it.
OwnId ==
  \A c \in Clients : cpc[c] = "release" => response.requestid = creq[c].requestid

\* The response thread writes the slot only while no client is in it, and a
\* client creates a request only after it has acknowledged the last.
LEMMA OwnIdKept ==
  ASSUME TypeOK, ResponseSlotExclusive, OwnId, Next
  PROVE  OwnId'
<1> USE DEF OwnId
<1>0. cpc \in [Clients -> ThreadLabels] /\ creq \in [Clients -> Requests \cup {ZeroRequest}]
  BY DEF TypeOK, ClientTypeOK
<1>1. ASSUME NEW c \in Clients, CreateRequest(c)
      PROVE  OwnId'
  BY <1>0, <1>1 DEF CreateRequest
<1>2. ASSUME NEW c \in Clients, CheckResponse(c)
      PROVE  OwnId'
  BY <1>0, <1>2 DEF CheckResponse
<1>3. ASSUME NEW c \in Clients,
             \/ WaitRequestSpace(c) \/ WriteRequest(c) \/ PostRequest(c)
             \/ WaitResponse(c) \/ RepostResponse(c) \/ ReleaseResponse(c)
             \/ LeaveLoop(c) \/ SpawnThread(c)
      PROVE  OwnId'
  BY <1>0, <1>3 DEF WaitRequestSpace, WriteRequest, PostRequest, WaitResponse,
     RepostResponse, ReleaseResponse, LeaveLoop, SpawnThread
<1>4. ASSUME NEW p \in Procs,
             \/ JoinThreads(p) \/ ReturnFromMain(p) \/ Sigint(p)
             \/ DrainOneExit(p) \/ ExitFromHandler(p)
      PROVE  OwnId'
  BY <1>4 DEF JoinThreads, ReturnFromMain, Sigint, DrainOneExit, ExitFromHandler
<1>5. CASE WriteResponse /\ UNCHANGED clientVars
  <2>1. ServerInResponseSlot
    BY <1>5 DEF WriteResponse, ServerInResponseSlot
  <2>2. \A c \in Clients : cpc[c] # "release"
    BY <2>1 DEF ResponseSlotExclusive, ClientInResponseSlot
  <2> QED
    BY <1>5, <2>2
<1>6. CASE ServerNext /\ ~WriteResponse /\ UNCHANGED clientVars
  <2>1. response' = response
    BY <1>6 DEF ServerNext, RequestThreadStep, WorkerStep, ResponseThreadStep,
       WaitRequest, CopyRequest, ReleaseRequestSlot, LockForEnqueue, PushRequest,
       UnlockAfterEnqueue, AnnounceRequest, TakeTicket, LockForDequeue, PopRequest,
       UnlockAfterDequeue, Process, LockForResponse, PushResponse,
       UnlockAfterResponse, AnnounceResponse, WaitResult, LockForResult, PopResult,
       UnlockAfterResult, WaitResponseSpace, PostResponse
  <2> QED
    BY <1>6, <2>1
<1> QED
  BY <1>1, <1>2, <1>3, <1>4, <1>5, <1>6 DEF Next, ClientNext, ThreadStep, MainStep, Threads

\* Only Process makes a response, and it says SUCCESS because the operation of a
\* request is always one of the three.
LEMMA SuccessKept ==
  ASSUME IInv, AllSucceed, Next
  PROVE  AllSucceed'
<1> USE DEF AllSucceed
<1>0. /\ responseQueue \in Seq(Responses)
      /\ wres \in [Workers -> Responses \cup {ZeroResponse}]
      /\ store \in [Values -> Nat]
      /\ \A w \in Workers : wpc[w] \in WorkHolds => wreq[w] \in Requests
  BY DEF IInv, TypeOK, ServerTypeOK
<1>1. CASE ClientNext /\ UNCHANGED serverVars
  <2>1. response' = response
    BY <1>1 DEF ClientNext, ThreadStep, MainStep, CreateRequest, WaitRequestSpace,
       WriteRequest, PostRequest, WaitResponse, CheckResponse, RepostResponse,
       ReleaseResponse, LeaveLoop, SpawnThread, JoinThreads, ReturnFromMain, Sigint,
       DrainOneExit, ExitFromHandler
  <2> QED
    BY <1>1, <2>1
<1>2. ASSUME NEW w \in Workers, Process(w)
      PROVE  AllSucceed'
  <2>1. wreq[w] \in Requests
    BY <1>0, <1>2 DEF Process, WorkHolds
  <2>2. Reply(wreq[w], store).returntype = "SUCCESS"
    BY <1>0, <2>1, ReplyIsResponse
  <2> QED
    BY <1>0, <1>2, <2>2 DEF Process
<1>3. ASSUME NEW w \in Workers, PushResponse(w)
      PROVE  AllSucceed'
  <2>1. wres[w] \in Responses
    <3>1. wpc[w] = "push_res"
      BY <1>3 DEF PushResponse
    <3> QED
      BY <3>1 DEF IInv, TypeOK, ServerTypeOK, WorkDone
  <2>2. /\ Len(responseQueue) \in Nat
        /\ responseQueue' \in Seq(Responses)
        /\ Len(responseQueue') = Len(responseQueue) + 1
        /\ \A i \in 1 .. Len(responseQueue) : responseQueue'[i] = responseQueue[i]
        /\ responseQueue'[Len(responseQueue) + 1] = wres[w]
    BY <1>0, <1>3, <2>1, AppendProperties, LenProperties DEF PushResponse
  <2>3. /\ DOMAIN responseQueue = 1 .. Len(responseQueue)
        /\ DOMAIN responseQueue' = 1 .. Len(responseQueue')
    BY <1>0, <2>2, LenProperties
  <2>4. \A i \in DOMAIN responseQueue' : responseQueue'[i].returntype = "SUCCESS"
    <3> SUFFICES ASSUME NEW i \in 1 .. Len(responseQueue) + 1
                 PROVE  responseQueue'[i].returntype = "SUCCESS"
      BY <2>2, <2>3
    <3>1. CASE i = Len(responseQueue) + 1
      BY <2>2, <3>1
    <3>2. CASE i # Len(responseQueue) + 1
      BY <2>2, <2>3, <3>2
    <3> QED
      BY <3>1, <3>2
  <2> QED
    BY <1>3, <2>4 DEF PushResponse
<1>4. ASSUME NEW w \in Workers, AnnounceResponse(w)
      PROVE  AllSucceed'
  BY <1>0, <1>4 DEF AnnounceResponse, ZeroResponse
<1>5. CASE PopResult
  <2>1. responseQueue # <<>>
    <3>1. NoPopFromEmptyQueue
      BY TicketsFillQueues DEF IInv
    <3> QED
      BY <1>5, <3>1 DEF PopResult, NoPopFromEmptyQueue
  <2>2. /\ Len(responseQueue) \in Nat /\ Len(responseQueue) # 0
        /\ DOMAIN responseQueue = 1 .. Len(responseQueue)
    BY <1>0, <2>1, LenProperties, EmptySeq
  <2>3. Head(responseQueue) = responseQueue[1]
    BY <1>0, <2>1, HeadTailProperties
  <2>4. /\ Tail(responseQueue) \in Seq(Responses)
        /\ Len(Tail(responseQueue)) = Len(responseQueue) - 1
        /\ \A i \in 1 .. Len(Tail(responseQueue)) :
             Tail(responseQueue)[i] = responseQueue[i + 1]
    BY <1>0, <2>1, HeadTailProperties
  <2>5. DOMAIN Tail(responseQueue) = 1 .. Len(responseQueue) - 1
    BY <2>4, LenProperties
  <2>6. \A i \in 1 .. Len(responseQueue) - 1 :
          Tail(responseQueue)[i].returntype = "SUCCESS"
    BY <2>2, <2>4
  <2> QED
    BY <1>5, <2>2, <2>3, <2>5, <2>6 DEF PopResult
<1>6. CASE WriteResponse \/ PostResponse
  BY <1>6 DEF WriteResponse, PostResponse, ZeroResponse
<1>7. ASSUME NEW w \in Workers,
             \/ TakeTicket(w) \/ LockForDequeue(w) \/ PopRequest(w)
             \/ UnlockAfterDequeue(w) \/ LockForResponse(w) \/ UnlockAfterResponse(w)
      PROVE  AllSucceed'
  BY <1>7 DEF TakeTicket, LockForDequeue, PopRequest, UnlockAfterDequeue,
     LockForResponse, UnlockAfterResponse
<1>8. CASE \/ RequestThreadStep
           \/ WaitResult \/ LockForResult \/ UnlockAfterResult \/ WaitResponseSpace
  BY <1>8 DEF RequestThreadStep, WaitRequest, CopyRequest, ReleaseRequestSlot,
     LockForEnqueue, PushRequest, UnlockAfterEnqueue, AnnounceRequest, WaitResult,
     LockForResult, UnlockAfterResult, WaitResponseSpace
<1> QED
  BY <1>1, <1>2, <1>3, <1>4, <1>5, <1>6, <1>7, <1>8
     DEF Next, ServerNext, WorkerStep, ResponseThreadStep

\* A client that takes the response slot back holds the response to its own
\* request, and the status in it is SUCCESS (client.cpp, the comparison of ids and
\* the release of the slot; server.cpp, the three branches of processRequests).
THEOREM AcknowledgesOwnResponse == Spec => []ReleasesOwnResponse
<1> DEFINE Answers == IInv /\ AllSucceed /\ OwnId
<1>1. Init => Answers
  <2>1. Init => IInv
    BY InitEstablishesIInv
  <2>2. Init => AllSucceed /\ OwnId
    BY DEF Init, ShmInit, ClientInit, ServerInit, AllSucceed, OwnId, ZeroResponse
  <2> QED
    BY <2>1, <2>2
<1>2. Answers /\ [Next]_vars => Answers'
  <2> SUFFICES ASSUME Answers, [Next]_vars
               PROVE  Answers'
    OBVIOUS
  <2>1. IInv'
    BY NextKeepsIInv
  <2>2. CASE Next
    <3>1. TypeOK /\ ResponseSlotExclusive
      BY DEF IInv, ResponsePermit, ResponseSlotExclusive
    <3> QED
      BY <2>1, <2>2, <3>1, OwnIdKept, SuccessKept
  <2>3. CASE UNCHANGED vars
    BY <2>1, <2>3 DEF AllSucceed, OwnId
  <2> QED
    BY <2>2, <2>3
<1>3. Answers => ReleasesOwnResponse
  BY DEF AllSucceed, OwnId, ReleasesOwnResponse
<1> QED
  BY <1>1, <1>2, <1>3, PTL DEF Spec
=============================================================================
