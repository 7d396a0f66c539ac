---------------------------- MODULE SystemProofs ----------------------------
(***************************************************************************)
(* Proofs that IInv is an inductive invariant of the composed system, for  *)
(* any sets of clients, processes and workers, any ids and values, and of  *)
(* the safety properties of module System that follow from it.             *)
(***************************************************************************)
EXTENDS SystemInv, SequenceTheorems, FiniteSetTheorems, TLAPS

USE DEF vars, shmVars, clientVars, serverVars, threadVars, processVars,
        queueVars, enqVars, workVars, deqVars,
        Goto, EGoto, WGoto, RGoto, SemWait, SemPost

-----------------------------------------------------------------------------
(* Types.                                                                  *)

\* The reply to a request is a response, and it says SUCCESS.
LEMMA ReplyIsResponse ==
  ASSUME NEW q \in Requests, NEW bag \in [Values -> Nat]
  PROVE  Reply(q, bag) \in Responses /\ Reply(q, bag).returntype = "SUCCESS"
<1>1. q.requestid \in Ids /\ q.operation \in Ops
  BY DEF Requests
<1>2. Present(bag, q.value) \in BOOLEAN
  BY DEF Present
<1> QED
  BY <1>1, <1>2 DEF Reply, Responses, ReturnTypes

\* An operation turns a bag of strings into a bag of strings.
LEMMA AfterIsBag ==
  ASSUME NEW q \in Requests, NEW bag \in [Values -> Nat]
  PROVE  After(bag, q.operation, q.value) \in [Values -> Nat]
BY DEF After, Requests, Ops

\* A client step keeps the types: what WriteRequest puts in the slot is a request
\* because its thread has created one.
LEMMA ClientKeepsTypes ==
  ASSUME TypeOK, ClientNext, UNCHANGED serverVars
  PROVE  ShmTypeOK' /\ ClientTypeOK'
<1> USE ClientAssumption DEF TypeOK, ShmTypeOK, ClientTypeOK, ShmSems
<1>1. ASSUME NEW c \in Clients, CreateRequest(c)
      PROVE  ShmTypeOK' /\ ClientTypeOK'
  BY <1>1 DEF CreateRequest, Requests, Busy, BusyLabels, ThreadLabels
<1>2. ASSUME NEW c \in Clients, WaitRequestSpace(c)
      PROVE  ShmTypeOK' /\ ClientTypeOK'
  BY <1>2 DEF WaitRequestSpace, Busy, BusyLabels, ThreadLabels
<1>3. ASSUME NEW c \in Clients, WriteRequest(c)
      PROVE  ShmTypeOK' /\ ClientTypeOK'
  BY <1>3 DEF WriteRequest, Busy, BusyLabels, ThreadLabels
<1>4. ASSUME NEW c \in Clients, PostRequest(c)
      PROVE  ShmTypeOK' /\ ClientTypeOK'
  BY <1>4 DEF PostRequest, Busy, BusyLabels, ThreadLabels
<1>5. ASSUME NEW c \in Clients, WaitResponse(c)
      PROVE  ShmTypeOK' /\ ClientTypeOK'
  BY <1>5 DEF WaitResponse, Busy, BusyLabels, ThreadLabels
<1>6. ASSUME NEW c \in Clients, CheckResponse(c)
      PROVE  ShmTypeOK' /\ ClientTypeOK'
  BY <1>6 DEF CheckResponse, Busy, BusyLabels, ThreadLabels
<1>7. ASSUME NEW c \in Clients, RepostResponse(c)
      PROVE  ShmTypeOK' /\ ClientTypeOK'
  BY <1>7 DEF RepostResponse, Busy, BusyLabels, ThreadLabels
<1>8. ASSUME NEW c \in Clients, ReleaseResponse(c)
      PROVE  ShmTypeOK' /\ ClientTypeOK'
  BY <1>8 DEF ReleaseResponse, Busy, BusyLabels, ThreadLabels
<1>9. ASSUME NEW c \in Clients, LeaveLoop(c)
      PROVE  ShmTypeOK' /\ ClientTypeOK'
  BY <1>9 DEF LeaveLoop, Busy, BusyLabels, ThreadLabels
<1>10. ASSUME NEW c \in Clients, SpawnThread(c)
      PROVE  ShmTypeOK' /\ ClientTypeOK'
  BY <1>10 DEF SpawnThread, MainLabels, Threads, Busy, BusyLabels, ThreadLabels
<1>11. ASSUME NEW p \in Procs, JoinThreads(p)
      PROVE  ShmTypeOK' /\ ClientTypeOK'
  BY <1>11 DEF JoinThreads, MainLabels, Busy, BusyLabels, ThreadLabels
<1>12. ASSUME NEW p \in Procs, ReturnFromMain(p)
      PROVE  ShmTypeOK' /\ ClientTypeOK'
  BY <1>12 DEF ReturnFromMain, MainLabels, Busy, BusyLabels, ThreadLabels
<1>13. ASSUME NEW p \in Procs, DrainOneExit(p)
      PROVE  ShmTypeOK' /\ ClientTypeOK'
  BY <1>13 DEF DrainOneExit, Busy, BusyLabels, ThreadLabels
<1>14. ASSUME NEW p \in Procs, ExitFromHandler(p)
      PROVE  ShmTypeOK' /\ ClientTypeOK'
  BY <1>14 DEF ExitFromHandler, MainLabels, Busy, BusyLabels, ThreadLabels
<1>15. ASSUME NEW p \in Procs, Sigint(p)
      PROVE  ShmTypeOK' /\ ClientTypeOK'
  BY <1>15 DEF Sigint, MainLabels, Busy, BusyLabels, ThreadLabels
<1> QED
  BY <1>1, <1>2, <1>3, <1>4, <1>5, <1>6, <1>7, <1>8, <1>9, <1>10, <1>11, <1>12,
     <1>13, <1>14, <1>15 DEF ClientNext, ThreadStep, MainStep, Threads

\* A server step keeps the types: a queue is not empty when it is popped, and a
\* slot is full when it is copied.
LEMMA ServerKeepsTypes ==
  ASSUME TypeOK, NoPopFromEmptyQueue, epc = "copy" => request \in Requests,
         ServerNext, UNCHANGED clientVars
  PROVE  ShmTypeOK' /\ ServerTypeOK'
<1> USE DEF TypeOK, ShmTypeOK, ServerTypeOK, ShmSems, QueueSems
<1>1. ASSUME WaitRequest
      PROVE  ShmTypeOK' /\ ServerTypeOK'
  BY <1>1 DEF WaitRequest, EnqLabels, EnqHolds, WorkLabels, WorkHolds, WorkDone,
     DeqLabels, DeqHolds
<1>2. ASSUME CopyRequest
      PROVE  ShmTypeOK' /\ ServerTypeOK'
  BY <1>2 DEF CopyRequest, EnqLabels, EnqHolds,
     WorkLabels, WorkHolds, WorkDone, DeqLabels, DeqHolds
<1>3. ASSUME ReleaseRequestSlot
      PROVE  ShmTypeOK' /\ ServerTypeOK'
  BY <1>3 DEF ReleaseRequestSlot, EnqLabels, EnqHolds, WorkLabels, WorkHolds,
     WorkDone, DeqLabels, DeqHolds
<1>4. ASSUME LockForEnqueue
      PROVE  ShmTypeOK' /\ ServerTypeOK'
  BY <1>4 DEF LockForEnqueue, EnqLabels, EnqHolds, WorkLabels, WorkHolds, WorkDone,
     DeqLabels, DeqHolds
<1>5. ASSUME PushRequest
      PROVE  ShmTypeOK' /\ ServerTypeOK'
  BY <1>5 DEF PushRequest, EnqLabels, EnqHolds, WorkLabels, WorkHolds, WorkDone,
     DeqLabels, DeqHolds
<1>6. ASSUME UnlockAfterEnqueue
      PROVE  ShmTypeOK' /\ ServerTypeOK'
  BY <1>6 DEF UnlockAfterEnqueue, EnqLabels, EnqHolds, WorkLabels, WorkHolds,
     WorkDone, DeqLabels, DeqHolds
<1>7. ASSUME AnnounceRequest
      PROVE  ShmTypeOK' /\ ServerTypeOK'
  BY <1>7 DEF AnnounceRequest, EnqLabels, EnqHolds, WorkLabels, WorkHolds,
     WorkDone, DeqLabels, DeqHolds
<1>8. ASSUME NEW w \in Workers, TakeTicket(w)
      PROVE  ShmTypeOK' /\ ServerTypeOK'
  BY <1>8 DEF TakeTicket, EnqLabels, EnqHolds, WorkLabels, WorkHolds, WorkDone,
     DeqLabels, DeqHolds
<1>9. ASSUME NEW w \in Workers, LockForDequeue(w)
      PROVE  ShmTypeOK' /\ ServerTypeOK'
  BY <1>9 DEF LockForDequeue, EnqLabels, EnqHolds, WorkLabels, WorkHolds, WorkDone,
     DeqLabels, DeqHolds
<1>10. ASSUME NEW w \in Workers, PopRequest(w)
      PROVE  ShmTypeOK' /\ ServerTypeOK'
  BY <1>10, HeadTailProperties DEF PopRequest, NoPopFromEmptyQueue, EnqLabels,
     EnqHolds, WorkLabels, WorkHolds, WorkDone, DeqLabels, DeqHolds
<1>11. ASSUME NEW w \in Workers, UnlockAfterDequeue(w)
      PROVE  ShmTypeOK' /\ ServerTypeOK'
  BY <1>11 DEF UnlockAfterDequeue, EnqLabels, EnqHolds, WorkLabels, WorkHolds,
     WorkDone, DeqLabels, DeqHolds
<1>12. ASSUME NEW w \in Workers, Process(w)
      PROVE  ShmTypeOK' /\ ServerTypeOK'
  BY <1>12, ReplyIsResponse, AfterIsBag DEF Process, EnqLabels, EnqHolds,
     WorkLabels, WorkHolds, WorkDone, DeqLabels, DeqHolds
<1>13. ASSUME NEW w \in Workers, LockForResponse(w)
      PROVE  ShmTypeOK' /\ ServerTypeOK'
  BY <1>13 DEF LockForResponse, EnqLabels, EnqHolds, WorkLabels, WorkHolds,
     WorkDone, DeqLabels, DeqHolds
<1>14. ASSUME NEW w \in Workers, PushResponse(w)
      PROVE  ShmTypeOK' /\ ServerTypeOK'
  BY <1>14 DEF PushResponse, EnqLabels, EnqHolds, WorkLabels, WorkHolds, WorkDone,
     DeqLabels, DeqHolds
<1>15. ASSUME NEW w \in Workers, UnlockAfterResponse(w)
      PROVE  ShmTypeOK' /\ ServerTypeOK'
  BY <1>15 DEF UnlockAfterResponse, EnqLabels, EnqHolds, WorkLabels, WorkHolds,
     WorkDone, DeqLabels, DeqHolds
<1>16. ASSUME NEW w \in Workers, AnnounceResponse(w)
      PROVE  ShmTypeOK' /\ ServerTypeOK'
  BY <1>16 DEF AnnounceResponse, EnqLabels, EnqHolds, WorkLabels, WorkHolds,
     WorkDone, DeqLabels, DeqHolds
<1>17. ASSUME WaitResult
      PROVE  ShmTypeOK' /\ ServerTypeOK'
  BY <1>17 DEF WaitResult, EnqLabels, EnqHolds, WorkLabels, WorkHolds, WorkDone,
     DeqLabels, DeqHolds
<1>18. ASSUME LockForResult
      PROVE  ShmTypeOK' /\ ServerTypeOK'
  BY <1>18 DEF LockForResult, EnqLabels, EnqHolds, WorkLabels, WorkHolds, WorkDone,
     DeqLabels, DeqHolds
<1>19. ASSUME PopResult
      PROVE  ShmTypeOK' /\ ServerTypeOK'
  BY <1>19, HeadTailProperties DEF PopResult, NoPopFromEmptyQueue, EnqLabels,
     EnqHolds, WorkLabels, WorkHolds, WorkDone, DeqLabels, DeqHolds
<1>20. ASSUME UnlockAfterResult
      PROVE  ShmTypeOK' /\ ServerTypeOK'
  BY <1>20 DEF UnlockAfterResult, EnqLabels, EnqHolds, WorkLabels, WorkHolds,
     WorkDone, DeqLabels, DeqHolds
<1>21. ASSUME WaitResponseSpace
      PROVE  ShmTypeOK' /\ ServerTypeOK'
  BY <1>21 DEF WaitResponseSpace, EnqLabels, EnqHolds, WorkLabels, WorkHolds,
     WorkDone, DeqLabels, DeqHolds
<1>22. ASSUME WriteResponse
      PROVE  ShmTypeOK' /\ ServerTypeOK'
  BY <1>22 DEF WriteResponse, EnqLabels, EnqHolds, WorkLabels, WorkHolds, WorkDone,
     DeqLabels, DeqHolds
<1>23. ASSUME PostResponse
      PROVE  ShmTypeOK' /\ ServerTypeOK'
  BY <1>23 DEF PostResponse, EnqLabels, EnqHolds, WorkLabels, WorkHolds, WorkDone,
     DeqLabels, DeqHolds
<1> QED
  BY <1>1, <1>2, <1>3, <1>4, <1>5, <1>6, <1>7, <1>8, <1>9, <1>10, <1>11, <1>12,
     <1>13, <1>14, <1>15, <1>16, <1>17, <1>18, <1>19, <1>20, <1>21, <1>22, <1>23
     DEF ServerNext, RequestThreadStep, WorkerStep, ResponseThreadStep

-----------------------------------------------------------------------------
(* The permits of the two slots.                                           *)

\* A client thread takes the permit of the request slot from req_space_available and
\* leaves it in req_available.
LEMMA ClientKeepsRequestPermit ==
  ASSUME TypeOK, RequestPermit, ClientNext, UNCHANGED serverVars
  PROVE  RequestPermit'
<1> USE DEF TypeOK, ShmTypeOK, ClientTypeOK, ServerTypeOK, ShmSems, QueueSems
<1>1. ASSUME NEW c \in Clients, WaitRequestSpace(c)
      PROVE  RequestPermit'
  BY <1>1 DEF WaitRequestSpace, RequestPermit, ClientInRequestSlot,
     ServerInRequestSlot
<1>2. ASSUME NEW c \in Clients, WriteRequest(c)
      PROVE  RequestPermit'
  BY <1>2 DEF WriteRequest, RequestPermit, ClientInRequestSlot, ServerInRequestSlot
<1>3. ASSUME NEW c \in Clients, PostRequest(c)
      PROVE  RequestPermit'
  BY <1>3 DEF PostRequest, RequestPermit, ClientInRequestSlot, ServerInRequestSlot
<1>4. ASSUME NEW c \in Clients,
             \/ CreateRequest(c)
             \/ WaitResponse(c)
             \/ CheckResponse(c)
             \/ RepostResponse(c)
             \/ ReleaseResponse(c)
             \/ LeaveLoop(c)
      PROVE  RequestPermit'
  <2>1. /\ sem'["req_available"] = sem["req_available"]
        /\ sem'["req_space_available"] = sem["req_space_available"]
        /\ \A d \in Clients : ClientInRequestSlot(d)' <=> ClientInRequestSlot(d)
        /\ ServerInRequestSlot' <=> ServerInRequestSlot
    BY <1>4 DEF CreateRequest, WaitResponse, CheckResponse, RepostResponse,
       ReleaseResponse, LeaveLoop, ClientInRequestSlot, ServerInRequestSlot
  <2> QED
    BY <2>1 DEF RequestPermit
<1>5. ASSUME \/ \E c \in Clients : SpawnThread(c)
             \/ \E p \in Procs : JoinThreads(p)
             \/ \E p \in Procs : ReturnFromMain(p)
             \/ \E p \in Procs : DrainOneExit(p)
             \/ \E p \in Procs : ExitFromHandler(p)
             \/ \E p \in Procs : Sigint(p)
      PROVE  RequestPermit'
  <2>1. /\ sem'["req_available"] = sem["req_available"]
        /\ sem'["req_space_available"] = sem["req_space_available"]
        /\ \A d \in Clients : ClientInRequestSlot(d)' <=> ClientInRequestSlot(d)
        /\ ServerInRequestSlot' <=> ServerInRequestSlot
    BY <1>5 DEF SpawnThread, JoinThreads, ReturnFromMain, DrainOneExit,
       ExitFromHandler, Sigint, ClientInRequestSlot, ServerInRequestSlot
  <2> QED
    BY <2>1 DEF RequestPermit
<1> QED
  BY <1>1, <1>2, <1>3, <1>4, <1>5 DEF ClientNext, ThreadStep, MainStep, Threads

\* The request thread takes the permit of the request slot from req_available and
\* leaves it in req_space_available.
LEMMA ServerKeepsRequestPermit ==
  ASSUME TypeOK, RequestPermit, ServerNext, UNCHANGED clientVars
  PROVE  RequestPermit'
<1> USE DEF TypeOK, ShmTypeOK, ClientTypeOK, ServerTypeOK, ShmSems, QueueSems
<1>1. ASSUME WaitRequest
      PROVE  RequestPermit'
  BY <1>1 DEF WaitRequest, RequestPermit, ClientInRequestSlot, ServerInRequestSlot
<1>2. ASSUME CopyRequest
      PROVE  RequestPermit'
  BY <1>2 DEF CopyRequest, RequestPermit, ClientInRequestSlot, ServerInRequestSlot
<1>3. ASSUME ReleaseRequestSlot
      PROVE  RequestPermit'
  BY <1>3 DEF ReleaseRequestSlot, RequestPermit, ClientInRequestSlot,
     ServerInRequestSlot
<1>4. ASSUME \/ LockForEnqueue
             \/ PushRequest
             \/ UnlockAfterEnqueue
             \/ AnnounceRequest
      PROVE  RequestPermit'
  <2>1. /\ sem'["req_available"] = sem["req_available"]
        /\ sem'["req_space_available"] = sem["req_space_available"]
        /\ \A d \in Clients : ClientInRequestSlot(d)' <=> ClientInRequestSlot(d)
        /\ ServerInRequestSlot' <=> ServerInRequestSlot
    BY <1>4 DEF LockForEnqueue, PushRequest, UnlockAfterEnqueue, AnnounceRequest,
       ClientInRequestSlot, ServerInRequestSlot
  <2> QED
    BY <2>1 DEF RequestPermit
<1>5. ASSUME NEW w \in Workers,
             \/ TakeTicket(w)
             \/ LockForDequeue(w)
             \/ PopRequest(w)
             \/ UnlockAfterDequeue(w)
             \/ Process(w)
             \/ LockForResponse(w)
             \/ PushResponse(w)
             \/ UnlockAfterResponse(w)
             \/ AnnounceResponse(w)
      PROVE  RequestPermit'
  <2>1. /\ sem'["req_available"] = sem["req_available"]
        /\ sem'["req_space_available"] = sem["req_space_available"]
        /\ \A d \in Clients : ClientInRequestSlot(d)' <=> ClientInRequestSlot(d)
        /\ ServerInRequestSlot' <=> ServerInRequestSlot
    BY <1>5 DEF TakeTicket, LockForDequeue, PopRequest, UnlockAfterDequeue,
       Process, LockForResponse, PushResponse, UnlockAfterResponse,
       AnnounceResponse, ClientInRequestSlot, ServerInRequestSlot
  <2> QED
    BY <2>1 DEF RequestPermit
<1>6. ASSUME \/ WaitResult
             \/ LockForResult
             \/ PopResult
             \/ UnlockAfterResult
             \/ WaitResponseSpace
             \/ WriteResponse
             \/ PostResponse
      PROVE  RequestPermit'
  <2>1. /\ sem'["req_available"] = sem["req_available"]
        /\ sem'["req_space_available"] = sem["req_space_available"]
        /\ \A d \in Clients : ClientInRequestSlot(d)' <=> ClientInRequestSlot(d)
        /\ ServerInRequestSlot' <=> ServerInRequestSlot
    BY <1>6 DEF WaitResult, LockForResult, PopResult, UnlockAfterResult,
       WaitResponseSpace, WriteResponse, PostResponse, ClientInRequestSlot,
       ServerInRequestSlot
  <2> QED
    BY <2>1 DEF RequestPermit
<1> QED
  BY <1>1, <1>2, <1>3, <1>4, <1>5, <1>6 DEF ServerNext, RequestThreadStep,
     WorkerStep, ResponseThreadStep

\* A client thread takes the permit of the response slot from res_available, and
\* leaves it there again or in res_space_available.
LEMMA ClientKeepsResponsePermit ==
  ASSUME TypeOK, ResponsePermit, ClientNext, UNCHANGED serverVars
  PROVE  ResponsePermit'
<1> USE DEF TypeOK, ShmTypeOK, ClientTypeOK, ServerTypeOK, ShmSems, QueueSems
<1>1. ASSUME NEW c \in Clients, WaitResponse(c)
      PROVE  ResponsePermit'
  BY <1>1 DEF WaitResponse, ResponsePermit, ClientInResponseSlot,
     ServerInResponseSlot
<1>2. ASSUME NEW c \in Clients, CheckResponse(c)
      PROVE  ResponsePermit'
  BY <1>2 DEF CheckResponse, ResponsePermit, ClientInResponseSlot,
     ServerInResponseSlot
<1>3. ASSUME NEW c \in Clients, RepostResponse(c)
      PROVE  ResponsePermit'
  BY <1>3 DEF RepostResponse, ResponsePermit, ClientInResponseSlot,
     ServerInResponseSlot
<1>4. ASSUME NEW c \in Clients, ReleaseResponse(c)
      PROVE  ResponsePermit'
  BY <1>4 DEF ReleaseResponse, ResponsePermit, ClientInResponseSlot,
     ServerInResponseSlot
<1>5. ASSUME NEW c \in Clients,
             \/ CreateRequest(c)
             \/ WaitRequestSpace(c)
             \/ WriteRequest(c)
             \/ PostRequest(c)
             \/ LeaveLoop(c)
      PROVE  ResponsePermit'
  <2>1. /\ sem'["res_available"] = sem["res_available"]
        /\ sem'["res_space_available"] = sem["res_space_available"]
        /\ \A d \in Clients : ClientInResponseSlot(d)' <=> ClientInResponseSlot(d)
        /\ ServerInResponseSlot' <=> ServerInResponseSlot
    BY <1>5 DEF CreateRequest, WaitRequestSpace, WriteRequest, PostRequest,
       LeaveLoop, ClientInResponseSlot, ServerInResponseSlot
  <2> QED
    BY <2>1 DEF ResponsePermit
<1>6. ASSUME \/ \E c \in Clients : SpawnThread(c)
             \/ \E p \in Procs : JoinThreads(p)
             \/ \E p \in Procs : ReturnFromMain(p)
             \/ \E p \in Procs : DrainOneExit(p)
             \/ \E p \in Procs : ExitFromHandler(p)
             \/ \E p \in Procs : Sigint(p)
      PROVE  ResponsePermit'
  <2>1. /\ sem'["res_available"] = sem["res_available"]
        /\ sem'["res_space_available"] = sem["res_space_available"]
        /\ \A d \in Clients : ClientInResponseSlot(d)' <=> ClientInResponseSlot(d)
        /\ ServerInResponseSlot' <=> ServerInResponseSlot
    BY <1>6 DEF SpawnThread, JoinThreads, ReturnFromMain, DrainOneExit,
       ExitFromHandler, Sigint, ClientInResponseSlot, ServerInResponseSlot
  <2> QED
    BY <2>1 DEF ResponsePermit
<1> QED
  BY <1>1, <1>2, <1>3, <1>4, <1>5, <1>6 DEF ClientNext, ThreadStep, MainStep,
     Threads

\* The response thread takes the permit of the response slot from
\* res_space_available and leaves it in res_available.
LEMMA ServerKeepsResponsePermit ==
  ASSUME TypeOK, ResponsePermit, ServerNext, UNCHANGED clientVars
  PROVE  ResponsePermit'
<1> USE DEF TypeOK, ShmTypeOK, ClientTypeOK, ServerTypeOK, ShmSems, QueueSems
<1>1. ASSUME WaitResponseSpace
      PROVE  ResponsePermit'
  BY <1>1 DEF WaitResponseSpace, ResponsePermit, ClientInResponseSlot,
     ServerInResponseSlot
<1>2. ASSUME WriteResponse
      PROVE  ResponsePermit'
  BY <1>2 DEF WriteResponse, ResponsePermit, ClientInResponseSlot,
     ServerInResponseSlot
<1>3. ASSUME PostResponse
      PROVE  ResponsePermit'
  BY <1>3 DEF PostResponse, ResponsePermit, ClientInResponseSlot,
     ServerInResponseSlot
<1>4. ASSUME \/ WaitRequest
             \/ CopyRequest
             \/ ReleaseRequestSlot
             \/ LockForEnqueue
             \/ PushRequest
             \/ UnlockAfterEnqueue
             \/ AnnounceRequest
      PROVE  ResponsePermit'
  <2>1. /\ sem'["res_available"] = sem["res_available"]
        /\ sem'["res_space_available"] = sem["res_space_available"]
        /\ \A d \in Clients : ClientInResponseSlot(d)' <=> ClientInResponseSlot(d)
        /\ ServerInResponseSlot' <=> ServerInResponseSlot
    BY <1>4 DEF WaitRequest, CopyRequest, ReleaseRequestSlot, LockForEnqueue,
       PushRequest, UnlockAfterEnqueue, AnnounceRequest, ClientInResponseSlot,
       ServerInResponseSlot
  <2> QED
    BY <2>1 DEF ResponsePermit
<1>5. ASSUME NEW w \in Workers,
             \/ TakeTicket(w)
             \/ LockForDequeue(w)
             \/ PopRequest(w)
             \/ UnlockAfterDequeue(w)
             \/ Process(w)
             \/ LockForResponse(w)
             \/ PushResponse(w)
             \/ UnlockAfterResponse(w)
             \/ AnnounceResponse(w)
      PROVE  ResponsePermit'
  <2>1. /\ sem'["res_available"] = sem["res_available"]
        /\ sem'["res_space_available"] = sem["res_space_available"]
        /\ \A d \in Clients : ClientInResponseSlot(d)' <=> ClientInResponseSlot(d)
        /\ ServerInResponseSlot' <=> ServerInResponseSlot
    BY <1>5 DEF TakeTicket, LockForDequeue, PopRequest, UnlockAfterDequeue,
       Process, LockForResponse, PushResponse, UnlockAfterResponse,
       AnnounceResponse, ClientInResponseSlot, ServerInResponseSlot
  <2> QED
    BY <2>1 DEF ResponsePermit
<1>6. ASSUME \/ WaitResult
             \/ LockForResult
             \/ PopResult
             \/ UnlockAfterResult
      PROVE  ResponsePermit'
  <2>1. /\ sem'["res_available"] = sem["res_available"]
        /\ sem'["res_space_available"] = sem["res_space_available"]
        /\ \A d \in Clients : ClientInResponseSlot(d)' <=> ClientInResponseSlot(d)
        /\ ServerInResponseSlot' <=> ServerInResponseSlot
    BY <1>6 DEF WaitResult, LockForResult, PopResult, UnlockAfterResult,
       ClientInResponseSlot, ServerInResponseSlot
  <2> QED
    BY <2>1 DEF ResponsePermit
<1> QED
  BY <1>1, <1>2, <1>3, <1>4, <1>5, <1>6 DEF ServerNext, RequestThreadStep,
     WorkerStep, ResponseThreadStep

-----------------------------------------------------------------------------
(* The locks of the two queues.                                            *)

\* The lock of the request queue passes through the request thread and the workers.
LEMMA RequestQueueLockKept ==
  ASSUME TypeOK, RequestQueueLock, ServerNext, UNCHANGED clientVars
  PROVE  RequestQueueLock'
<1> USE DEF TypeOK, ShmTypeOK, ClientTypeOK, ServerTypeOK, ShmSems, QueueSems
<1>1. ASSUME LockForEnqueue
      PROVE  RequestQueueLock'
  BY <1>1 DEF LockForEnqueue, RequestQueueLock, WorkerInRequestQueue,
     EnqInRequestQueue
<1>2. ASSUME PushRequest
      PROVE  RequestQueueLock'
  BY <1>2 DEF PushRequest, RequestQueueLock, WorkerInRequestQueue,
     EnqInRequestQueue
<1>3. ASSUME UnlockAfterEnqueue
      PROVE  RequestQueueLock'
  BY <1>3 DEF UnlockAfterEnqueue, RequestQueueLock, WorkerInRequestQueue,
     EnqInRequestQueue
<1>4. ASSUME NEW w \in Workers, LockForDequeue(w)
      PROVE  RequestQueueLock'
  BY <1>4 DEF LockForDequeue, RequestQueueLock, WorkerInRequestQueue,
     EnqInRequestQueue
<1>5. ASSUME NEW w \in Workers, PopRequest(w)
      PROVE  RequestQueueLock'
  BY <1>5 DEF PopRequest, RequestQueueLock, WorkerInRequestQueue, EnqInRequestQueue
<1>6. ASSUME NEW w \in Workers, UnlockAfterDequeue(w)
      PROVE  RequestQueueLock'
  BY <1>6 DEF UnlockAfterDequeue, RequestQueueLock, WorkerInRequestQueue,
     EnqInRequestQueue
<1>7. ASSUME \/ WaitRequest
             \/ CopyRequest
             \/ ReleaseRequestSlot
             \/ AnnounceRequest
      PROVE  RequestQueueLock'
  <2>1. /\ qsem'["req_queue_lock"] = qsem["req_queue_lock"]
        /\ \A u \in Workers : WorkerInRequestQueue(u)' <=> WorkerInRequestQueue(u)
        /\ EnqInRequestQueue' <=> EnqInRequestQueue
    BY <1>7 DEF WaitRequest, CopyRequest, ReleaseRequestSlot, AnnounceRequest,
       WorkerInRequestQueue, EnqInRequestQueue
  <2> QED
    BY <2>1 DEF RequestQueueLock
<1>8. ASSUME NEW w \in Workers,
             \/ TakeTicket(w)
             \/ Process(w)
             \/ LockForResponse(w)
             \/ PushResponse(w)
             \/ UnlockAfterResponse(w)
             \/ AnnounceResponse(w)
      PROVE  RequestQueueLock'
  <2>1. /\ qsem'["req_queue_lock"] = qsem["req_queue_lock"]
        /\ \A u \in Workers : WorkerInRequestQueue(u)' <=> WorkerInRequestQueue(u)
        /\ EnqInRequestQueue' <=> EnqInRequestQueue
    BY <1>8 DEF TakeTicket, Process, LockForResponse, PushResponse,
       UnlockAfterResponse, AnnounceResponse, WorkerInRequestQueue,
       EnqInRequestQueue
  <2> QED
    BY <2>1 DEF RequestQueueLock
<1>9. ASSUME \/ WaitResult
             \/ LockForResult
             \/ PopResult
             \/ UnlockAfterResult
             \/ WaitResponseSpace
             \/ WriteResponse
             \/ PostResponse
      PROVE  RequestQueueLock'
  <2>1. /\ qsem'["req_queue_lock"] = qsem["req_queue_lock"]
        /\ \A u \in Workers : WorkerInRequestQueue(u)' <=> WorkerInRequestQueue(u)
        /\ EnqInRequestQueue' <=> EnqInRequestQueue
    BY <1>9 DEF WaitResult, LockForResult, PopResult, UnlockAfterResult,
       WaitResponseSpace, WriteResponse, PostResponse, WorkerInRequestQueue,
       EnqInRequestQueue
  <2> QED
    BY <2>1 DEF RequestQueueLock
<1> QED
  BY <1>1, <1>2, <1>3, <1>4, <1>5, <1>6, <1>7, <1>8, <1>9 DEF ServerNext,
     RequestThreadStep, WorkerStep, ResponseThreadStep

\* The lock of the response queue passes through the workers and the response thread.
LEMMA ResponseQueueLockKept ==
  ASSUME TypeOK, ResponseQueueLock, ServerNext, UNCHANGED clientVars
  PROVE  ResponseQueueLock'
<1> USE DEF TypeOK, ShmTypeOK, ClientTypeOK, ServerTypeOK, ShmSems, QueueSems
<1>1. ASSUME NEW w \in Workers, LockForResponse(w)
      PROVE  ResponseQueueLock'
  BY <1>1 DEF LockForResponse, ResponseQueueLock, WorkerInResponseQueue,
     DeqInResponseQueue
<1>2. ASSUME NEW w \in Workers, PushResponse(w)
      PROVE  ResponseQueueLock'
  BY <1>2 DEF PushResponse, ResponseQueueLock, WorkerInResponseQueue,
     DeqInResponseQueue
<1>3. ASSUME NEW w \in Workers, UnlockAfterResponse(w)
      PROVE  ResponseQueueLock'
  BY <1>3 DEF UnlockAfterResponse, ResponseQueueLock, WorkerInResponseQueue,
     DeqInResponseQueue
<1>4. ASSUME LockForResult
      PROVE  ResponseQueueLock'
  BY <1>4 DEF LockForResult, ResponseQueueLock, WorkerInResponseQueue,
     DeqInResponseQueue
<1>5. ASSUME PopResult
      PROVE  ResponseQueueLock'
  BY <1>5 DEF PopResult, ResponseQueueLock, WorkerInResponseQueue,
     DeqInResponseQueue
<1>6. ASSUME UnlockAfterResult
      PROVE  ResponseQueueLock'
  BY <1>6 DEF UnlockAfterResult, ResponseQueueLock, WorkerInResponseQueue,
     DeqInResponseQueue
<1>7. ASSUME \/ WaitRequest
             \/ CopyRequest
             \/ ReleaseRequestSlot
             \/ LockForEnqueue
             \/ PushRequest
             \/ UnlockAfterEnqueue
             \/ AnnounceRequest
      PROVE  ResponseQueueLock'
  <2>1. /\ qsem'["res_queue_lock"] = qsem["res_queue_lock"]
        /\ \A u \in Workers : WorkerInResponseQueue(u)' <=> WorkerInResponseQueue(u)
        /\ DeqInResponseQueue' <=> DeqInResponseQueue
    BY <1>7 DEF WaitRequest, CopyRequest, ReleaseRequestSlot, LockForEnqueue,
       PushRequest, UnlockAfterEnqueue, AnnounceRequest, WorkerInResponseQueue,
       DeqInResponseQueue
  <2> QED
    BY <2>1 DEF ResponseQueueLock
<1>8. ASSUME NEW w \in Workers,
             \/ TakeTicket(w)
             \/ LockForDequeue(w)
             \/ PopRequest(w)
             \/ UnlockAfterDequeue(w)
             \/ Process(w)
             \/ AnnounceResponse(w)
      PROVE  ResponseQueueLock'
  <2>1. /\ qsem'["res_queue_lock"] = qsem["res_queue_lock"]
        /\ \A u \in Workers : WorkerInResponseQueue(u)' <=> WorkerInResponseQueue(u)
        /\ DeqInResponseQueue' <=> DeqInResponseQueue
    BY <1>8 DEF TakeTicket, LockForDequeue, PopRequest, UnlockAfterDequeue,
       Process, AnnounceResponse, WorkerInResponseQueue, DeqInResponseQueue
  <2> QED
    BY <2>1 DEF ResponseQueueLock
<1>9. ASSUME \/ WaitResult
             \/ WaitResponseSpace
             \/ WriteResponse
             \/ PostResponse
      PROVE  ResponseQueueLock'
  <2>1. /\ qsem'["res_queue_lock"] = qsem["res_queue_lock"]
        /\ \A u \in Workers : WorkerInResponseQueue(u)' <=> WorkerInResponseQueue(u)
        /\ DeqInResponseQueue' <=> DeqInResponseQueue
    BY <1>9 DEF WaitResult, WaitResponseSpace, WriteResponse, PostResponse,
       WorkerInResponseQueue, DeqInResponseQueue
  <2> QED
    BY <2>1 DEF ResponseQueueLock
<1> QED
  BY <1>1, <1>2, <1>3, <1>4, <1>5, <1>6, <1>7, <1>8, <1>9 DEF ServerNext,
     RequestThreadStep, WorkerStep, ResponseThreadStep

-----------------------------------------------------------------------------
(* What the slots hold.                                                    *)

\* The request slot is filled by WriteRequest, before anything says that it is full;
\* the response slot stays as it is.
LEMMA ClientKeepsSlotsFilled ==
  ASSUME TypeOK, RequestPermit, ResponsePermit, SlotsFilled, ClientNext, UNCHANGED serverVars
  PROVE  SlotsFilled'
<1> USE DEF TypeOK, ShmTypeOK, ClientTypeOK, ServerTypeOK, ShmSems, QueueSems
<1>1. ASSUME NEW c \in Clients, WaitRequestSpace(c)
      PROVE  SlotsFilled'
  BY <1>1 DEF WaitRequestSpace, RequestPermit, ServerInRequestSlot,
     ClientInRequestSlot, SlotsFilled, RequestSlotFull, ResponseSlotFull,
     ClientInResponseSlot
<1>2. ASSUME NEW c \in Clients, WriteRequest(c)
      PROVE  SlotsFilled'
  BY <1>2 DEF WriteRequest, Busy, BusyLabels, RequestPermit, ServerInRequestSlot,
     ClientInRequestSlot, SlotsFilled, RequestSlotFull, ResponseSlotFull,
     ClientInResponseSlot
<1>3. ASSUME NEW c \in Clients, PostRequest(c)
      PROVE  SlotsFilled'
  BY <1>3 DEF PostRequest, SlotsFilled, RequestSlotFull, ResponseSlotFull,
     ClientInResponseSlot
<1>4. ASSUME NEW c \in Clients, WaitResponse(c)
      PROVE  SlotsFilled'
  BY <1>4 DEF WaitResponse, SlotsFilled, RequestSlotFull, ResponseSlotFull,
     ClientInResponseSlot
<1>5. ASSUME NEW c \in Clients, CheckResponse(c)
      PROVE  SlotsFilled'
  BY <1>5 DEF CheckResponse, SlotsFilled, RequestSlotFull, ResponseSlotFull,
     ClientInResponseSlot
<1>6. ASSUME NEW c \in Clients, RepostResponse(c)
      PROVE  SlotsFilled'
  BY <1>6 DEF RepostResponse, SlotsFilled, RequestSlotFull, ResponseSlotFull,
     ClientInResponseSlot
<1>7. ASSUME NEW c \in Clients, ReleaseResponse(c)
      PROVE  SlotsFilled'
  BY <1>7 DEF ReleaseResponse, SlotsFilled, RequestSlotFull, ResponseSlotFull,
     ClientInResponseSlot
<1>8. ASSUME NEW c \in Clients,
             \/ CreateRequest(c)
             \/ LeaveLoop(c)
      PROVE  SlotsFilled'
  BY <1>8 DEF CreateRequest, LeaveLoop, SlotsFilled, RequestSlotFull,
     ResponseSlotFull, ClientInResponseSlot
<1>9. ASSUME \/ \E c \in Clients : SpawnThread(c)
             \/ \E p \in Procs : JoinThreads(p)
             \/ \E p \in Procs : ReturnFromMain(p)
             \/ \E p \in Procs : DrainOneExit(p)
             \/ \E p \in Procs : ExitFromHandler(p)
             \/ \E p \in Procs : Sigint(p)
      PROVE  SlotsFilled'
  BY <1>9 DEF SpawnThread, JoinThreads, ReturnFromMain, DrainOneExit,
     ExitFromHandler, Sigint, SlotsFilled, RequestSlotFull, ResponseSlotFull,
     ClientInResponseSlot
<1> QED
  BY <1>1, <1>2, <1>3, <1>4, <1>5, <1>6, <1>7, <1>8, <1>9 DEF ClientNext,
     ThreadStep, MainStep, Threads

\* The response slot is filled by WriteResponse, before anything says that it is
\* full; the request slot stays as it is.
LEMMA ServerKeepsSlotsFilled ==
  ASSUME TypeOK, RequestPermit, ResponsePermit, SlotsFilled, ServerNext, UNCHANGED clientVars
  PROVE  SlotsFilled'
<1> USE DEF TypeOK, ShmTypeOK, ClientTypeOK, ServerTypeOK, ShmSems, QueueSems
<1>1. ASSUME WaitRequest
      PROVE  SlotsFilled'
  BY <1>1 DEF WaitRequest, SlotsFilled, RequestSlotFull, ResponseSlotFull,
     ClientInResponseSlot
<1>2. ASSUME CopyRequest
      PROVE  SlotsFilled'
  BY <1>2 DEF CopyRequest, SlotsFilled, RequestSlotFull, ResponseSlotFull,
     ClientInResponseSlot
<1>3. ASSUME WaitResponseSpace
      PROVE  SlotsFilled'
  BY <1>3 DEF WaitResponseSpace, ResponsePermit, ServerInResponseSlot, SlotsFilled,
     RequestSlotFull, ResponseSlotFull, ClientInResponseSlot
<1>4. ASSUME WriteResponse
      PROVE  SlotsFilled'
  BY <1>4 DEF WriteResponse, DeqHolds, ResponsePermit, ServerInResponseSlot,
     SlotsFilled, RequestSlotFull, ResponseSlotFull, ClientInResponseSlot
<1>5. ASSUME PostResponse
      PROVE  SlotsFilled'
  BY <1>5 DEF PostResponse, SlotsFilled, RequestSlotFull, ResponseSlotFull,
     ClientInResponseSlot
<1>6. ASSUME \/ ReleaseRequestSlot
             \/ LockForEnqueue
             \/ PushRequest
             \/ UnlockAfterEnqueue
             \/ AnnounceRequest
      PROVE  SlotsFilled'
  BY <1>6 DEF ReleaseRequestSlot, LockForEnqueue, PushRequest, UnlockAfterEnqueue,
     AnnounceRequest, SlotsFilled, RequestSlotFull, ResponseSlotFull,
     ClientInResponseSlot
<1>7. ASSUME NEW w \in Workers,
             \/ TakeTicket(w)
             \/ LockForDequeue(w)
             \/ PopRequest(w)
             \/ UnlockAfterDequeue(w)
             \/ Process(w)
             \/ LockForResponse(w)
             \/ PushResponse(w)
             \/ UnlockAfterResponse(w)
             \/ AnnounceResponse(w)
      PROVE  SlotsFilled'
  BY <1>7 DEF TakeTicket, LockForDequeue, PopRequest, UnlockAfterDequeue, Process,
     LockForResponse, PushResponse, UnlockAfterResponse, AnnounceResponse,
     SlotsFilled, RequestSlotFull, ResponseSlotFull, ClientInResponseSlot
<1>8. ASSUME \/ WaitResult
             \/ LockForResult
             \/ PopResult
             \/ UnlockAfterResult
      PROVE  SlotsFilled'
  BY <1>8 DEF WaitResult, LockForResult, PopResult, UnlockAfterResult, SlotsFilled,
     RequestSlotFull, ResponseSlotFull, ClientInResponseSlot
<1> QED
  BY <1>1, <1>2, <1>3, <1>4, <1>5, <1>6, <1>7, <1>8 DEF ServerNext,
     RequestThreadStep, WorkerStep, ResponseThreadStep

-----------------------------------------------------------------------------
(* The size semaphores of the two queues.                                  *)

\* A thread about to pop holds a ticket, and each ticket stands for an element.
LEMMA TicketsFillQueues ==
  ASSUME TypeOK, RequestTickets, ResponseTickets
  PROVE  NoPopFromEmptyQueue
<1> USE ServerAssumption DEF TypeOK, ServerTypeOK, QueueSems
<1>1. ASSUME NEW w \in Workers, wpc[w] = "pop"
      PROVE  requestQueue # <<>>
  <2>1. IsFiniteSet(TicketHolders) /\ w \in TicketHolders
    BY <1>1, FS_Subset DEF TicketHolders
  <2>2. Cardinality(TicketHolders) \in Nat \ {0}
    BY <2>1, FS_EmptySet, FS_CardinalityType
  <2> QED
    BY <2>2, EmptySeq DEF RequestTickets, One
<1>2. ASSUME rpc = "pop"
      PROVE  responseQueue # <<>>
  <2>1. IsFiniteSet(ResponseUnannounced)
    BY FS_Subset DEF ResponseUnannounced
  <2>2. Cardinality(ResponseUnannounced) \in Nat
    BY <2>1, FS_CardinalityType
  <2> QED
    BY <1>2, <2>2, EmptySeq DEF ResponseTickets, One, ResultTicket
<1> QED
  BY <1>1, <1>2 DEF NoPopFromEmptyQueue

\* Every request in the queue stays announced, promised or about to be announced.
LEMMA RequestTicketsKept ==
  ASSUME TypeOK, RequestTickets, NoPopFromEmptyQueue, ServerNext, UNCHANGED clientVars
  PROVE  RequestTickets'
<1> USE ServerAssumption DEF TypeOK, ServerTypeOK, QueueSems
<1>1. ASSUME PushRequest
      PROVE  RequestTickets'
  <2>1. TicketHolders' = TicketHolders /\ Cardinality(TicketHolders) \in Nat
    BY <1>1, FS_Subset, FS_CardinalityType DEF PushRequest, TicketHolders
  <2> QED
    BY <1>1, <2>1, AppendProperties DEF PushRequest, RequestTickets,
       RequestUnannounced, One, EnqHolds
<1>2. ASSUME UnlockAfterEnqueue
      PROVE  RequestTickets'
  <2>1. TicketHolders' = TicketHolders /\ Cardinality(TicketHolders) \in Nat
    BY <1>2, FS_Subset, FS_CardinalityType DEF UnlockAfterEnqueue, TicketHolders
  <2> QED
    BY <1>2, <2>1 DEF UnlockAfterEnqueue, RequestTickets, RequestUnannounced, One
<1>3. ASSUME AnnounceRequest
      PROVE  RequestTickets'
  <2>1. TicketHolders' = TicketHolders /\ Cardinality(TicketHolders) \in Nat
    BY <1>3, FS_Subset, FS_CardinalityType DEF AnnounceRequest, TicketHolders
  <2> QED
    BY <1>3, <2>1 DEF AnnounceRequest, RequestTickets, RequestUnannounced, One
<1>4. ASSUME NEW w \in Workers, TakeTicket(w)
      PROVE  RequestTickets'
  <2>1. TicketHolders' = TicketHolders \cup {w} /\ w \notin TicketHolders
    BY <1>4 DEF TakeTicket, TicketHolders, WorkLabels
  <2>2. IsFiniteSet(TicketHolders) /\ Cardinality(TicketHolders) \in Nat
    BY FS_Subset, FS_CardinalityType DEF TicketHolders
  <2>3. Cardinality(TicketHolders') = Cardinality(TicketHolders) + 1
    BY <2>1, <2>2, FS_AddElement
  <2> QED
    BY <1>4, <2>2, <2>3 DEF TakeTicket, RequestTickets, RequestUnannounced, One
<1>5. ASSUME NEW w \in Workers, PopRequest(w)
      PROVE  RequestTickets'
  <2>1. TicketHolders' = TicketHolders \ {w} /\ w \in TicketHolders
    BY <1>5 DEF PopRequest, TicketHolders, WorkLabels
  <2>2. IsFiniteSet(TicketHolders) /\ Cardinality(TicketHolders) \in Nat
    BY FS_Subset, FS_CardinalityType DEF TicketHolders
  <2>3. Cardinality(TicketHolders') = Cardinality(TicketHolders) - 1
    BY <2>1, <2>2, FS_RemoveElement
  <2> QED
    BY <1>5, <2>2, <2>3, HeadTailProperties DEF PopRequest, RequestTickets,
       RequestUnannounced, One, NoPopFromEmptyQueue
<1>6. ASSUME \/ WaitRequest
             \/ CopyRequest
             \/ ReleaseRequestSlot
             \/ LockForEnqueue
      PROVE  RequestTickets'
  <2>1. /\ requestQueue' = requestQueue
        /\ qsem'["req_queue_size"] = qsem["req_queue_size"]
        /\ TicketHolders' = TicketHolders
        /\ RequestUnannounced' <=> RequestUnannounced
    BY <1>6 DEF WaitRequest, CopyRequest, ReleaseRequestSlot, LockForEnqueue,
       TicketHolders, RequestUnannounced
  <2> QED
    BY <2>1 DEF RequestTickets, One
<1>7. ASSUME NEW w \in Workers,
             \/ LockForDequeue(w)
             \/ UnlockAfterDequeue(w)
             \/ Process(w)
             \/ LockForResponse(w)
             \/ PushResponse(w)
             \/ UnlockAfterResponse(w)
             \/ AnnounceResponse(w)
      PROVE  RequestTickets'
  <2>1. /\ requestQueue' = requestQueue
        /\ qsem'["req_queue_size"] = qsem["req_queue_size"]
        /\ TicketHolders' = TicketHolders
        /\ RequestUnannounced' <=> RequestUnannounced
    BY <1>7 DEF LockForDequeue, UnlockAfterDequeue, Process, LockForResponse,
       PushResponse, UnlockAfterResponse, AnnounceResponse, TicketHolders,
       RequestUnannounced
  <2> QED
    BY <2>1 DEF RequestTickets, One
<1>8. ASSUME \/ WaitResult
             \/ LockForResult
             \/ PopResult
             \/ UnlockAfterResult
             \/ WaitResponseSpace
             \/ WriteResponse
             \/ PostResponse
      PROVE  RequestTickets'
  <2>1. /\ requestQueue' = requestQueue
        /\ qsem'["req_queue_size"] = qsem["req_queue_size"]
        /\ TicketHolders' = TicketHolders
        /\ RequestUnannounced' <=> RequestUnannounced
    BY <1>8 DEF WaitResult, LockForResult, PopResult, UnlockAfterResult,
       WaitResponseSpace, WriteResponse, PostResponse, TicketHolders,
       RequestUnannounced
  <2> QED
    BY <2>1 DEF RequestTickets, One
<1> QED
  BY <1>1, <1>2, <1>3, <1>4, <1>5, <1>6, <1>7, <1>8 DEF ServerNext,
     RequestThreadStep, WorkerStep, ResponseThreadStep

\* Every response in the queue stays announced, promised or about to be announced.
LEMMA ResponseTicketsKept ==
  ASSUME TypeOK, ResponseTickets, NoPopFromEmptyQueue, ServerNext, UNCHANGED clientVars
  PROVE  ResponseTickets'
<1> USE ServerAssumption DEF TypeOK, ServerTypeOK, QueueSems
<1>1. ASSUME NEW w \in Workers, PushResponse(w)
      PROVE  ResponseTickets'
  <2>1. ResponseUnannounced' = ResponseUnannounced \cup {w} /\ w \notin ResponseUnannounced
    BY <1>1 DEF PushResponse, ResponseUnannounced, WorkLabels
  <2>2. IsFiniteSet(ResponseUnannounced) /\ Cardinality(ResponseUnannounced) \in Nat
    BY FS_Subset, FS_CardinalityType DEF ResponseUnannounced
  <2>3. Cardinality(ResponseUnannounced') = Cardinality(ResponseUnannounced) + 1
    BY <2>1, <2>2, FS_AddElement
  <2> QED
    BY <1>1, <2>2, <2>3, AppendProperties DEF PushResponse, ResponseTickets,
       ResultTicket, One, WorkDone
<1>2. ASSUME NEW w \in Workers, UnlockAfterResponse(w)
      PROVE  ResponseTickets'
  <2>1. ResponseUnannounced' = ResponseUnannounced
    BY <1>2 DEF UnlockAfterResponse, ResponseUnannounced, WorkLabels
  <2>2. IsFiniteSet(ResponseUnannounced) /\ Cardinality(ResponseUnannounced) \in Nat
    BY FS_Subset, FS_CardinalityType DEF ResponseUnannounced
  <2> QED
    BY <1>2, <2>1, <2>2 DEF UnlockAfterResponse, ResponseTickets, ResultTicket, One
<1>3. ASSUME NEW w \in Workers, AnnounceResponse(w)
      PROVE  ResponseTickets'
  <2>1. ResponseUnannounced' = ResponseUnannounced \ {w} /\ w \in ResponseUnannounced
    BY <1>3 DEF AnnounceResponse, ResponseUnannounced, WorkLabels
  <2>2. IsFiniteSet(ResponseUnannounced) /\ Cardinality(ResponseUnannounced) \in Nat
    BY FS_Subset, FS_CardinalityType DEF ResponseUnannounced
  <2>3. Cardinality(ResponseUnannounced') = Cardinality(ResponseUnannounced) - 1
    BY <2>1, <2>2, FS_RemoveElement
  <2> QED
    BY <1>3, <2>2, <2>3 DEF AnnounceResponse, ResponseTickets, ResultTicket, One
<1>4. ASSUME WaitResult
      PROVE  ResponseTickets'
  <2>1. ResponseUnannounced' = ResponseUnannounced /\ Cardinality(ResponseUnannounced) \in Nat
    BY <1>4, FS_Subset, FS_CardinalityType DEF WaitResult, ResponseUnannounced
  <2> QED
    BY <1>4, <2>1 DEF WaitResult, ResponseTickets, ResultTicket, One
<1>5. ASSUME LockForResult
      PROVE  ResponseTickets'
  <2>1. ResponseUnannounced' = ResponseUnannounced /\ Cardinality(ResponseUnannounced) \in Nat
    BY <1>5, FS_Subset, FS_CardinalityType DEF LockForResult, ResponseUnannounced
  <2> QED
    BY <1>5, <2>1 DEF LockForResult, ResponseTickets, ResultTicket, One
<1>6. ASSUME PopResult
      PROVE  ResponseTickets'
  <2>1. ResponseUnannounced' = ResponseUnannounced /\ Cardinality(ResponseUnannounced) \in Nat
    BY <1>6, FS_Subset, FS_CardinalityType DEF PopResult, ResponseUnannounced
  <2>2. Len(responseQueue') = Len(responseQueue) - 1 /\ Len(responseQueue) \in Nat
    BY <1>6, HeadTailProperties DEF PopResult, NoPopFromEmptyQueue
  <2> QED
    BY <1>6, <2>1, <2>2 DEF PopResult, ResponseTickets, ResultTicket, One
<1>7. ASSUME \/ WaitRequest
             \/ CopyRequest
             \/ ReleaseRequestSlot
             \/ LockForEnqueue
             \/ PushRequest
             \/ UnlockAfterEnqueue
             \/ AnnounceRequest
      PROVE  ResponseTickets'
  <2>1. /\ responseQueue' = responseQueue
        /\ qsem'["res_queue_size"] = qsem["res_queue_size"]
        /\ ResponseUnannounced' = ResponseUnannounced
        /\ ResultTicket' <=> ResultTicket
    BY <1>7 DEF WaitRequest, CopyRequest, ReleaseRequestSlot, LockForEnqueue,
       PushRequest, UnlockAfterEnqueue, AnnounceRequest, ResponseUnannounced,
       ResultTicket
  <2> QED
    BY <2>1 DEF ResponseTickets, One
<1>8. ASSUME NEW w \in Workers,
             \/ TakeTicket(w)
             \/ LockForDequeue(w)
             \/ PopRequest(w)
             \/ UnlockAfterDequeue(w)
             \/ Process(w)
             \/ LockForResponse(w)
      PROVE  ResponseTickets'
  <2>1. /\ responseQueue' = responseQueue
        /\ qsem'["res_queue_size"] = qsem["res_queue_size"]
        /\ ResponseUnannounced' = ResponseUnannounced
        /\ ResultTicket' <=> ResultTicket
    BY <1>8 DEF TakeTicket, LockForDequeue, PopRequest, UnlockAfterDequeue,
       Process, LockForResponse, ResponseUnannounced, ResultTicket
  <2> QED
    BY <2>1 DEF ResponseTickets, One
<1>9. ASSUME \/ UnlockAfterResult
             \/ WaitResponseSpace
             \/ WriteResponse
             \/ PostResponse
      PROVE  ResponseTickets'
  <2>1. /\ responseQueue' = responseQueue
        /\ qsem'["res_queue_size"] = qsem["res_queue_size"]
        /\ ResponseUnannounced' = ResponseUnannounced
        /\ ResultTicket' <=> ResultTicket
    BY <1>9 DEF UnlockAfterResult, WaitResponseSpace, WriteResponse, PostResponse,
       ResponseUnannounced, ResultTicket
  <2> QED
    BY <2>1 DEF ResponseTickets, One
<1> QED
  BY <1>1, <1>2, <1>3, <1>4, <1>5, <1>6, <1>7, <1>8, <1>9 DEF ServerNext,
     RequestThreadStep, WorkerStep, ResponseThreadStep

-----------------------------------------------------------------------------
(* The end of a client process.                                            *)

\* A post of threads_safe_exit for each thread that has left its loop; a process that
\* is over has collected them all or joined them all.
LEMMA ExitTicketsKept ==
  ASSUME TypeOK, ExitTickets, ClientNext, UNCHANGED serverVars
  PROVE  ExitTickets'
<1> USE ClientAssumption DEF TypeOK, ClientTypeOK
<1>1. ASSUME NEW c \in Clients, LeaveLoop(c)
      PROVE  ExitTickets'
  <2> DEFINE p == Home[c]
  <2>1. /\ Exited(p)' = Exited(p) \cup {c} /\ c \notin Exited(p)
        /\ \A o \in Procs \ {p} : Exited(o)' = Exited(o)
    BY <1>1 DEF LeaveLoop, Exited, ThreadLabels
  <2>2. IsFiniteSet(Exited(p)) /\ Cardinality(Exited(p)) \in Nat
    BY FS_Subset, FS_CardinalityType DEF Exited
  <2>3. Cardinality(Exited(p)') = Cardinality(Exited(p)) + 1
    BY <2>1, <2>2, FS_AddElement
  <2>4. p \in Procs /\ c \in Threads(p)
    BY DEF Threads
  <2>5. mpc[p] \notin {"joined", "finished", "aborted"}
    BY <2>1, <2>4 DEF ExitTickets
  <2>6. /\ threads_safe_exit'[p] + drained'[p] = Cardinality(Exited(p)')
        /\ \A o \in Procs \ {p} : threads_safe_exit'[o] = threads_safe_exit[o]
        /\ drained' = drained /\ mpc' = mpc
    BY <1>1, <2>2, <2>3, <2>4 DEF LeaveLoop, ExitTickets
  <2> HIDE DEF p
  <2> QED
    BY <2>1, <2>5, <2>6 DEF ExitTickets
<1>2. ASSUME NEW c \in Clients, SpawnThread(c)
      PROVE  ExitTickets'
  <2>1. \A o \in Procs : Exited(o)' = Exited(o)
    BY <1>2 DEF SpawnThread, Exited, ThreadLabels
  <2> QED
    BY <1>2, <2>1 DEF SpawnThread, ExitTickets
<1>3. ASSUME NEW p \in Procs, JoinThreads(p)
      PROVE  ExitTickets'
  <2>1. \A o \in Procs : Exited(o)' = Exited(o)
    BY <1>3 DEF JoinThreads, Exited
  <2>2. Exited(p) = Threads(p)
    BY <1>3 DEF JoinThreads, Exited, Threads
  <2> QED
    BY <1>3, <2>1, <2>2 DEF JoinThreads, ExitTickets
<1>4. ASSUME NEW p \in Procs, ReturnFromMain(p)
      PROVE  ExitTickets'
  <2>1. \A o \in Procs : Exited(o)' = Exited(o)
    BY <1>4 DEF ReturnFromMain, Exited
  <2> QED
    BY <1>4, <2>1 DEF ReturnFromMain, ExitTickets
<1>5. ASSUME NEW p \in Procs, DrainOneExit(p)
      PROVE  ExitTickets'
  <2>1. \A o \in Procs : Exited(o)' = Exited(o)
    BY <1>5 DEF DrainOneExit, Exited
  <2> QED
    BY <1>5, <2>1 DEF DrainOneExit, ExitTickets
<1>6. ASSUME NEW p \in Procs, ExitFromHandler(p)
      PROVE  ExitTickets'
  <2>1. \A o \in Procs : Exited(o)' = Exited(o)
    BY <1>6 DEF ExitFromHandler, Exited
  <2>2. IsFiniteSet(Threads(p)) /\ Exited(p) \subseteq Threads(p)
    BY FS_Subset DEF Threads, Exited
  <2>3. IsFiniteSet(Exited(p)) /\ Cardinality(Exited(p)) \in Nat
    BY <2>2, FS_Subset, FS_CardinalityType
  <2>4. Cardinality(Threads(p)) \in Nat /\ Cardinality(Exited(p)) <= Cardinality(Threads(p))
    BY <2>2, FS_Subset, FS_CardinalityType
  <2>5. Cardinality(Exited(p)) = Cardinality(Threads(p))
    BY <1>6, <2>3, <2>4 DEF ExitFromHandler, ExitTickets
  <2>6. Exited(p) = Threads(p)
    BY <2>2, <2>5, FS_Subset
  <2> QED
    BY <1>6, <2>1, <2>6 DEF ExitFromHandler, ExitTickets
<1>7. ASSUME NEW p \in Procs, Sigint(p)
      PROVE  ExitTickets'
  <2>1. \A o \in Procs : Exited(o)' = Exited(o)
    BY <1>7 DEF Sigint, Exited
  <2> QED
    BY <1>7, <2>1 DEF Sigint, ExitTickets
<1>8. ASSUME NEW c \in Clients,
             \/ CreateRequest(c)
             \/ WaitRequestSpace(c)
             \/ WriteRequest(c)
             \/ PostRequest(c)
             \/ WaitResponse(c)
             \/ CheckResponse(c)
             \/ RepostResponse(c)
             \/ ReleaseResponse(c)
      PROVE  ExitTickets'
  <2>1. /\ \A o \in Procs : Exited(o)' = Exited(o)
        /\ UNCHANGED <<threads_safe_exit, drained, mpc>>
    BY <1>8 DEF CreateRequest, WaitRequestSpace, WriteRequest, PostRequest,
       WaitResponse, CheckResponse, RepostResponse, ReleaseResponse, Exited,
       ThreadLabels
  <2> QED
    BY <2>1 DEF ExitTickets
<1> QED
  BY <1>1, <1>2, <1>3, <1>4, <1>5, <1>6, <1>7, <1>8 DEF ClientNext, ThreadStep,
     MainStep, Threads

-----------------------------------------------------------------------------
(* The invariant, and what follows from it.                                *)

LEMMA InitEstablishesIInv ==
  ASSUME Init
  PROVE  IInv
<1> USE DEF Init, ShmInit, ClientInit, ServerInit
<1>1. TypeOK
  BY EmptySeq DEF TypeOK, ShmTypeOK, ClientTypeOK, ServerTypeOK, ShmSems, QueueSems,
     ThreadLabels, Busy, BusyLabels, MainLabels, EnqLabels, EnqHolds, WorkLabels,
     WorkHolds, WorkDone, DeqLabels, DeqHolds
<1>2. RequestPermit /\ ResponsePermit
  BY DEF RequestPermit, ResponsePermit, ShmSems, ClientInRequestSlot,
     ServerInRequestSlot, ClientInResponseSlot, ServerInResponseSlot
<1>3. RequestQueueLock /\ ResponseQueueLock
  BY DEF RequestQueueLock, ResponseQueueLock, QueueSems, WorkerInRequestQueue,
     EnqInRequestQueue, WorkerInResponseQueue, DeqInResponseQueue
<1>4. TicketHolders = {} /\ ResponseUnannounced = {}
  BY DEF TicketHolders, ResponseUnannounced
<1>5. Len(requestQueue) = 0 /\ Len(responseQueue) = 0
  OBVIOUS
<1>6. RequestTickets /\ ResponseTickets
  BY <1>4, <1>5, FS_EmptySet DEF RequestTickets, ResponseTickets, One, QueueSems,
     RequestUnannounced, ResultTicket
<1>7. SlotsFilled
  <2>1. sem["req_available"] = 0 /\ sem["res_available"] = 0
    BY DEF ShmSems
  <2>2. ~RequestSlotFull /\ ~ResponseSlotFull
    BY <2>1 DEF RequestSlotFull, ResponseSlotFull, ClientInResponseSlot
  <2> QED
    BY <2>2 DEF SlotsFilled
<1>8. \A p \in Procs : Exited(p) = {}
  BY DEF Exited
<1>9. ExitTickets
  <2>1. \A p \in Procs : Cardinality(Exited(p)) = 0
    BY <1>8, FS_EmptySet
  <2>2. \A p \in Procs : threads_safe_exit[p] + drained[p] = 0 /\ mpc[p] = "spawning"
    OBVIOUS
  <2> QED
    BY <2>1, <2>2 DEF ExitTickets
<1> QED
  BY <1>1, <1>2, <1>3, <1>6, <1>7, <1>9 DEF IInv

\* Each kind of step disturbs some parts of the invariant; the others are
\* functions of variables that it leaves alone.
LEMMA NextKeepsIInv ==
  ASSUME IInv, [Next]_vars
  PROVE  IInv'
<1> USE DEF IInv
<1>0. NoPopFromEmptyQueue
  BY TicketsFillQueues
<1>1. ASSUME ClientNext, UNCHANGED serverVars
      PROVE  IInv'
  <2>1. TypeOK'
    BY <1>1, ClientKeepsTypes DEF TypeOK, ServerTypeOK
  <2>2. RequestPermit' /\ ResponsePermit'
    BY <1>1, ClientKeepsRequestPermit, ClientKeepsResponsePermit
  <2>3. RequestQueueLock' /\ ResponseQueueLock'
    BY <1>1 DEF RequestQueueLock, ResponseQueueLock, WorkerInRequestQueue,
       EnqInRequestQueue, WorkerInResponseQueue, DeqInResponseQueue
  <2>4. RequestTickets' /\ ResponseTickets'
    BY <1>1 DEF RequestTickets, ResponseTickets, TicketHolders, RequestUnannounced,
       ResponseUnannounced, ResultTicket
  <2>5. SlotsFilled'
    BY <1>1, ClientKeepsSlotsFilled
  <2>6. ExitTickets'
    BY <1>1, ExitTicketsKept
  <2> QED
    BY <2>1, <2>2, <2>3, <2>4, <2>5, <2>6
<1>2. ASSUME ServerNext, UNCHANGED clientVars
      PROVE  IInv'
  <2>1. TypeOK'
    BY <1>0, <1>2, ServerKeepsTypes DEF TypeOK, ClientTypeOK, Busy, SlotsFilled,
       RequestSlotFull
  <2>2. RequestPermit' /\ ResponsePermit'
    BY <1>2, ServerKeepsRequestPermit, ServerKeepsResponsePermit
  <2>3. RequestQueueLock' /\ ResponseQueueLock'
    BY <1>2, RequestQueueLockKept, ResponseQueueLockKept
  <2>4. RequestTickets' /\ ResponseTickets'
    BY <1>0, <1>2, RequestTicketsKept, ResponseTicketsKept
  <2>5. SlotsFilled'
    BY <1>2, ServerKeepsSlotsFilled
  <2>6. ExitTickets'
    BY <1>2 DEF ExitTickets, Exited
  <2> QED
    BY <2>1, <2>2, <2>3, <2>4, <2>5, <2>6
<1>3. ASSUME UNCHANGED vars
      PROVE  IInv'
  <2>1. TypeOK'
    BY <1>3 DEF TypeOK, ShmTypeOK, ClientTypeOK, ServerTypeOK, Busy
  <2>2. RequestPermit' /\ ResponsePermit'
    BY <1>3 DEF RequestPermit, ResponsePermit, ClientInRequestSlot,
       ServerInRequestSlot, ClientInResponseSlot, ServerInResponseSlot
  <2>3. RequestQueueLock' /\ ResponseQueueLock'
    BY <1>3 DEF RequestQueueLock, ResponseQueueLock, WorkerInRequestQueue,
       EnqInRequestQueue, WorkerInResponseQueue, DeqInResponseQueue
  <2>4. RequestTickets' /\ ResponseTickets'
    BY <1>3 DEF RequestTickets, ResponseTickets, TicketHolders, RequestUnannounced,
       ResponseUnannounced, ResultTicket
  <2>5. SlotsFilled'
    BY <1>3 DEF SlotsFilled, RequestSlotFull, ResponseSlotFull, ClientInResponseSlot
  <2>6. ExitTickets'
    BY <1>3 DEF ExitTickets, Exited
  <2> QED
    BY <2>1, <2>2, <2>3, <2>4, <2>5, <2>6
<1> QED
  BY <1>1, <1>2, <1>3 DEF Next

\* The inductive invariant holds of every state, for any sets of clients,
\* processes and workers.
THEOREM Invariance == Spec => []IInv
<1>1. Init => IInv
  BY InitEstablishesIInv
<1>2. IInv /\ [Next]_vars => IInv'
  BY NextKeepsIInv
<1> QED
  BY <1>1, <1>2, PTL DEF Spec

\* The variables keep their types: whatever the interleaving, what is read from a
\* slot or popped from a queue is a request, or a response, that was put there.
THEOREM TypeCorrect == Spec => []TypeOK
BY Invariance, PTL DEF IInv

\* The request slot is in one hand at a time, without the commented-out
\* req_buffer_lock, for any number of client threads.
THEOREM RequestSlotIsExclusive == Spec => []RequestSlotExclusive
<1>1. IInv => RequestSlotExclusive
  BY DEF IInv, RequestPermit, RequestSlotExclusive
<1> QED
  BY <1>1, Invariance, PTL

\* The response slot is in one hand at a time, without the commented-out
\* res_buffer_lock, for any number of client threads.
THEOREM ResponseSlotIsExclusive == Spec => []ResponseSlotExclusive
<1>1. IInv => ResponseSlotExclusive
  BY DEF IInv, ResponsePermit, ResponseSlotExclusive
<1> QED
  BY <1>1, Invariance, PTL

\* Each queue is used by one thread at a time, for any number of workers.
THEOREM QueuesAreExclusive == Spec => []QueuesExclusive
<1>1. IInv => QueuesExclusive
  BY DEF IInv, RequestQueueLock, ResponseQueueLock, QueuesExclusive
<1> QED
  BY <1>1, Invariance, PTL

\* No thread pops an empty queue, for any number of workers.
THEOREM NoEmptyPop == Spec => []NoPopFromEmptyQueue
<1>1. IInv => NoPopFromEmptyQueue
  BY TicketsFillQueues DEF IInv
<1> QED
  BY <1>1, Invariance, PTL

\* No permit of a slot or of a queue lock is ever lost.
THEOREM PermitsKept == Spec => []NoPermitLost
<1>1. IInv => NoPermitLost
  BY DEF IInv, RequestPermit, ResponsePermit, RequestQueueLock, ResponseQueueLock,
     NoPermitLost
<1> QED
  BY <1>1, Invariance, PTL

\* A client process is gone only when all its request threads have left, for any
\* number of processes and of threads.
THEOREM ExitsAfterThreads == Spec => []ExitsOnlyWhenThreadsLeft
<1>1. IInv => ExitsOnlyWhenThreadsLeft
  BY DEF IInv, ExitTickets, ExitsOnlyWhenThreadsLeft, Gone, Exited, Threads
<1> QED
  BY <1>1, Invariance, PTL
=============================================================================
