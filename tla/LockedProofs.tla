---------------------------- MODULE LockedProofs ----------------------------
(***************************************************************************)
(* Proofs that LockedIInv is an inductive invariant of each pair of        *)
(* programs of trial/, for any sets of clients, processes and workers, any *)
(* ids and values and any bound of draws, and of the safety properties     *)
(* that follow from it.  Each part of the invariant looks at a few         *)
(* variables only: an action predicate named ...Still says that a step     *)
(* leaves those alone, most steps do, and each of the others is a case of  *)
(* its own.                                                                *)
(***************************************************************************)
EXTENDS LockedInv, SequenceTheorems, FiniteSetTheorems, TLAPS

USE DEF lockedVars, timedVars, timedServerVars, serverMainVars, lockVars,
        shmVars, clientVars, serverVars, threadVars, processVars,
        queueVars, enqVars, workVars, deqVars,
        Goto, EGoto, WGoto, RGoto, SemWait, SemPost,
        Lock, Unlock, NoLock, Walk, EWalk, RWalk, WWalk, Drop, PostExit

-----------------------------------------------------------------------------
(* Types.                                                                  *)

\* The reply to a request is a response.
LEMMA ReplyTyped ==
  ASSUME NEW q \in Requests, NEW bag \in [Values -> Nat]
  PROVE  Reply(q, bag) \in Responses
<1>1. q.requestid \in Ids /\ q.operation \in Ops
  BY DEF Requests
<1>2. Present(bag, q.value) \in BOOLEAN
  BY DEF Present
<1> QED
  BY <1>1, <1>2 DEF Reply, Responses, ReturnTypes

\* A client step keeps the types: what is written to the request slot is a request,
\* because its thread has created one.
LEMMA ClientKeepsTypes ==
  ASSUME LockedTypes, LockedClientNext, UNCHANGED timedServerVars
  PROVE  ShmTypeOK' /\ LockTypes' /\ ClientTypes'
<1> USE ClientAssumption, TimedClientAssumption DEF LockedTypes, ShmTypeOK, LockTypes,
        ClientTypes, LockedClientTypeOK, ShmSems
<1>1. ASSUME NEW c \in Clients, NoLock, DrawRequest(c)
      PROVE  ShmTypeOK' /\ LockTypes' /\ ClientTypes'
  BY <1>1 DEF DrawRequest, Requests, ThreadLabels, BusyLabels, LockedLabels
<1>2. ASSUME NEW c \in Clients, NoLock, SpawnThread(c)
      PROVE  ShmTypeOK' /\ LockTypes' /\ ClientTypes'
  BY <1>2 DEF SpawnThread, ThreadLabels, BusyLabels, LockedLabels, MainLabels, Threads
<1>3. ASSUME NEW c \in Clients, NoLock, ReleaseResponse(c)
      PROVE  ShmTypeOK' /\ LockTypes' /\ ClientTypes'
  BY <1>3 DEF ReleaseResponse, ThreadLabels, BusyLabels, LockedLabels
<1>4. ASSUME NEW c \in Clients, MissSpaceOrLock(c)
      PROVE  ShmTypeOK' /\ LockTypes' /\ ClientTypes'
  BY <1>4 DEF MissSpaceOrLock, ThreadLabels, BusyLabels, LockedLabels
<1>5. ASSUME NEW p \in Procs, ExitAtOnce(p)
      PROVE  ShmTypeOK' /\ LockTypes' /\ ClientTypes'
  BY <1>5 DEF ExitAtOnce, ThreadLabels, BusyLabels, LockedLabels, MainLabels
<1>6. ASSUME NEW c \in Clients, NoLock,
             \/ WaitRequestSpace(c) \/ GiveUpSending(c) \/ WriteRequest(c)
             \/ PostRequest(c)
      PROVE  ShmTypeOK' /\ LockTypes' /\ ClientTypes'
  BY <1>6 DEF WaitRequestSpace, GiveUpSending, WriteRequest, PostRequest, ThreadLabels,
     BusyLabels, LockedLabels, MainLabels
<1>7. ASSUME NEW c \in Clients,
             \/ TakeSpace(c) \/ LockRequest(c) \/ WriteLocked(c) \/ UnlockRequest(c)
      PROVE  ShmTypeOK' /\ LockTypes' /\ ClientTypes'
  BY <1>7 DEF TakeSpace, LockRequest, WriteLocked, UnlockRequest, ThreadLabels,
     BusyLabels, LockedLabels, MainLabels
<1>8. ASSUME NEW c \in Clients,
             \/ MissSpaceGoOn(c) \/ LockRequestAndForget(c) \/ MissSpaceAndLock(c)
             \/ MissLockOnly(c)
      PROVE  ShmTypeOK' /\ LockTypes' /\ ClientTypes'
  BY <1>8 DEF MissSpaceGoOn, LockRequestAndForget, MissSpaceAndLock, MissLockOnly,
     ThreadLabels, BusyLabels, LockedLabels, MainLabels
<1>9. ASSUME NEW c \in Clients, ReturnSpace(c)
      PROVE  ShmTypeOK' /\ LockTypes' /\ ClientTypes'
  BY <1>9 DEF ReturnSpace, ThreadLabels, BusyLabels, LockedLabels, MainLabels
<1>10. ASSUME NEW c \in Clients, NoLock,
             \/ PollAgain(c) \/ GiveUpResponse(c) \/ TakeResponse(c) \/ MissResponse(c)
      PROVE  ShmTypeOK' /\ LockTypes' /\ ClientTypes'
  BY <1>10 DEF PollAgain, GiveUpResponse, TakeResponse, MissResponse, ThreadLabels,
     BusyLabels, LockedLabels, MainLabels
<1>11. ASSUME NEW c \in Clients, NoLock,
             \/ CheckResponse(c) \/ RepostResponse(c) \/ LeaveLoop(c)
      PROVE  ShmTypeOK' /\ LockTypes' /\ ClientTypes'
  BY <1>11 DEF CheckResponse, RepostResponse, LeaveLoop, ThreadLabels, BusyLabels,
     LockedLabels, MainLabels
<1>12. ASSUME NEW c \in Clients,
             \/ TakePermit(c) \/ LockResponse(c) \/ CheckLocked(c) \/ UnlockOther(c)
      PROVE  ShmTypeOK' /\ LockTypes' /\ ClientTypes'
  BY <1>12 DEF TakePermit, LockResponse, CheckLocked, UnlockOther, ThreadLabels,
     BusyLabels, LockedLabels, MainLabels
<1>13. ASSUME NEW c \in Clients,
             \/ UnlockMine(c) \/ KeepFound(c) \/ AbandonFound(c) \/ LosePermit(c)
      PROVE  ShmTypeOK' /\ LockTypes' /\ ClientTypes'
  BY <1>13 DEF UnlockMine, KeepFound, AbandonFound, LosePermit, ThreadLabels,
     BusyLabels, LockedLabels, MainLabels
<1>14. ASSUME NEW c \in Clients,
             \/ MissResponseGoOn(c) \/ LockResponseAndForget(c) \/ MissResponseAndLock(c)
             \/ MissResponseLock(c)
      PROVE  ShmTypeOK' /\ LockTypes' /\ ClientTypes'
  BY <1>14 DEF MissResponseGoOn, LockResponseAndForget, MissResponseAndLock,
     MissResponseLock, ThreadLabels, BusyLabels, LockedLabels, MainLabels
<1>15. ASSUME NEW c \in Clients, ReturnPermit(c)
      PROVE  ShmTypeOK' /\ LockTypes' /\ ClientTypes'
  BY <1>15 DEF ReturnPermit, ThreadLabels, BusyLabels, LockedLabels, MainLabels
<1>16. ASSUME NEW p \in Procs, NoLock,
             \/ JoinThreads(p) \/ ReturnFromMain(p) \/ DrainOneExit(p) \/ JoinAndExit(p)
      PROVE  ShmTypeOK' /\ LockTypes' /\ ClientTypes'
  BY <1>16 DEF JoinThreads, ReturnFromMain, DrainOneExit, JoinAndExit, ThreadLabels,
     BusyLabels, LockedLabels, MainLabels
<1>17. ASSUME NEW p \in Procs, NoLock, Sigint(p)
      PROVE  ShmTypeOK' /\ LockTypes' /\ ClientTypes'
  BY <1>17 DEF Sigint, ThreadLabels, BusyLabels, LockedLabels, MainLabels
<1> QED
  BY <1>1, <1>2, <1>3, <1>4, <1>5, <1>6, <1>7, <1>8, <1>9, <1>10, <1>11, <1>12, <1>13,
     <1>14, <1>15, <1>16, <1>17 DEF LockedClientNext, LockedThreadStep, TimedThreadStep,
     Client2Step, Client3Step, Client4Step, Client5Step, SendLocked, SendOrReturnSpace,
     ReceiveLocked, KeepFoundIfRunning, LockedMainStep, TimedMainStep, Threads

\* A step of the request thread keeps the types: the request slot is filled when it
\* is copied.
LEMMA RequestThreadKeepsTypes ==
  ASSUME LockedTypes, NoPopFromEmptyQueue, RequestSlotFilled, LockedRequestThreadStep
  PROVE  ShmTypeOK' /\ LockTypes' /\ QueueTypes' /\ ServerMainTypes' /\ EnqTypes'
<1> USE DEF LockedTypes, ShmTypeOK, LockTypes, ServerTypes, QueueTypes, ShmSems,
        QueueSems, ServerMainTypes, EnqTypes
<1>1. ASSUME NoLock, UNCHANGED serverMainVars, CopyRequest
      PROVE  ShmTypeOK' /\ LockTypes' /\ QueueTypes' /\ ServerMainTypes' /\ EnqTypes'
  BY <1>1 DEF CopyRequest, RequestSlotFilled, EnqLabels, EnqHolds
<1>2. ASSUME CopyLocked
      PROVE  ShmTypeOK' /\ LockTypes' /\ QueueTypes' /\ ServerMainTypes' /\ EnqTypes'
  BY <1>2 DEF CopyLocked, RequestSlotFilled, EnqLabels, EnqHolds
<1>3. ASSUME NoLock, UNCHANGED serverMainVars, PushRequest
      PROVE  ShmTypeOK' /\ LockTypes' /\ QueueTypes' /\ ServerMainTypes' /\ EnqTypes'
  BY <1>3 DEF PushRequest, EnqLabels, EnqHolds
<1>4. ASSUME NoLock, UNCHANGED serverMainVars, ReleaseRequestSlot
      PROVE  ShmTypeOK' /\ LockTypes' /\ QueueTypes' /\ ServerMainTypes' /\ EnqTypes'
  BY <1>4 DEF ReleaseRequestSlot, EnqLabels, EnqHolds
<1>5. ASSUME NoLock, UNCHANGED serverMainVars, LockForEnqueue
      PROVE  ShmTypeOK' /\ LockTypes' /\ QueueTypes' /\ ServerMainTypes' /\ EnqTypes'
  BY <1>5 DEF LockForEnqueue, EnqLabels, EnqHolds
<1>6. ASSUME NoLock, UNCHANGED serverMainVars, UnlockAfterEnqueue
      PROVE  ShmTypeOK' /\ LockTypes' /\ QueueTypes' /\ ServerMainTypes' /\ EnqTypes'
  BY <1>6 DEF UnlockAfterEnqueue, EnqLabels, EnqHolds
<1>7. ASSUME NoLock, UNCHANGED serverMainVars, AnnounceRequest
      PROVE  ShmTypeOK' /\ LockTypes' /\ QueueTypes' /\ ServerMainTypes' /\ EnqTypes'
  BY <1>7 DEF AnnounceRequest, EnqLabels, EnqHolds
<1>8. ASSUME NoLock, ETop
      PROVE  ShmTypeOK' /\ LockTypes' /\ QueueTypes' /\ ServerMainTypes' /\ EnqTypes'
  BY <1>8 DEF ETop, EnqLabels, EnqHolds
<1>9. ASSUME NoLock, ELeave
      PROVE  ShmTypeOK' /\ LockTypes' /\ QueueTypes' /\ ServerMainTypes' /\ EnqTypes'
  BY <1>9 DEF ELeave, EnqLabels, EnqHolds
<1>10. ASSUME NoLock, WaitRequestInTime
      PROVE  ShmTypeOK' /\ LockTypes' /\ QueueTypes' /\ ServerMainTypes' /\ EnqTypes'
  BY <1>10 DEF WaitRequestInTime, EnqLabels, EnqHolds
<1>11. ASSUME NoLock, MissRequest
      PROVE  ShmTypeOK' /\ LockTypes' /\ QueueTypes' /\ ServerMainTypes' /\ EnqTypes'
  BY <1>11 DEF MissRequest, EnqLabels, EnqHolds
<1>12. ASSUME NoLock, IgnoreRequest
      PROVE  ShmTypeOK' /\ LockTypes' /\ QueueTypes' /\ ServerMainTypes' /\ EnqTypes'
  BY <1>12 DEF IgnoreRequest, EnqLabels, EnqHolds
<1>13. ASSUME TakeRequest
      PROVE  ShmTypeOK' /\ LockTypes' /\ QueueTypes' /\ ServerMainTypes' /\ EnqTypes'
  BY <1>13 DEF TakeRequest, EnqLabels, EnqHolds
<1>14. ASSUME LockRequestBuffer
      PROVE  ShmTypeOK' /\ LockTypes' /\ QueueTypes' /\ ServerMainTypes' /\ EnqTypes'
  BY <1>14 DEF LockRequestBuffer, EnqLabels, EnqHolds
<1>15. ASSUME UnlockRequestBuffer
      PROVE  ShmTypeOK' /\ LockTypes' /\ QueueTypes' /\ ServerMainTypes' /\ EnqTypes'
  BY <1>15 DEF UnlockRequestBuffer, EnqLabels, EnqHolds
<1>16. ASSUME MissRequestOrLock
      PROVE  ShmTypeOK' /\ LockTypes' /\ QueueTypes' /\ ServerMainTypes' /\ EnqTypes'
  BY <1>16 DEF MissRequestOrLock, EnqLabels, EnqHolds
<1> QED
  BY <1>1, <1>2, <1>3, <1>4, <1>5, <1>6, <1>7, <1>8, <1>9, <1>10, <1>11, <1>12, <1>13,
     <1>14, <1>15, <1>16 DEF LockedRequestThreadStep, TimedRequestThreadStep,
     Server2Request, Server3Request, EnqueueLocked

\* A step of a processing thread keeps the types: the queue is not empty when it is
\* popped.
LEMMA WorkerKeepsTypes ==
  ASSUME LockedTypes, NoPopFromEmptyQueue, RequestSlotFilled, NEW w \in Workers,
         LockedWorkerStep(w)
  PROVE  ShmTypeOK' /\ LockTypes' /\ QueueTypes' /\ ServerMainTypes' /\ WorkTypes'
<1> USE DEF LockedTypes, ShmTypeOK, LockTypes, ServerTypes, QueueTypes, ShmSems,
        QueueSems, ServerMainTypes, WorkTypes
<1>1. ASSUME NoLock, UNCHANGED serverMainVars, PopRequest(w)
      PROVE  ShmTypeOK' /\ LockTypes' /\ QueueTypes' /\ ServerMainTypes' /\ WorkTypes'
  BY <1>1, HeadTailProperties DEF PopRequest, NoPopFromEmptyQueue, WorkLabels,
     WorkHolds, WorkDone
<1>2. ASSUME NoLock, UNCHANGED serverMainVars, ProcessNoDelete(w)
      PROVE  ShmTypeOK' /\ LockTypes' /\ QueueTypes' /\ ServerMainTypes' /\ WorkTypes'
  <2>1. wpc[w] = "process" /\ wreq[w] \in Requests
    BY <1>2 DEF ProcessNoDelete, WorkHolds
  <2>2. store' \in [Values -> Nat]
    BY <1>2, <2>1 DEF ProcessNoDelete, After, Requests
  <2>3. /\ Reply(wreq[w], store) \in Responses
        /\ [requestid |-> wreq[w].requestid, returntype |-> "FAILURE", result |-> FALSE]
             \in Responses
    BY <2>1, ReplyTyped DEF Requests, Responses, ReturnTypes
  <2>4. wres' \in [Workers -> Responses \cup {ZeroResponse}] /\ wres'[w] \in Responses
        /\ \A u \in Workers \ {w} : wres'[u] = wres[u]
    BY <1>2, <2>3 DEF ProcessNoDelete
  <2>5. /\ wpc' \in [Workers -> WorkLabels \cup
                        {"unborn", "ticket", "lock_anyway", "give_back", "exited"}]
        /\ wpc'[w] = "lock_res" /\ \A u \in Workers \ {w} : wpc'[u] = wpc[u]
    BY <1>2 DEF ProcessNoDelete, WorkLabels
  <2> QED
    BY <1>2, <2>1, <2>2, <2>4, <2>5 DEF ProcessNoDelete, WorkHolds, WorkDone
<1>3. ASSUME NoLock, UNCHANGED serverMainVars, PushResponse(w)
      PROVE  ShmTypeOK' /\ LockTypes' /\ QueueTypes' /\ ServerMainTypes' /\ WorkTypes'
  BY <1>3 DEF PushResponse, WorkLabels, WorkHolds, WorkDone
<1>4. ASSUME NoLock, UNCHANGED serverMainVars, AnnounceResponse(w)
      PROVE  ShmTypeOK' /\ LockTypes' /\ QueueTypes' /\ ServerMainTypes' /\ WorkTypes'
  BY <1>4 DEF AnnounceResponse, WorkLabels, WorkHolds, WorkDone
<1>5. ASSUME NoLock, DropResponse(w)
      PROVE  ShmTypeOK' /\ LockTypes' /\ QueueTypes' /\ ServerMainTypes' /\ WorkTypes'
  BY <1>5 DEF DropResponse, WorkLabels, WorkHolds, WorkDone
<1>6. ASSUME NoLock, UNCHANGED serverMainVars, TakeTicket(w)
      PROVE  ShmTypeOK' /\ LockTypes' /\ QueueTypes' /\ ServerMainTypes' /\ WorkTypes'
  BY <1>6 DEF TakeTicket, WorkLabels, WorkHolds, WorkDone
<1>7. ASSUME NoLock, UNCHANGED serverMainVars, LockForDequeue(w)
      PROVE  ShmTypeOK' /\ LockTypes' /\ QueueTypes' /\ ServerMainTypes' /\ WorkTypes'
  BY <1>7 DEF LockForDequeue, WorkLabels, WorkHolds, WorkDone
<1>8. ASSUME NoLock, UNCHANGED serverMainVars, UnlockAfterDequeue(w)
      PROVE  ShmTypeOK' /\ LockTypes' /\ QueueTypes' /\ ServerMainTypes' /\ WorkTypes'
  BY <1>8 DEF UnlockAfterDequeue, WorkLabels, WorkHolds, WorkDone
<1>9. ASSUME NoLock, UNCHANGED serverMainVars, LockForResponse(w)
      PROVE  ShmTypeOK' /\ LockTypes' /\ QueueTypes' /\ ServerMainTypes' /\ WorkTypes'
  BY <1>9 DEF LockForResponse, WorkLabels, WorkHolds, WorkDone
<1>10. ASSUME NoLock, UNCHANGED serverMainVars, UnlockAfterResponse(w)
      PROVE  ShmTypeOK' /\ LockTypes' /\ QueueTypes' /\ ServerMainTypes' /\ WorkTypes'
  BY <1>10 DEF UnlockAfterResponse, WorkLabels, WorkHolds, WorkDone
<1>11. ASSUME NoLock, WTop(w)
      PROVE  ShmTypeOK' /\ LockTypes' /\ QueueTypes' /\ ServerMainTypes' /\ WorkTypes'
  BY <1>11 DEF WTop, WorkLabels, WorkHolds, WorkDone
<1>12. ASSUME NoLock, WLeave(w)
      PROVE  ShmTypeOK' /\ LockTypes' /\ QueueTypes' /\ ServerMainTypes' /\ WorkTypes'
  BY <1>12 DEF WLeave, WorkLabels, WorkHolds, WorkDone
<1>13. ASSUME NoLock, TakeTicketInTime(w)
      PROVE  ShmTypeOK' /\ LockTypes' /\ QueueTypes' /\ ServerMainTypes' /\ WorkTypes'
  BY <1>13 DEF TakeTicketInTime, WorkLabels, WorkHolds, WorkDone
<1>14. ASSUME NoLock, MissTicket(w)
      PROVE  ShmTypeOK' /\ LockTypes' /\ QueueTypes' /\ ServerMainTypes' /\ WorkTypes'
  BY <1>14 DEF MissTicket, WorkLabels, WorkHolds, WorkDone
<1>15. ASSUME NoLock, LockAndForget(w)
      PROVE  ShmTypeOK' /\ LockTypes' /\ QueueTypes' /\ ServerMainTypes' /\ WorkTypes'
  BY <1>15 DEF LockAndForget, WorkLabels, WorkHolds, WorkDone
<1>16. ASSUME NoLock, MissBoth(w)
      PROVE  ShmTypeOK' /\ LockTypes' /\ QueueTypes' /\ ServerMainTypes' /\ WorkTypes'
  BY <1>16 DEF MissBoth, WorkLabels, WorkHolds, WorkDone
<1>17. ASSUME NoLock, MissLock(w)
      PROVE  ShmTypeOK' /\ LockTypes' /\ QueueTypes' /\ ServerMainTypes' /\ WorkTypes'
  BY <1>17 DEF MissLock, WorkLabels, WorkHolds, WorkDone
<1>18. ASSUME NoLock, GiveTicketBack(w)
      PROVE  ShmTypeOK' /\ LockTypes' /\ QueueTypes' /\ ServerMainTypes' /\ WorkTypes'
  BY <1>18 DEF GiveTicketBack, WorkLabels, WorkHolds, WorkDone
<1>19. ASSUME MissTicketAndTurn(w)
      PROVE  ShmTypeOK' /\ LockTypes' /\ QueueTypes' /\ ServerMainTypes' /\ WorkTypes'
  BY <1>19 DEF MissTicketAndTurn, WorkLabels, WorkHolds, WorkDone
<1>20. ASSUME LoseTicket(w)
      PROVE  ShmTypeOK' /\ LockTypes' /\ QueueTypes' /\ ServerMainTypes' /\ WorkTypes'
  BY <1>20 DEF LoseTicket, WorkLabels, WorkHolds, WorkDone
<1> QED
  BY <1>1, <1>2, <1>3, <1>4, <1>5, <1>6, <1>7, <1>8, <1>9, <1>10, <1>11, <1>12, <1>13,
     <1>14, <1>15, <1>16, <1>17, <1>18, <1>19, <1>20 DEF LockedWorkerStep,
     TimedWorkerStep, TimedProcess, Server2Work, Server3Work, WorkLocked

\* A step of the response thread keeps the types: the queue is not empty when it is
\* popped.
LEMMA ResponseThreadKeepsTypes ==
  ASSUME LockedTypes, NoPopFromEmptyQueue, RequestSlotFilled, LockedResponseThreadStep
  PROVE  ShmTypeOK' /\ LockTypes' /\ QueueTypes' /\ ServerMainTypes' /\ DeqTypes'
<1> USE DEF LockedTypes, ShmTypeOK, LockTypes, ServerTypes, QueueTypes, ShmSems,
        QueueSems, ServerMainTypes, DeqTypes
<1>1. ASSUME NoLock, UNCHANGED serverMainVars, PopResult
      PROVE  ShmTypeOK' /\ LockTypes' /\ QueueTypes' /\ ServerMainTypes' /\ DeqTypes'
  BY <1>1, HeadTailProperties DEF PopResult, NoPopFromEmptyQueue, DeqLabels, DeqHolds
<1>2. ASSUME NoLock, UNCHANGED serverMainVars, WaitResult
      PROVE  ShmTypeOK' /\ LockTypes' /\ QueueTypes' /\ ServerMainTypes' /\ DeqTypes'
  BY <1>2 DEF WaitResult, DeqLabels, DeqHolds
<1>3. ASSUME NoLock, UNCHANGED serverMainVars, LockForResult
      PROVE  ShmTypeOK' /\ LockTypes' /\ QueueTypes' /\ ServerMainTypes' /\ DeqTypes'
  BY <1>3 DEF LockForResult, DeqLabels, DeqHolds
<1>4. ASSUME NoLock, UNCHANGED serverMainVars, UnlockAfterResult
      PROVE  ShmTypeOK' /\ LockTypes' /\ QueueTypes' /\ ServerMainTypes' /\ DeqTypes'
  BY <1>4 DEF UnlockAfterResult, DeqLabels, DeqHolds
<1>5. ASSUME NoLock, UNCHANGED serverMainVars, WaitResponseSpace
      PROVE  ShmTypeOK' /\ LockTypes' /\ QueueTypes' /\ ServerMainTypes' /\ DeqTypes'
  BY <1>5 DEF WaitResponseSpace, DeqLabels, DeqHolds
<1>6. ASSUME NoLock, UNCHANGED serverMainVars, WriteResponse
      PROVE  ShmTypeOK' /\ LockTypes' /\ QueueTypes' /\ ServerMainTypes' /\ DeqTypes'
  BY <1>6 DEF WriteResponse, DeqLabels, DeqHolds
<1>7. ASSUME NoLock, UNCHANGED serverMainVars, PostResponse
      PROVE  ShmTypeOK' /\ LockTypes' /\ QueueTypes' /\ ServerMainTypes' /\ DeqTypes'
  BY <1>7 DEF PostResponse, DeqLabels, DeqHolds
<1>8. ASSUME NoLock, RTop
      PROVE  ShmTypeOK' /\ LockTypes' /\ QueueTypes' /\ ServerMainTypes' /\ DeqTypes'
  BY <1>8 DEF RTop, DeqLabels, DeqHolds
<1>9. ASSUME NoLock, RLeave
      PROVE  ShmTypeOK' /\ LockTypes' /\ QueueTypes' /\ ServerMainTypes' /\ DeqTypes'
  BY <1>9 DEF RLeave, DeqLabels, DeqHolds
<1>10. ASSUME NoLock, WaitResultInTime
      PROVE  ShmTypeOK' /\ LockTypes' /\ QueueTypes' /\ ServerMainTypes' /\ DeqTypes'
  BY <1>10 DEF WaitResultInTime, DeqLabels, DeqHolds
<1>11. ASSUME NoLock, MissResult
      PROVE  ShmTypeOK' /\ LockTypes' /\ QueueTypes' /\ ServerMainTypes' /\ DeqTypes'
  BY <1>11 DEF MissResult, DeqLabels, DeqHolds
<1>12. ASSUME NoLock, LockResultsAndForget
      PROVE  ShmTypeOK' /\ LockTypes' /\ QueueTypes' /\ ServerMainTypes' /\ DeqTypes'
  BY <1>12 DEF LockResultsAndForget, DeqLabels, DeqHolds
<1>13. ASSUME NoLock, MissResultAndLock
      PROVE  ShmTypeOK' /\ LockTypes' /\ QueueTypes' /\ ServerMainTypes' /\ DeqTypes'
  BY <1>13 DEF MissResultAndLock, DeqLabels, DeqHolds
<1>14. ASSUME NoLock, MissResultLock
      PROVE  ShmTypeOK' /\ LockTypes' /\ QueueTypes' /\ ServerMainTypes' /\ DeqTypes'
  BY <1>14 DEF MissResultLock, DeqLabels, DeqHolds
<1>15. ASSUME NoLock, GiveResultBack
      PROVE  ShmTypeOK' /\ LockTypes' /\ QueueTypes' /\ ServerMainTypes' /\ DeqTypes'
  BY <1>15 DEF GiveResultBack, DeqLabels, DeqHolds
<1>16. ASSUME NoLock, ForceSpace
      PROVE  ShmTypeOK' /\ LockTypes' /\ QueueTypes' /\ ServerMainTypes' /\ DeqTypes'
  BY <1>16 DEF ForceSpace, DeqLabels, DeqHolds
<1>17. ASSUME TakeResponseSpace
      PROVE  ShmTypeOK' /\ LockTypes' /\ QueueTypes' /\ ServerMainTypes' /\ DeqTypes'
  BY <1>17 DEF TakeResponseSpace, DeqLabels, DeqHolds
<1>18. ASSUME LockResponseBuffer
      PROVE  ShmTypeOK' /\ LockTypes' /\ QueueTypes' /\ ServerMainTypes' /\ DeqTypes'
  BY <1>18 DEF LockResponseBuffer, DeqLabels, DeqHolds
<1>19. ASSUME WriteLockedResponse
      PROVE  ShmTypeOK' /\ LockTypes' /\ QueueTypes' /\ ServerMainTypes' /\ DeqTypes'
  BY <1>19 DEF WriteLockedResponse, DeqLabels, DeqHolds
<1>20. ASSUME UnlockResponseBuffer
      PROVE  ShmTypeOK' /\ LockTypes' /\ QueueTypes' /\ ServerMainTypes' /\ DeqTypes'
  BY <1>20 DEF UnlockResponseBuffer, DeqLabels, DeqHolds
<1>21. ASSUME WriteAnyway
      PROVE  ShmTypeOK' /\ LockTypes' /\ QueueTypes' /\ ServerMainTypes' /\ DeqTypes'
  BY <1>21 DEF WriteAnyway, DeqLabels, DeqHolds
<1>22. ASSUME MissSpaceAnyway
      PROVE  ShmTypeOK' /\ LockTypes' /\ QueueTypes' /\ ServerMainTypes' /\ DeqTypes'
  BY <1>22 DEF MissSpaceAnyway, DeqLabels, DeqHolds
<1>23. ASSUME LockAndDrop
      PROVE  ShmTypeOK' /\ LockTypes' /\ QueueTypes' /\ ServerMainTypes' /\ DeqTypes'
  BY <1>23 DEF LockAndDrop, DeqLabels, DeqHolds
<1>24. ASSUME MissAndDrop
      PROVE  ShmTypeOK' /\ LockTypes' /\ QueueTypes' /\ ServerMainTypes' /\ DeqTypes'
  BY <1>24 DEF MissAndDrop, DeqLabels, DeqHolds
<1>25. ASSUME DropWithSpace
      PROVE  ShmTypeOK' /\ LockTypes' /\ QueueTypes' /\ ServerMainTypes' /\ DeqTypes'
  BY <1>25 DEF DropWithSpace, DeqLabels, DeqHolds
<1>26. ASSUME MissResponseBuffer
      PROVE  ShmTypeOK' /\ LockTypes' /\ QueueTypes' /\ ServerMainTypes' /\ DeqTypes'
  BY <1>26 DEF MissResponseBuffer, DeqLabels, DeqHolds
<1>27. ASSUME ReturnSpaceAndDrop
      PROVE  ShmTypeOK' /\ LockTypes' /\ QueueTypes' /\ ServerMainTypes' /\ DeqTypes'
  BY <1>27 DEF ReturnSpaceAndDrop, DeqLabels, DeqHolds
<1>28. ASSUME MissResultAndTurn
      PROVE  ShmTypeOK' /\ LockTypes' /\ QueueTypes' /\ ServerMainTypes' /\ DeqTypes'
  BY <1>28 DEF MissResultAndTurn, DeqLabels, DeqHolds
<1>29. ASSUME LoseResult
      PROVE  ShmTypeOK' /\ LockTypes' /\ QueueTypes' /\ ServerMainTypes' /\ DeqTypes'
  BY <1>29 DEF LoseResult, DeqLabels, DeqHolds
<1> QED
  BY <1>1, <1>2, <1>3, <1>4, <1>5, <1>6, <1>7, <1>8, <1>9, <1>10, <1>11, <1>12, <1>13,
     <1>14, <1>15, <1>16, <1>17, <1>18, <1>19, <1>20, <1>21, <1>22, <1>23, <1>24, <1>25,
     <1>26, <1>27, <1>28, <1>29 DEF LockedResponseThreadStep, TimedResponseThreadStep,
     Server2Response, Server3Response, Server5Response, DequeueLocked

\* The main thread of the server, and SIGINT.
ServerMain ==
  \/ LockedServerMainStep
  \/ trial \in {1, 3} /\ ServerSigint /\ NoLock
  \/ trial \in {2, 4, 5} /\ ServerExitsAtOnce

\* A step of the main thread of the server keeps the types.
LEMMA ServerMainKeepsTypes ==
  ASSUME LockedTypes, ServerMain
  PROVE  ShmTypeOK' /\ LockTypes' /\ ServerTypes'
<1> USE DEF LockedTypes, ShmTypeOK, LockTypes, ServerTypes, QueueTypes, ShmSems,
        QueueSems, ServerMainTypes, EnqTypes, WorkTypes, DeqTypes
<1>1. ASSUME NoLock, SpawnServerThread
      PROVE  ShmTypeOK' /\ LockTypes' /\ ServerTypes'
  <2>1. EnqTypes' /\ DeqTypes' /\ ServerMainTypes'
    BY <1>1 DEF SpawnServerThread, EnqLabels, EnqHolds, DeqLabels, DeqHolds
  <2>2. WorkTypes'
    BY <1>1 DEF SpawnServerThread, WorkLabels, WorkHolds, WorkDone
  <2> QED
    BY <1>1, <2>1, <2>2 DEF SpawnServerThread
<1>2. ASSUME ServerExitsAtOnce
      PROVE  ShmTypeOK' /\ LockTypes' /\ ServerTypes'
  BY <1>2 DEF ServerExitsAtOnce, EnqLabels, EnqHolds, WorkLabels, WorkHolds, WorkDone,
     DeqLabels, DeqHolds
<1>3. ASSUME NoLock, DrainServerExit
      PROVE  ShmTypeOK' /\ LockTypes' /\ ServerTypes'
  BY <1>3 DEF DrainServerExit
<1>4. ASSUME NoLock, ServerExits
      PROVE  ShmTypeOK' /\ LockTypes' /\ ServerTypes'
  BY <1>4 DEF ServerExits
<1>5. ASSUME NoLock, ServerSigint
      PROVE  ShmTypeOK' /\ LockTypes' /\ ServerTypes'
  BY <1>5 DEF ServerSigint
<1> QED
  BY <1>1, <1>2, <1>3, <1>4, <1>5 DEF ServerMain, LockedServerMainStep

\* The request thread leaves the variables of the other threads of the server alone,
\* and the semaphores of the response side.
LEMMA RequestThreadAlone ==
  ASSUME LockedTypes, LockedRequestThreadStep
  PROVE  /\ UNCHANGED <<trial, workVars, deqVars, responseQueue, spc, sdrained>>
         /\ \A n \in {"res_available", "res_space_available"} : sem'[n] = sem[n]
         /\ \A m \in {"res_queue_size", "res_queue_lock"} : qsem'[m] = qsem[m]
<1> USE DEF LockedTypes, ShmTypeOK, ShmSems, LockTypes, ServerTypes, QueueTypes,
        QueueSems
<1>1. ASSUME NoLock, UNCHANGED serverMainVars,
             \/ CopyRequest \/ ReleaseRequestSlot \/ LockForEnqueue \/ PushRequest
             \/ UnlockAfterEnqueue \/ AnnounceRequest
      PROVE  /\ UNCHANGED <<trial, workVars, deqVars, responseQueue, spc, sdrained>>
             /\ \A n \in {"res_available", "res_space_available"} : sem'[n] = sem[n]
             /\ \A m \in {"res_queue_size", "res_queue_lock"} : qsem'[m] = qsem[m]
  BY <1>1 DEF CopyRequest, ReleaseRequestSlot, LockForEnqueue, PushRequest,
     UnlockAfterEnqueue, AnnounceRequest
<1>2. ASSUME NoLock,
             \/ ETop \/ ELeave \/ WaitRequestInTime \/ MissRequest \/ IgnoreRequest
      PROVE  /\ UNCHANGED <<trial, workVars, deqVars, responseQueue, spc, sdrained>>
             /\ \A n \in {"res_available", "res_space_available"} : sem'[n] = sem[n]
             /\ \A m \in {"res_queue_size", "res_queue_lock"} : qsem'[m] = qsem[m]
  BY <1>2 DEF ETop, ELeave, WaitRequestInTime, MissRequest, IgnoreRequest
<1>3. ASSUME \/ TakeRequest \/ LockRequestBuffer \/ CopyLocked \/ UnlockRequestBuffer
             \/ MissRequestOrLock
      PROVE  /\ UNCHANGED <<trial, workVars, deqVars, responseQueue, spc, sdrained>>
             /\ \A n \in {"res_available", "res_space_available"} : sem'[n] = sem[n]
             /\ \A m \in {"res_queue_size", "res_queue_lock"} : qsem'[m] = qsem[m]
  BY <1>3 DEF TakeRequest, LockRequestBuffer, CopyLocked, UnlockRequestBuffer,
     MissRequestOrLock
<1> QED
  BY <1>1, <1>2, <1>3 DEF LockedRequestThreadStep, TimedRequestThreadStep,
     Server2Request, Server3Request, EnqueueLocked

\* A processing thread leaves the segment and the variables of the other two kinds of
\* threads alone.
LEMMA WorkerAlone ==
  ASSUME LockedTypes, NEW w \in Workers, LockedWorkerStep(w)
  PROVE  UNCHANGED <<shmVars, lockVars, enqVars, deqVars, spc, sdrained>>
<1> USE DEF LockedTypes, ShmTypeOK, ShmSems, LockTypes, ServerTypes, QueueTypes,
        QueueSems
<1>1. ASSUME NoLock, UNCHANGED serverMainVars,
             \/ TakeTicket(w) \/ LockForDequeue(w) \/ PopRequest(w)
             \/ UnlockAfterDequeue(w) \/ ProcessNoDelete(w) \/ LockForResponse(w)
      PROVE  UNCHANGED <<shmVars, lockVars, enqVars, deqVars, spc, sdrained>>
  BY <1>1 DEF TakeTicket, LockForDequeue, PopRequest, UnlockAfterDequeue,
     ProcessNoDelete, LockForResponse
<1>2. ASSUME NoLock, UNCHANGED serverMainVars,
             \/ PushResponse(w) \/ UnlockAfterResponse(w) \/ AnnounceResponse(w)
      PROVE  UNCHANGED <<shmVars, lockVars, enqVars, deqVars, spc, sdrained>>
  BY <1>2 DEF PushResponse, UnlockAfterResponse, AnnounceResponse
<1>3. ASSUME NoLock,
             \/ WTop(w) \/ WLeave(w) \/ TakeTicketInTime(w) \/ MissTicket(w)
             \/ LockAndForget(w) \/ MissBoth(w)
      PROVE  UNCHANGED <<shmVars, lockVars, enqVars, deqVars, spc, sdrained>>
  BY <1>3 DEF WTop, WLeave, TakeTicketInTime, MissTicket, LockAndForget, MissBoth
<1>4. ASSUME NoLock,
             \/ MissLock(w) \/ GiveTicketBack(w) \/ DropResponse(w)
      PROVE  UNCHANGED <<shmVars, lockVars, enqVars, deqVars, spc, sdrained>>
  BY <1>4 DEF MissLock, GiveTicketBack, DropResponse
<1>5. ASSUME \/ MissTicketAndTurn(w) \/ LoseTicket(w)
      PROVE  UNCHANGED <<shmVars, lockVars, enqVars, deqVars, spc, sdrained>>
  BY <1>5 DEF MissTicketAndTurn, LoseTicket
<1> QED
  BY <1>1, <1>2, <1>3, <1>4, <1>5 DEF LockedWorkerStep, TimedWorkerStep, TimedProcess,
     Server2Work, Server3Work, WorkLocked

\* The response thread leaves the variables of the other threads of the server alone,
\* the request in its slot, and the semaphores of the request side.
LEMMA ResponseThreadAlone ==
  ASSUME LockedTypes, LockedResponseThreadStep
  PROVE  /\ UNCHANGED <<trial, enqVars, workVars, spc, sdrained>>
         /\ UNCHANGED <<request, requestQueue>>
         /\ \A n \in {"req_available", "req_space_available"} : sem'[n] = sem[n]
         /\ \A m \in {"req_queue_size", "req_queue_lock"} : qsem'[m] = qsem[m]
         /\ bsem'["req_buffer_lock"] = bsem["req_buffer_lock"]
<1> USE DEF LockedTypes, ShmTypeOK, ShmSems, LockTypes, ServerTypes, QueueTypes,
        QueueSems
<1>1. ASSUME NoLock, UNCHANGED serverMainVars,
             \/ WaitResult \/ LockForResult \/ PopResult \/ UnlockAfterResult
             \/ WaitResponseSpace \/ WriteResponse
      PROVE  /\ UNCHANGED <<trial, enqVars, workVars, spc, sdrained>>
             /\ UNCHANGED <<request, requestQueue>>
             /\ \A n \in {"req_available", "req_space_available"} : sem'[n] = sem[n]
             /\ \A m \in {"req_queue_size", "req_queue_lock"} : qsem'[m] = qsem[m]
             /\ bsem'["req_buffer_lock"] = bsem["req_buffer_lock"]
  BY <1>1 DEF WaitResult, LockForResult, PopResult, UnlockAfterResult,
     WaitResponseSpace, WriteResponse
<1>2. ASSUME NoLock, UNCHANGED serverMainVars, PostResponse
      PROVE  /\ UNCHANGED <<trial, enqVars, workVars, spc, sdrained>>
             /\ UNCHANGED <<request, requestQueue>>
             /\ \A n \in {"req_available", "req_space_available"} : sem'[n] = sem[n]
             /\ \A m \in {"req_queue_size", "req_queue_lock"} : qsem'[m] = qsem[m]
             /\ bsem'["req_buffer_lock"] = bsem["req_buffer_lock"]
  BY <1>2 DEF PostResponse
<1>3. ASSUME NoLock,
             \/ RTop \/ RLeave \/ WaitResultInTime \/ MissResult \/ LockResultsAndForget
             \/ MissResultAndLock
      PROVE  /\ UNCHANGED <<trial, enqVars, workVars, spc, sdrained>>
             /\ UNCHANGED <<request, requestQueue>>
             /\ \A n \in {"req_available", "req_space_available"} : sem'[n] = sem[n]
             /\ \A m \in {"req_queue_size", "req_queue_lock"} : qsem'[m] = qsem[m]
             /\ bsem'["req_buffer_lock"] = bsem["req_buffer_lock"]
  BY <1>3 DEF RTop, RLeave, WaitResultInTime, MissResult, LockResultsAndForget,
     MissResultAndLock
<1>4. ASSUME NoLock,
             \/ MissResultLock \/ GiveResultBack \/ ForceSpace
      PROVE  /\ UNCHANGED <<trial, enqVars, workVars, spc, sdrained>>
             /\ UNCHANGED <<request, requestQueue>>
             /\ \A n \in {"req_available", "req_space_available"} : sem'[n] = sem[n]
             /\ \A m \in {"req_queue_size", "req_queue_lock"} : qsem'[m] = qsem[m]
             /\ bsem'["req_buffer_lock"] = bsem["req_buffer_lock"]
  BY <1>4 DEF MissResultLock, GiveResultBack, ForceSpace
<1>5. ASSUME \/ TakeResponseSpace \/ LockResponseBuffer \/ WriteLockedResponse
             \/ UnlockResponseBuffer \/ WriteAnyway \/ MissSpaceAnyway
      PROVE  /\ UNCHANGED <<trial, enqVars, workVars, spc, sdrained>>
             /\ UNCHANGED <<request, requestQueue>>
             /\ \A n \in {"req_available", "req_space_available"} : sem'[n] = sem[n]
             /\ \A m \in {"req_queue_size", "req_queue_lock"} : qsem'[m] = qsem[m]
             /\ bsem'["req_buffer_lock"] = bsem["req_buffer_lock"]
  BY <1>5 DEF TakeResponseSpace, LockResponseBuffer, WriteLockedResponse,
     UnlockResponseBuffer, WriteAnyway, MissSpaceAnyway
<1>6. ASSUME \/ LockAndDrop \/ MissAndDrop \/ DropWithSpace \/ MissResponseBuffer
             \/ ReturnSpaceAndDrop \/ MissResultAndTurn
      PROVE  /\ UNCHANGED <<trial, enqVars, workVars, spc, sdrained>>
             /\ UNCHANGED <<request, requestQueue>>
             /\ \A n \in {"req_available", "req_space_available"} : sem'[n] = sem[n]
             /\ \A m \in {"req_queue_size", "req_queue_lock"} : qsem'[m] = qsem[m]
             /\ bsem'["req_buffer_lock"] = bsem["req_buffer_lock"]
  BY <1>6 DEF LockAndDrop, MissAndDrop, DropWithSpace, MissResponseBuffer,
     ReturnSpaceAndDrop, MissResultAndTurn
<1>7. ASSUME LoseResult
      PROVE  /\ UNCHANGED <<trial, enqVars, workVars, spc, sdrained>>
             /\ UNCHANGED <<request, requestQueue>>
             /\ \A n \in {"req_available", "req_space_available"} : sem'[n] = sem[n]
             /\ \A m \in {"req_queue_size", "req_queue_lock"} : qsem'[m] = qsem[m]
             /\ bsem'["req_buffer_lock"] = bsem["req_buffer_lock"]
  BY <1>7 DEF LoseResult
<1> QED
  BY <1>1, <1>2, <1>3, <1>4, <1>5, <1>6, <1>7 DEF LockedResponseThreadStep,
     TimedResponseThreadStep, Server2Response, Server3Response, Server5Response,
     DequeueLocked

-----------------------------------------------------------------------------
(* The ends of the programs.                                               *)

\* A program that has ended stays so, and the pair of programs is the same for ever.
NobodyBack ==
  /\ trial' = trial
  /\ spc = "finished" => spc' = "finished"
  /\ \A p \in Procs : mpc[p] = "finished" => mpc'[p] = "finished"

\* A client step brings nobody back.
LEMMA ClientNobodyBack ==
  ASSUME LockedTypes, LockedClientNext, UNCHANGED timedServerVars
  PROVE  NobodyBack
<1> USE DEF NobodyBack, LockedTypes, ClientTypes, LockedClientTypeOK
<1>1. ASSUME NEW c \in Clients, NoLock,
             \/ DrawRequest(c) \/ WaitRequestSpace(c) \/ GiveUpSending(c)
             \/ WriteRequest(c) \/ PostRequest(c)
      PROVE  NobodyBack
  BY <1>1 DEF DrawRequest, WaitRequestSpace, GiveUpSending, WriteRequest, PostRequest
<1>2. ASSUME NEW c \in Clients,
             \/ TakeSpace(c) \/ LockRequest(c) \/ WriteLocked(c) \/ UnlockRequest(c)
             \/ MissSpaceOrLock(c) \/ MissSpaceGoOn(c) \/ LockRequestAndForget(c)
             \/ MissSpaceAndLock(c) \/ MissLockOnly(c) \/ ReturnSpace(c)
      PROVE  NobodyBack
  BY <1>2 DEF TakeSpace, LockRequest, WriteLocked, UnlockRequest, MissSpaceOrLock,
     MissSpaceGoOn, LockRequestAndForget, MissSpaceAndLock, MissLockOnly, ReturnSpace
<1>3. ASSUME NEW c \in Clients, NoLock,
             \/ PollAgain(c) \/ GiveUpResponse(c) \/ TakeResponse(c) \/ MissResponse(c)
             \/ CheckResponse(c) \/ RepostResponse(c) \/ ReleaseResponse(c)
             \/ LeaveLoop(c)
      PROVE  NobodyBack
  BY <1>3 DEF PollAgain, GiveUpResponse, TakeResponse, MissResponse, CheckResponse,
     RepostResponse, ReleaseResponse, LeaveLoop
<1>4. ASSUME NEW c \in Clients,
             \/ TakePermit(c) \/ LockResponse(c) \/ CheckLocked(c) \/ UnlockOther(c)
             \/ UnlockMine(c) \/ KeepFound(c) \/ AbandonFound(c) \/ LosePermit(c)
             \/ MissResponseGoOn(c) \/ LockResponseAndForget(c) \/ MissResponseAndLock(c)
             \/ MissResponseLock(c) \/ ReturnPermit(c)
      PROVE  NobodyBack
  BY <1>4 DEF TakePermit, LockResponse, CheckLocked, UnlockOther, UnlockMine, KeepFound,
     AbandonFound, LosePermit, MissResponseGoOn, LockResponseAndForget,
     MissResponseAndLock, MissResponseLock, ReturnPermit
<1>5. ASSUME NEW c \in Clients, NoLock, SpawnThread(c)
      PROVE  NobodyBack
  BY <1>5 DEF SpawnThread
<1>6. ASSUME NEW p \in Procs, NoLock,
             \/ JoinThreads(p) \/ ReturnFromMain(p) \/ DrainOneExit(p) \/ JoinAndExit(p)
             \/ Sigint(p)
      PROVE  NobodyBack
  BY <1>6 DEF JoinThreads, ReturnFromMain, DrainOneExit, JoinAndExit, Sigint
<1>7. ASSUME NEW p \in Procs, ExitAtOnce(p)
      PROVE  NobodyBack
  BY <1>7 DEF ExitAtOnce
<1> QED
  BY <1>1, <1>2, <1>3, <1>4, <1>5, <1>6, <1>7 DEF LockedClientNext, LockedThreadStep,
     TimedThreadStep, Client2Step, Client3Step, Client4Step, Client5Step, SendLocked,
     SendOrReturnSpace, ReceiveLocked, KeepFoundIfRunning, LockedMainStep,
     TimedMainStep, Threads

\* A server step brings nobody back.
LEMMA ServerNobodyBack ==
  ASSUME LockedTypes, LockedServerNext, UNCHANGED clientVars
  PROVE  NobodyBack
<1> USE DEF NobodyBack
<1>1. ASSUME NoLock,
             \/ SpawnServerThread \/ DrainServerExit \/ ServerExits \/ ServerSigint
      PROVE  NobodyBack
  BY <1>1 DEF SpawnServerThread, DrainServerExit, ServerExits, ServerSigint
<1>2. ASSUME ServerExitsAtOnce
      PROVE  NobodyBack
  BY <1>2 DEF ServerExitsAtOnce
<1>3. ASSUME LockedRequestThreadStep
      PROVE  NobodyBack
  BY <1>3, RequestThreadAlone
<1>4. ASSUME NEW w \in Workers, LockedWorkerStep(w)
      PROVE  NobodyBack
  BY <1>4, WorkerAlone
<1>5. ASSUME LockedResponseThreadStep
      PROVE  NobodyBack
  BY <1>5, ResponseThreadAlone
<1> QED
  BY <1>1, <1>2, <1>3, <1>4, <1>5 DEF LockedServerNext, LockedServerMainStep

\* If nobody is cut off after a step, nobody was before.
LEMMA CutOffBefore ==
  ASSUME LockedTypes, LockedNext
  PROVE  NobodyBack /\ (NobodyCutOff' => NobodyCutOff)
<1>1. NobodyBack
  BY ClientNobodyBack, ServerNobodyBack DEF LockedNext
<1> QED
  BY <1>1 DEF NobodyBack, NobodyCutOff

-----------------------------------------------------------------------------
(* The permit of the request slot.                                         *)

\* In the pairs 2 and 3 a thread that comes to the lock of the request slot with the
\* permit finds it free.
LEMMA LockFreeWithPermit ==
  ASSUME RequestLockFollows
  PROVE  RequestLockFree
<1>1. epc = "lock_buffer" => ServerHasRequestPermit /\ ~ServerHasRequestLock
  BY DEF ServerHasRequestPermit, ServerHasRequestLock
<1>2. \A c \in Clients :
        cpc[c] = "lock_request" => HasRequestPermit(c) /\ ~ClientHasRequestLock(c)
  BY DEF HasRequestPermit, ClientHasRequestLock
<1> QED
  BY <1>1, <1>2 DEF RequestLockFollows, RequestLockFree

\* A step that leaves the permit of the request slot where it is.
RequestPermitStill ==
  /\ RequestPermitFree' = RequestPermitFree
  /\ ServerHasRequestPermit' <=> ServerHasRequestPermit
  /\ \A c \in Clients : HasRequestPermit(c)' <=> HasRequestPermit(c)

\* It keeps the invariants about that permit.
LEMMA RequestPermitStays ==
  ASSUME RequestPermitStill, NobodyCutOff' => NobodyCutOff,
         RequestPermitOnce, RequestPermitSomewhere
  PROVE  RequestPermitOnce' /\ RequestPermitSomewhere'
BY DEF RequestPermitStill, RequestPermitOnce, RequestPermitSomewhere

\* A client step takes the permit out of a semaphore, or puts it back, or carries it
\* along; a wait that fails at the lock would lose it, but that wait does not fail.
LEMMA ClientKeepsRequestPermit ==
  ASSUME LockedTypes, RequestPermitOnce, RequestPermitSomewhere, RequestLockFollows,
         NobodyCutOff' => NobodyCutOff, LockedClientNext, UNCHANGED timedServerVars
  PROVE  RequestPermitOnce' /\ RequestPermitSomewhere'
<1> USE DEF LockedTypes, ClientTypes, LockedClientTypeOK, ShmTypeOK, ShmSems
<1>1. ASSUME NEW c \in Clients, NoLock, WaitRequestSpace(c)
      PROVE  RequestPermitOnce' /\ RequestPermitSomewhere'
  BY <1>1 DEF WaitRequestSpace, RequestPermitFree, RequestPermitOnce,
     RequestPermitSomewhere, HasRequestPermit, ServerHasRequestPermit
<1>2. ASSUME NEW c \in Clients, NoLock, PostRequest(c)
      PROVE  RequestPermitOnce' /\ RequestPermitSomewhere'
  BY <1>2 DEF PostRequest, RequestPermitFree, RequestPermitOnce, RequestPermitSomewhere,
     HasRequestPermit, ServerHasRequestPermit
<1>3. ASSUME NEW c \in Clients, TakeSpace(c)
      PROVE  RequestPermitOnce' /\ RequestPermitSomewhere'
  BY <1>3 DEF TakeSpace, RequestPermitFree, RequestPermitOnce, RequestPermitSomewhere,
     HasRequestPermit, ServerHasRequestPermit
<1>4. ASSUME NEW c \in Clients, ReturnSpace(c)
      PROVE  RequestPermitOnce' /\ RequestPermitSomewhere'
  BY <1>4 DEF ReturnSpace, RequestPermitFree, RequestPermitOnce, RequestPermitSomewhere,
     HasRequestPermit, ServerHasRequestPermit
<1>5. ASSUME NEW c \in Clients, trial = 3, MissSpaceOrLock(c)
      PROVE  RequestPermitOnce' /\ RequestPermitSomewhere'
  <2>1. ~(cpc[c] = "lock_request" /\ bsem["req_buffer_lock"] = 0)
    BY <1>5, LockFreeWithPermit DEF RequestLockFree
  <2>2. RequestPermitStill
    BY <1>5, <2>1 DEF MissSpaceOrLock, RequestPermitFree, HasRequestPermit,
       ServerHasRequestPermit, RequestPermitStill
  <2> QED
    BY <2>2, RequestPermitStays
<1>6. ASSUME NEW p \in Procs, trial = 2, ExitAtOnce(p)
      PROVE  RequestPermitOnce' /\ RequestPermitSomewhere'
  <2>1. ~NobodyCutOff'
    BY <1>6 DEF ExitAtOnce, NobodyCutOff
  <2> QED
    BY <1>6, <2>1 DEF ExitAtOnce, RequestPermitFree, RequestPermitOnce,
       RequestPermitSomewhere, HasRequestPermit, ServerHasRequestPermit
<1>7. ASSUME NEW c \in Clients, NoLock,
             \/ DrawRequest(c) \/ GiveUpSending(c) \/ WriteRequest(c)
      PROVE  RequestPermitStill
  BY <1>7 DEF DrawRequest, GiveUpSending, WriteRequest, RequestPermitFree,
     HasRequestPermit, ServerHasRequestPermit, RequestPermitStill
<1>8. ASSUME NEW c \in Clients,
             \/ LockRequest(c) \/ WriteLocked(c) \/ UnlockRequest(c) \/ MissSpaceGoOn(c)
             \/ LockRequestAndForget(c) \/ MissSpaceAndLock(c) \/ MissLockOnly(c)
      PROVE  RequestPermitStill
  BY <1>8 DEF LockRequest, WriteLocked, UnlockRequest, MissSpaceGoOn,
     LockRequestAndForget, MissSpaceAndLock, MissLockOnly, RequestPermitFree,
     HasRequestPermit, ServerHasRequestPermit, RequestPermitStill
<1>9. ASSUME NEW c \in Clients, NoLock,
             \/ PollAgain(c) \/ GiveUpResponse(c) \/ TakeResponse(c) \/ MissResponse(c)
             \/ CheckResponse(c) \/ RepostResponse(c) \/ ReleaseResponse(c)
             \/ LeaveLoop(c)
      PROVE  RequestPermitStill
  BY <1>9 DEF PollAgain, GiveUpResponse, TakeResponse, MissResponse, CheckResponse,
     RepostResponse, ReleaseResponse, LeaveLoop, RequestPermitFree, HasRequestPermit,
     ServerHasRequestPermit, RequestPermitStill
<1>10. ASSUME NEW c \in Clients,
             \/ TakePermit(c) \/ LockResponse(c) \/ CheckLocked(c) \/ UnlockOther(c)
             \/ UnlockMine(c) \/ KeepFound(c) \/ AbandonFound(c) \/ LosePermit(c)
             \/ MissResponseGoOn(c) \/ LockResponseAndForget(c) \/ MissResponseAndLock(c)
             \/ MissResponseLock(c) \/ ReturnPermit(c)
      PROVE  RequestPermitStill
  BY <1>10 DEF TakePermit, LockResponse, CheckLocked, UnlockOther, UnlockMine,
     KeepFound, AbandonFound, LosePermit, MissResponseGoOn, LockResponseAndForget,
     MissResponseAndLock, MissResponseLock, ReturnPermit, RequestPermitFree,
     HasRequestPermit, ServerHasRequestPermit, RequestPermitStill
<1>11. ASSUME NEW c \in Clients, NoLock, SpawnThread(c)
      PROVE  RequestPermitStill
  BY <1>11 DEF SpawnThread, RequestPermitFree, HasRequestPermit, ServerHasRequestPermit,
     RequestPermitStill
<1>12. ASSUME NEW p \in Procs, NoLock,
             \/ JoinThreads(p) \/ ReturnFromMain(p) \/ DrainOneExit(p) \/ JoinAndExit(p)
             \/ Sigint(p)
      PROVE  RequestPermitStill
  BY <1>12 DEF JoinThreads, ReturnFromMain, DrainOneExit, JoinAndExit, Sigint,
     RequestPermitFree, HasRequestPermit, ServerHasRequestPermit, RequestPermitStill
<1> QED
  BY <1>1, <1>2, <1>3, <1>4, <1>5, <1>6, <1>7, <1>8, <1>9, <1>10, <1>11, <1>12,
     RequestPermitStays DEF LockedClientNext, LockedThreadStep, TimedThreadStep,
     Client2Step, Client3Step, Client4Step, Client5Step, SendLocked, SendOrReturnSpace,
     ReceiveLocked, KeepFoundIfRunning, LockedMainStep, TimedMainStep, Threads

\* A server step likewise.
LEMMA ServerKeepsRequestPermit ==
  ASSUME LockedTypes, RequestPermitOnce, RequestPermitSomewhere, RequestLockFollows,
         NobodyCutOff' => NobodyCutOff, LockedServerNext, UNCHANGED clientVars
  PROVE  RequestPermitOnce' /\ RequestPermitSomewhere'
<1> USE DEF LockedTypes, ServerTypes, EnqTypes, ShmTypeOK, ShmSems
<1>1. ASSUME NoLock, UNCHANGED serverMainVars, ReleaseRequestSlot
      PROVE  RequestPermitOnce' /\ RequestPermitSomewhere'
  BY <1>1 DEF ReleaseRequestSlot, RequestPermitFree, RequestPermitOnce,
     RequestPermitSomewhere, HasRequestPermit, ServerHasRequestPermit
<1>2. ASSUME NoLock, WaitRequestInTime
      PROVE  RequestPermitOnce' /\ RequestPermitSomewhere'
  BY <1>2 DEF WaitRequestInTime, RequestPermitFree, RequestPermitOnce,
     RequestPermitSomewhere, HasRequestPermit, ServerHasRequestPermit
<1>3. ASSUME TakeRequest
      PROVE  RequestPermitOnce' /\ RequestPermitSomewhere'
  BY <1>3 DEF TakeRequest, RequestPermitFree, RequestPermitOnce, RequestPermitSomewhere,
     HasRequestPermit, ServerHasRequestPermit
<1>4. ASSUME trial = 3, MissRequestOrLock
      PROVE  RequestPermitOnce' /\ RequestPermitSomewhere'
  <2>1. ~(epc = "lock_buffer" /\ bsem["req_buffer_lock"] = 0)
    BY <1>4, LockFreeWithPermit DEF RequestLockFree
  <2>2. RequestPermitStill
    BY <1>4, <2>1 DEF MissRequestOrLock, RequestPermitFree, HasRequestPermit,
       ServerHasRequestPermit, RequestPermitStill
  <2> QED
    BY <2>2, RequestPermitStays
<1>5. ASSUME trial \in {2, 4, 5}, ServerExitsAtOnce
      PROVE  RequestPermitOnce' /\ RequestPermitSomewhere'
  <2>1. ~NobodyCutOff'
    BY <1>5 DEF ServerExitsAtOnce, NobodyCutOff
  <2> QED
    BY <1>5, <2>1 DEF ServerExitsAtOnce, RequestPermitFree, RequestPermitOnce,
       RequestPermitSomewhere, HasRequestPermit, ServerHasRequestPermit
<1>6. ASSUME NoLock, UNCHANGED serverMainVars,
             \/ CopyRequest \/ LockForEnqueue \/ PushRequest \/ UnlockAfterEnqueue
             \/ AnnounceRequest
      PROVE  RequestPermitStill
  BY <1>6 DEF CopyRequest, LockForEnqueue, PushRequest, UnlockAfterEnqueue,
     AnnounceRequest, RequestPermitFree, HasRequestPermit, ServerHasRequestPermit,
     RequestPermitStill
<1>7. ASSUME NoLock,
             \/ ETop \/ ELeave \/ MissRequest \/ IgnoreRequest
      PROVE  RequestPermitStill
  BY <1>7 DEF ETop, ELeave, MissRequest, IgnoreRequest, RequestPermitFree,
     HasRequestPermit, ServerHasRequestPermit, RequestPermitStill
<1>8. ASSUME \/ LockRequestBuffer \/ CopyLocked \/ UnlockRequestBuffer
      PROVE  RequestPermitStill
  BY <1>8 DEF LockRequestBuffer, CopyLocked, UnlockRequestBuffer, RequestPermitFree,
     HasRequestPermit, ServerHasRequestPermit, RequestPermitStill
<1>9. ASSUME NoLock,
             \/ SpawnServerThread \/ DrainServerExit \/ ServerExits \/ ServerSigint
      PROVE  RequestPermitStill
  BY <1>9 DEF SpawnServerThread, DrainServerExit, ServerExits, ServerSigint,
     RequestPermitFree, HasRequestPermit, ServerHasRequestPermit, RequestPermitStill
<1>10. ASSUME NEW w \in Workers, LockedWorkerStep(w)
      PROVE  RequestPermitStill
  BY <1>10, WorkerAlone DEF RequestPermitFree, HasRequestPermit, ServerHasRequestPermit,
     RequestPermitStill
<1>11. ASSUME LockedResponseThreadStep
      PROVE  RequestPermitStill
  BY <1>11, ResponseThreadAlone DEF RequestPermitFree, HasRequestPermit,
     ServerHasRequestPermit, RequestPermitStill
<1> QED
  BY <1>1, <1>2, <1>3, <1>4, <1>5, <1>6, <1>7, <1>8, <1>9, <1>10, <1>11,
     RequestPermitStays DEF LockedServerNext, LockedServerMainStep,
     LockedRequestThreadStep, TimedRequestThreadStep, Server2Request, Server3Request,
     EnqueueLocked

-----------------------------------------------------------------------------
(* Its lock, and what is in it.                                            *)

\* A step that leaves the lock of the request slot, and the permit, where they are.
RequestLockStill ==
  /\ RequestPermitStill
  /\ bsem'["req_buffer_lock"] = bsem["req_buffer_lock"]
  /\ ServerHasRequestLock' <=> ServerHasRequestLock
  /\ \A c \in Clients : ClientHasRequestLock(c)' <=> ClientHasRequestLock(c)

\* It keeps the invariant about the lock.
LEMMA RequestLockStays ==
  ASSUME RequestLockStill, NobodyBack, RequestLockFollows
  PROVE  RequestLockFollows'
BY DEF RequestLockStill, RequestPermitStill, NobodyBack, RequestLockFollows

\* A client thread takes the lock with the permit in its hands, and posts it before
\* the permit.
LEMMA ClientKeepsRequestLock ==
  ASSUME LockedTypes, trial \in {2, 3}, NobodyBack, RequestPermitOnce,
         RequestLockFollows, LockedClientNext, UNCHANGED timedServerVars
  PROVE  RequestLockFollows'
<1> USE DEF LockedTypes, ClientTypes, LockedClientTypeOK, ShmTypeOK, ShmSems,
        LockTypes
<1>1. ASSUME NEW c \in Clients, NoLock, PostRequest(c)
      PROVE  RequestLockFollows'
  BY <1>1 DEF PostRequest, RequestPermitFree, RequestPermitOnce, HasRequestPermit,
     ServerHasRequestPermit, RequestLockFollows, ClientHasRequestLock,
     ServerHasRequestLock, NobodyBack
<1>2. ASSUME NEW c \in Clients, TakeSpace(c)
      PROVE  RequestLockFollows'
  BY <1>2 DEF TakeSpace, RequestPermitFree, RequestPermitOnce, HasRequestPermit,
     ServerHasRequestPermit, RequestLockFollows, ClientHasRequestLock,
     ServerHasRequestLock, NobodyBack
<1>3. ASSUME NEW c \in Clients, LockRequest(c)
      PROVE  RequestLockFollows'
  BY <1>3 DEF LockRequest, RequestPermitFree, RequestPermitOnce, HasRequestPermit,
     ServerHasRequestPermit, RequestLockFollows, ClientHasRequestLock,
     ServerHasRequestLock, NobodyBack
<1>4. ASSUME NEW c \in Clients, UnlockRequest(c)
      PROVE  RequestLockFollows'
  BY <1>4 DEF UnlockRequest, RequestPermitFree, RequestPermitOnce, HasRequestPermit,
     ServerHasRequestPermit, RequestLockFollows, ClientHasRequestLock,
     ServerHasRequestLock, NobodyBack
<1>5. ASSUME NEW p \in Procs, ExitAtOnce(p)
      PROVE  RequestLockFollows'
  BY <1>5 DEF ExitAtOnce, RequestPermitFree, RequestPermitOnce, HasRequestPermit,
     ServerHasRequestPermit, RequestLockFollows, ClientHasRequestLock,
     ServerHasRequestLock, NobodyBack
<1>6. ASSUME NEW c \in Clients, trial = 3, MissSpaceOrLock(c)
      PROVE  RequestLockFollows'
  <2>1. ~(cpc[c] = "lock_request" /\ bsem["req_buffer_lock"] = 0)
    BY <1>6, LockFreeWithPermit DEF RequestLockFree
  <2>2. RequestLockStill
    BY <1>6, <2>1 DEF MissSpaceOrLock, RequestPermitFree, HasRequestPermit,
       ServerHasRequestPermit, RequestPermitStill, ClientHasRequestLock,
       ServerHasRequestLock, RequestLockStill
  <2> QED
    BY <2>2, RequestLockStays
<1>7. ASSUME NEW c \in Clients, NoLock, DrawRequest(c)
      PROVE  RequestLockStill
  BY <1>7 DEF DrawRequest, RequestPermitFree, HasRequestPermit, ServerHasRequestPermit,
     RequestPermitStill, ClientHasRequestLock, ServerHasRequestLock, RequestLockStill
<1>8. ASSUME NEW c \in Clients, WriteLocked(c)
      PROVE  RequestLockStill
  BY <1>8 DEF WriteLocked, RequestPermitFree, HasRequestPermit, ServerHasRequestPermit,
     RequestPermitStill, ClientHasRequestLock, ServerHasRequestLock, RequestLockStill
<1>9. ASSUME NEW c \in Clients, NoLock,
             \/ PollAgain(c) \/ GiveUpResponse(c) \/ MissResponse(c) \/ RepostResponse(c)
             \/ ReleaseResponse(c) \/ LeaveLoop(c)
      PROVE  RequestLockStill
  BY <1>9 DEF PollAgain, GiveUpResponse, MissResponse, RepostResponse, ReleaseResponse,
     LeaveLoop, RequestPermitFree, HasRequestPermit, ServerHasRequestPermit,
     RequestPermitStill, ClientHasRequestLock, ServerHasRequestLock, RequestLockStill
<1>10. ASSUME NEW c \in Clients,
             \/ TakePermit(c) \/ LockResponse(c) \/ CheckLocked(c) \/ UnlockOther(c)
             \/ UnlockMine(c) \/ KeepFound(c) \/ AbandonFound(c) \/ LosePermit(c)
      PROVE  RequestLockStill
  BY <1>10 DEF TakePermit, LockResponse, CheckLocked, UnlockOther, UnlockMine,
     KeepFound, AbandonFound, LosePermit, RequestPermitFree, HasRequestPermit,
     ServerHasRequestPermit, RequestPermitStill, ClientHasRequestLock,
     ServerHasRequestLock, RequestLockStill
<1>11. ASSUME NEW c \in Clients, NoLock, SpawnThread(c)
      PROVE  RequestLockStill
  BY <1>11 DEF SpawnThread, RequestPermitFree, HasRequestPermit, ServerHasRequestPermit,
     RequestPermitStill, ClientHasRequestLock, ServerHasRequestLock, RequestLockStill
<1>12. ASSUME NEW p \in Procs, NoLock,
             \/ JoinThreads(p) \/ ReturnFromMain(p) \/ DrainOneExit(p) \/ JoinAndExit(p)
             \/ Sigint(p)
      PROVE  RequestLockStill
  BY <1>12 DEF JoinThreads, ReturnFromMain, DrainOneExit, JoinAndExit, Sigint,
     RequestPermitFree, HasRequestPermit, ServerHasRequestPermit, RequestPermitStill,
     ClientHasRequestLock, ServerHasRequestLock, RequestLockStill
<1> QED
  BY <1>1, <1>2, <1>3, <1>4, <1>5, <1>6, <1>7, <1>8, <1>9, <1>10, <1>11, <1>12,
     RequestLockStays DEF LockedClientNext, LockedThreadStep, TimedThreadStep,
     Client2Step, Client3Step, Client4Step, Client5Step, SendLocked, SendOrReturnSpace,
     ReceiveLocked, KeepFoundIfRunning, LockedMainStep, TimedMainStep, Threads

\* The request thread likewise.
LEMMA ServerKeepsRequestLock ==
  ASSUME LockedTypes, trial \in {2, 3}, NobodyBack, RequestPermitOnce,
         RequestLockFollows, LockedServerNext, UNCHANGED clientVars
  PROVE  RequestLockFollows'
<1> USE DEF LockedTypes, ServerTypes, EnqTypes, ShmTypeOK, ShmSems, LockTypes
<1>1. ASSUME NoLock, UNCHANGED serverMainVars, ReleaseRequestSlot
      PROVE  RequestLockFollows'
  BY <1>1 DEF ReleaseRequestSlot, RequestPermitFree, RequestPermitOnce,
     HasRequestPermit, ServerHasRequestPermit, RequestLockFollows, ClientHasRequestLock,
     ServerHasRequestLock, NobodyBack
<1>2. ASSUME TakeRequest
      PROVE  RequestLockFollows'
  BY <1>2 DEF TakeRequest, RequestPermitFree, RequestPermitOnce, HasRequestPermit,
     ServerHasRequestPermit, RequestLockFollows, ClientHasRequestLock,
     ServerHasRequestLock, NobodyBack
<1>3. ASSUME LockRequestBuffer
      PROVE  RequestLockFollows'
  BY <1>3 DEF LockRequestBuffer, RequestPermitFree, RequestPermitOnce, HasRequestPermit,
     ServerHasRequestPermit, RequestLockFollows, ClientHasRequestLock,
     ServerHasRequestLock, NobodyBack
<1>4. ASSUME UnlockRequestBuffer
      PROVE  RequestLockFollows'
  BY <1>4 DEF UnlockRequestBuffer, RequestPermitFree, RequestPermitOnce,
     HasRequestPermit, ServerHasRequestPermit, RequestLockFollows, ClientHasRequestLock,
     ServerHasRequestLock, NobodyBack
<1>5. ASSUME ServerExitsAtOnce
      PROVE  RequestLockFollows'
  BY <1>5 DEF ServerExitsAtOnce, RequestPermitFree, RequestPermitOnce, HasRequestPermit,
     ServerHasRequestPermit, RequestLockFollows, ClientHasRequestLock,
     ServerHasRequestLock, NobodyBack
<1>6. ASSUME trial = 3, MissRequestOrLock
      PROVE  RequestLockFollows'
  <2>1. ~(epc = "lock_buffer" /\ bsem["req_buffer_lock"] = 0)
    BY <1>6, LockFreeWithPermit DEF RequestLockFree
  <2>2. RequestLockStill
    BY <1>6, <2>1 DEF MissRequestOrLock, RequestPermitFree, HasRequestPermit,
       ServerHasRequestPermit, RequestPermitStill, ClientHasRequestLock,
       ServerHasRequestLock, RequestLockStill
  <2> QED
    BY <2>2, RequestLockStays
<1>7. ASSUME NoLock, UNCHANGED serverMainVars,
             \/ LockForEnqueue \/ PushRequest \/ UnlockAfterEnqueue \/ AnnounceRequest
      PROVE  RequestLockStill
  BY <1>7 DEF LockForEnqueue, PushRequest, UnlockAfterEnqueue, AnnounceRequest,
     RequestPermitFree, HasRequestPermit, ServerHasRequestPermit, RequestPermitStill,
     ClientHasRequestLock, ServerHasRequestLock, RequestLockStill
<1>8. ASSUME NoLock,
             \/ ETop \/ ELeave \/ IgnoreRequest
      PROVE  RequestLockStill
  BY <1>8 DEF ETop, ELeave, IgnoreRequest, RequestPermitFree, HasRequestPermit,
     ServerHasRequestPermit, RequestPermitStill, ClientHasRequestLock,
     ServerHasRequestLock, RequestLockStill
<1>9. ASSUME CopyLocked
      PROVE  RequestLockStill
  BY <1>9 DEF CopyLocked, RequestPermitFree, HasRequestPermit, ServerHasRequestPermit,
     RequestPermitStill, ClientHasRequestLock, ServerHasRequestLock, RequestLockStill
<1>10. ASSUME NoLock,
             \/ SpawnServerThread \/ DrainServerExit \/ ServerExits \/ ServerSigint
      PROVE  RequestLockStill
  BY <1>10 DEF SpawnServerThread, DrainServerExit, ServerExits, ServerSigint,
     RequestPermitFree, HasRequestPermit, ServerHasRequestPermit, RequestPermitStill,
     ClientHasRequestLock, ServerHasRequestLock, RequestLockStill
<1>11. ASSUME NEW w \in Workers, LockedWorkerStep(w)
      PROVE  RequestLockStill
  BY <1>11, WorkerAlone DEF RequestPermitFree, HasRequestPermit, ServerHasRequestPermit,
     RequestPermitStill, ClientHasRequestLock, ServerHasRequestLock, RequestLockStill
<1>12. ASSUME LockedResponseThreadStep
      PROVE  RequestLockStill
  BY <1>12, ResponseThreadAlone DEF RequestPermitFree, HasRequestPermit,
     ServerHasRequestPermit, RequestPermitStill, ClientHasRequestLock,
     ServerHasRequestLock, RequestLockStill
<1> QED
  BY <1>1, <1>2, <1>3, <1>4, <1>5, <1>6, <1>7, <1>8, <1>9, <1>10, <1>11, <1>12,
     RequestLockStays DEF LockedServerNext, LockedServerMainStep,
     LockedRequestThreadStep, TimedRequestThreadStep, Server2Request, Server3Request,
     EnqueueLocked

\* In the other pairs nothing is said of the lock.
LEMMA StepKeepsRequestLock ==
  ASSUME LockedTypes, NobodyBack, RequestPermitOnce, RequestLockFollows, LockedNext
  PROVE  RequestLockFollows'
<1>1. CASE trial \in {2, 3}
  BY <1>1, ClientKeepsRequestLock, ServerKeepsRequestLock DEF LockedNext
<1>2. CASE trial \notin {2, 3}
  BY <1>2 DEF NobodyBack, RequestLockFollows
<1> QED
  BY <1>1, <1>2

\* A step that leaves the request slot as full as it is.
RequestSlotStill ==
  /\ request' = request
  /\ sem'["req_available"] = sem["req_available"]
  /\ epc' \in {"lock_buffer", "copy"} => epc \in {"lock_buffer", "copy"}
  /\ \A c \in Clients :
       cpc'[c] \in {"unlock_request", "post"} => cpc[c] \in {"unlock_request", "post"}

\* It keeps the request in it.
LEMMA RequestSlotStays ==
  ASSUME RequestSlotStill, RequestSlotFilled
  PROVE  RequestSlotFilled'
BY DEF RequestSlotStill, RequestSlotFilled

\* A client posts req_available after it has written its request.
LEMMA ClientFillsRequestSlot ==
  ASSUME LockedTypes, RequestSlotFilled, LockedClientNext, UNCHANGED timedServerVars
  PROVE  RequestSlotFilled'
<1> USE DEF LockedTypes, ClientTypes, LockedClientTypeOK, ShmTypeOK, ShmSems
<1>1. ASSUME NEW c \in Clients, NoLock, WriteRequest(c)
      PROVE  RequestSlotFilled'
  BY <1>1 DEF WriteRequest, RequestSlotFilled
<1>2. ASSUME NEW c \in Clients, WriteLocked(c)
      PROVE  RequestSlotFilled'
  BY <1>2 DEF WriteLocked, RequestSlotFilled
<1>3. ASSUME NEW c \in Clients, NoLock, PostRequest(c)
      PROVE  RequestSlotFilled'
  BY <1>3 DEF PostRequest, RequestSlotFilled
<1>4. ASSUME NEW c \in Clients, NoLock,
             \/ DrawRequest(c) \/ WaitRequestSpace(c) \/ GiveUpSending(c)
      PROVE  RequestSlotStill
  BY <1>4 DEF DrawRequest, WaitRequestSpace, GiveUpSending, RequestSlotStill
<1>5. ASSUME NEW c \in Clients,
             \/ TakeSpace(c) \/ LockRequest(c) \/ UnlockRequest(c) \/ MissSpaceOrLock(c)
             \/ MissSpaceGoOn(c) \/ LockRequestAndForget(c) \/ MissSpaceAndLock(c)
             \/ MissLockOnly(c) \/ ReturnSpace(c)
      PROVE  RequestSlotStill
  BY <1>5 DEF TakeSpace, LockRequest, UnlockRequest, MissSpaceOrLock, MissSpaceGoOn,
     LockRequestAndForget, MissSpaceAndLock, MissLockOnly, ReturnSpace, RequestSlotStill
<1>6. ASSUME NEW c \in Clients, NoLock,
             \/ PollAgain(c) \/ GiveUpResponse(c) \/ TakeResponse(c) \/ MissResponse(c)
             \/ CheckResponse(c) \/ RepostResponse(c) \/ ReleaseResponse(c)
             \/ LeaveLoop(c)
      PROVE  RequestSlotStill
  BY <1>6 DEF PollAgain, GiveUpResponse, TakeResponse, MissResponse, CheckResponse,
     RepostResponse, ReleaseResponse, LeaveLoop, RequestSlotStill
<1>7. ASSUME NEW c \in Clients,
             \/ TakePermit(c) \/ LockResponse(c) \/ CheckLocked(c) \/ UnlockOther(c)
             \/ UnlockMine(c) \/ KeepFound(c) \/ AbandonFound(c) \/ LosePermit(c)
             \/ MissResponseGoOn(c) \/ LockResponseAndForget(c) \/ MissResponseAndLock(c)
             \/ MissResponseLock(c) \/ ReturnPermit(c)
      PROVE  RequestSlotStill
  BY <1>7 DEF TakePermit, LockResponse, CheckLocked, UnlockOther, UnlockMine, KeepFound,
     AbandonFound, LosePermit, MissResponseGoOn, LockResponseAndForget,
     MissResponseAndLock, MissResponseLock, ReturnPermit, RequestSlotStill
<1>8. ASSUME NEW c \in Clients, NoLock, SpawnThread(c)
      PROVE  RequestSlotStill
  BY <1>8 DEF SpawnThread, RequestSlotStill
<1>9. ASSUME NEW p \in Procs, NoLock,
             \/ JoinThreads(p) \/ ReturnFromMain(p) \/ DrainOneExit(p) \/ JoinAndExit(p)
             \/ Sigint(p)
      PROVE  RequestSlotStill
  BY <1>9 DEF JoinThreads, ReturnFromMain, DrainOneExit, JoinAndExit, Sigint,
     RequestSlotStill
<1>10. ASSUME NEW p \in Procs, ExitAtOnce(p)
      PROVE  RequestSlotStill
  BY <1>10 DEF ExitAtOnce, RequestSlotStill
<1> QED
  BY <1>1, <1>2, <1>3, <1>4, <1>5, <1>6, <1>7, <1>8, <1>9, <1>10, RequestSlotStays DEF
     LockedClientNext, LockedThreadStep, TimedThreadStep, Client2Step, Client3Step,
     Client4Step, Client5Step, SendLocked, SendOrReturnSpace, ReceiveLocked,
     KeepFoundIfRunning, LockedMainStep, TimedMainStep, Threads

\* The request thread comes to copy the slot after its wait for req_available.
LEMMA ServerFindsRequestSlotFilled ==
  ASSUME LockedTypes, RequestSlotFilled, LockedServerNext, UNCHANGED clientVars
  PROVE  RequestSlotFilled'
<1> USE DEF LockedTypes, ServerTypes, EnqTypes, ShmTypeOK, ShmSems
<1>1. ASSUME NoLock, WaitRequestInTime
      PROVE  RequestSlotFilled'
  BY <1>1 DEF WaitRequestInTime, RequestSlotFilled
<1>2. ASSUME TakeRequest
      PROVE  RequestSlotFilled'
  BY <1>2 DEF TakeRequest, RequestSlotFilled
<1>3. ASSUME NoLock, UNCHANGED serverMainVars,
             \/ CopyRequest \/ ReleaseRequestSlot \/ LockForEnqueue \/ PushRequest
             \/ UnlockAfterEnqueue \/ AnnounceRequest
      PROVE  RequestSlotStill
  BY <1>3 DEF CopyRequest, ReleaseRequestSlot, LockForEnqueue, PushRequest,
     UnlockAfterEnqueue, AnnounceRequest, RequestSlotStill
<1>4. ASSUME NoLock,
             \/ ETop \/ ELeave \/ MissRequest \/ IgnoreRequest
      PROVE  RequestSlotStill
  BY <1>4 DEF ETop, ELeave, MissRequest, IgnoreRequest, RequestSlotStill
<1>5. ASSUME \/ LockRequestBuffer \/ CopyLocked \/ UnlockRequestBuffer
             \/ MissRequestOrLock
      PROVE  RequestSlotStill
  BY <1>5 DEF LockRequestBuffer, CopyLocked, UnlockRequestBuffer, MissRequestOrLock,
     RequestSlotStill
<1>6. ASSUME NoLock,
             \/ SpawnServerThread \/ DrainServerExit \/ ServerExits \/ ServerSigint
      PROVE  RequestSlotStill
  BY <1>6 DEF SpawnServerThread, DrainServerExit, ServerExits, ServerSigint,
     RequestSlotStill
<1>7. ASSUME ServerExitsAtOnce
      PROVE  RequestSlotStill
  BY <1>7 DEF ServerExitsAtOnce, RequestSlotStill
<1>8. ASSUME NEW w \in Workers, LockedWorkerStep(w)
      PROVE  RequestSlotStill
  BY <1>8, WorkerAlone DEF RequestSlotStill
<1>9. ASSUME LockedResponseThreadStep
      PROVE  RequestSlotStill
  BY <1>9, ResponseThreadAlone DEF RequestSlotStill
<1> QED
  BY <1>1, <1>2, <1>3, <1>4, <1>5, <1>6, <1>7, <1>8, <1>9, RequestSlotStays DEF
     LockedServerNext, LockedServerMainStep, LockedRequestThreadStep,
     TimedRequestThreadStep, Server2Request, Server3Request, EnqueueLocked

-----------------------------------------------------------------------------
(* The permit of the response slot.                                        *)

\* A step that leaves the permit of the response slot where it is.
ResponsePermitStill ==
  /\ ResponsePermitFree' = ResponsePermitFree
  /\ ServerHasResponsePermit' <=> ServerHasResponsePermit
  /\ \A c \in Clients : HasResponsePermit(c)' <=> HasResponsePermit(c)

\* It keeps the invariants about that permit.
LEMMA ResponsePermitStays ==
  ASSUME ResponsePermitStill, NobodyBack, NobodyCutOff' => NobodyCutOff,
         ResponsePermitOnce, ResponsePermitSomewhere
  PROVE  ResponsePermitOnce' /\ ResponsePermitSomewhere'
BY DEF ResponsePermitStill, NobodyBack, ResponsePermitOnce, ResponsePermitSomewhere

\* A client step takes the permit of the response slot out of a semaphore, or puts it
\* back, or carries it along; the clients 3 and 4 may drop it, and client 5 may not.
LEMMA ClientKeepsResponsePermit ==
  ASSUME LockedTypes, ResponsePermitOnce, ResponsePermitSomewhere, NobodyBack,
         NobodyCutOff' => NobodyCutOff, LockedClientNext, UNCHANGED timedServerVars
  PROVE  ResponsePermitOnce' /\ ResponsePermitSomewhere'
<1> USE DEF LockedTypes, ClientTypes, LockedClientTypeOK, ShmTypeOK, ShmSems
<1>1. ASSUME NEW c \in Clients, trial = 1, NoLock, TakeResponse(c)
      PROVE  ResponsePermitOnce' /\ ResponsePermitSomewhere'
  BY <1>1 DEF TakeResponse, ResponsePermitFree, ResponsePermitOnce,
     ResponsePermitSomewhere, HasResponsePermit, ServerHasResponsePermit, NobodyBack
<1>2. ASSUME NEW c \in Clients, NoLock, RepostResponse(c)
      PROVE  ResponsePermitOnce' /\ ResponsePermitSomewhere'
  BY <1>2 DEF RepostResponse, ResponsePermitFree, ResponsePermitOnce,
     ResponsePermitSomewhere, HasResponsePermit, ServerHasResponsePermit, NobodyBack
<1>3. ASSUME NEW c \in Clients, NoLock, ReleaseResponse(c)
      PROVE  ResponsePermitOnce' /\ ResponsePermitSomewhere'
  BY <1>3 DEF ReleaseResponse, ResponsePermitFree, ResponsePermitOnce,
     ResponsePermitSomewhere, HasResponsePermit, ServerHasResponsePermit, NobodyBack
<1>4. ASSUME NEW c \in Clients, TakePermit(c)
      PROVE  ResponsePermitOnce' /\ ResponsePermitSomewhere'
  BY <1>4 DEF TakePermit, ResponsePermitFree, ResponsePermitOnce,
     ResponsePermitSomewhere, HasResponsePermit, ServerHasResponsePermit, NobodyBack
<1>5. ASSUME NEW c \in Clients, ReturnPermit(c)
      PROVE  ResponsePermitOnce' /\ ResponsePermitSomewhere'
  BY <1>5 DEF ReturnPermit, ResponsePermitFree, ResponsePermitOnce,
     ResponsePermitSomewhere, HasResponsePermit, ServerHasResponsePermit, NobodyBack
<1>6. ASSUME NEW c \in Clients, trial \in {3, 4}, AbandonFound(c)
      PROVE  ResponsePermitOnce' /\ ResponsePermitSomewhere'
  BY <1>6 DEF AbandonFound, ResponsePermitFree, ResponsePermitOnce,
     ResponsePermitSomewhere, HasResponsePermit, ServerHasResponsePermit, NobodyBack
<1>7. ASSUME NEW c \in Clients, trial = 3, LosePermit(c)
      PROVE  ResponsePermitOnce' /\ ResponsePermitSomewhere'
  BY <1>7 DEF LosePermit, ResponsePermitFree, ResponsePermitOnce,
     ResponsePermitSomewhere, HasResponsePermit, ServerHasResponsePermit, NobodyBack
<1>8. ASSUME NEW p \in Procs, trial = 2, ExitAtOnce(p)
      PROVE  ResponsePermitOnce' /\ ResponsePermitSomewhere'
  <2>1. ~NobodyCutOff'
    BY <1>8 DEF ExitAtOnce, NobodyCutOff
  <2> QED
    BY <1>8, <2>1 DEF NobodyBack, ResponsePermitOnce, ResponsePermitSomewhere
<1>9. ASSUME NEW c \in Clients, NoLock,
             \/ DrawRequest(c) \/ WaitRequestSpace(c) \/ GiveUpSending(c)
             \/ WriteRequest(c) \/ PostRequest(c)
      PROVE  ResponsePermitStill
  BY <1>9 DEF DrawRequest, WaitRequestSpace, GiveUpSending, WriteRequest, PostRequest,
     ResponsePermitFree, HasResponsePermit, ServerHasResponsePermit, ResponsePermitStill
<1>10. ASSUME NEW c \in Clients,
             \/ TakeSpace(c) \/ LockRequest(c) \/ WriteLocked(c) \/ UnlockRequest(c)
             \/ MissSpaceOrLock(c) \/ MissSpaceGoOn(c) \/ LockRequestAndForget(c)
             \/ MissSpaceAndLock(c) \/ MissLockOnly(c) \/ ReturnSpace(c)
      PROVE  ResponsePermitStill
  BY <1>10 DEF TakeSpace, LockRequest, WriteLocked, UnlockRequest, MissSpaceOrLock,
     MissSpaceGoOn, LockRequestAndForget, MissSpaceAndLock, MissLockOnly, ReturnSpace,
     ResponsePermitFree, HasResponsePermit, ServerHasResponsePermit, ResponsePermitStill
<1>11. ASSUME NEW c \in Clients, NoLock,
             \/ PollAgain(c) \/ GiveUpResponse(c) \/ MissResponse(c) \/ CheckResponse(c)
             \/ LeaveLoop(c)
      PROVE  ResponsePermitStill
  BY <1>11 DEF PollAgain, GiveUpResponse, MissResponse, CheckResponse, LeaveLoop,
     ResponsePermitFree, HasResponsePermit, ServerHasResponsePermit, ResponsePermitStill
<1>12. ASSUME NEW c \in Clients,
             \/ LockResponse(c) \/ CheckLocked(c) \/ UnlockOther(c) \/ UnlockMine(c)
             \/ KeepFound(c) \/ MissResponseGoOn(c) \/ LockResponseAndForget(c)
             \/ MissResponseAndLock(c) \/ MissResponseLock(c)
      PROVE  ResponsePermitStill
  BY <1>12 DEF LockResponse, CheckLocked, UnlockOther, UnlockMine, KeepFound,
     MissResponseGoOn, LockResponseAndForget, MissResponseAndLock, MissResponseLock,
     ResponsePermitFree, HasResponsePermit, ServerHasResponsePermit, ResponsePermitStill
<1>13. ASSUME NEW c \in Clients, NoLock, SpawnThread(c)
      PROVE  ResponsePermitStill
  BY <1>13 DEF SpawnThread, ResponsePermitFree, HasResponsePermit,
     ServerHasResponsePermit, ResponsePermitStill
<1>14. ASSUME NEW p \in Procs, NoLock,
             \/ JoinThreads(p) \/ ReturnFromMain(p) \/ DrainOneExit(p) \/ JoinAndExit(p)
             \/ Sigint(p)
      PROVE  ResponsePermitStill
  BY <1>14 DEF JoinThreads, ReturnFromMain, DrainOneExit, JoinAndExit, Sigint,
     ResponsePermitFree, HasResponsePermit, ServerHasResponsePermit, ResponsePermitStill
<1> QED
  BY <1>1, <1>2, <1>3, <1>4, <1>5, <1>6, <1>7, <1>8, <1>9, <1>10, <1>11, <1>12, <1>13,
     <1>14, ResponsePermitStays DEF LockedClientNext, LockedThreadStep, TimedThreadStep,
     Client2Step, Client3Step, Client4Step, Client5Step, SendLocked, SendOrReturnSpace,
     ReceiveLocked, KeepFoundIfRunning, LockedMainStep, TimedMainStep, Threads

\* A step of the server likewise; server.cpp and server2 may write without the
\* permit, and server3 may drop it with the response.
LEMMA ServerKeepsResponsePermit ==
  ASSUME LockedTypes, ResponsePermitOnce, ResponsePermitSomewhere, NobodyBack,
         NobodyCutOff' => NobodyCutOff, LockedServerNext, UNCHANGED clientVars
  PROVE  ResponsePermitOnce' /\ ResponsePermitSomewhere'
<1> USE DEF LockedTypes, ServerTypes, DeqTypes, ShmTypeOK, ShmSems
<1>1. ASSUME TakeResponseSpace
      PROVE  ResponsePermitOnce' /\ ResponsePermitSomewhere'
  BY <1>1 DEF TakeResponseSpace, ResponsePermitFree, ResponsePermitOnce,
     ResponsePermitSomewhere, HasResponsePermit, ServerHasResponsePermit, NobodyBack
<1>2. ASSUME NoLock, UNCHANGED serverMainVars, WaitResponseSpace
      PROVE  ResponsePermitOnce' /\ ResponsePermitSomewhere'
  BY <1>2 DEF WaitResponseSpace, ResponsePermitFree, ResponsePermitOnce,
     ResponsePermitSomewhere, HasResponsePermit, ServerHasResponsePermit, NobodyBack
<1>3. ASSUME NoLock, UNCHANGED serverMainVars, PostResponse
      PROVE  ResponsePermitOnce' /\ ResponsePermitSomewhere'
  BY <1>3 DEF PostResponse, ResponsePermitFree, ResponsePermitOnce,
     ResponsePermitSomewhere, HasResponsePermit, ServerHasResponsePermit, NobodyBack
<1>4. ASSUME ReturnSpaceAndDrop
      PROVE  ResponsePermitOnce' /\ ResponsePermitSomewhere'
  BY <1>4 DEF ReturnSpaceAndDrop, ResponsePermitFree, ResponsePermitOnce,
     ResponsePermitSomewhere, HasResponsePermit, ServerHasResponsePermit, NobodyBack
<1>5. ASSUME trial = 1, NoLock, ForceSpace
      PROVE  ResponsePermitOnce' /\ ResponsePermitSomewhere'
  BY <1>5 DEF ForceSpace, ResponsePermitFree, ResponsePermitOnce,
     ResponsePermitSomewhere, HasResponsePermit, ServerHasResponsePermit, NobodyBack
<1>6. ASSUME trial = 2, WriteAnyway
      PROVE  ResponsePermitOnce' /\ ResponsePermitSomewhere'
  BY <1>6 DEF WriteAnyway, ResponsePermitFree, ResponsePermitOnce,
     ResponsePermitSomewhere, HasResponsePermit, ServerHasResponsePermit, NobodyBack
<1>7. ASSUME trial = 3, DropWithSpace
      PROVE  ResponsePermitOnce' /\ ResponsePermitSomewhere'
  BY <1>7 DEF DropWithSpace, ResponsePermitFree, ResponsePermitOnce,
     ResponsePermitSomewhere, HasResponsePermit, ServerHasResponsePermit, NobodyBack
<1>8. ASSUME trial \in {2, 4, 5}, ServerExitsAtOnce
      PROVE  ResponsePermitOnce' /\ ResponsePermitSomewhere'
  <2>1. ~NobodyCutOff'
    BY <1>8 DEF ServerExitsAtOnce, NobodyCutOff
  <2> QED
    BY <1>8, <2>1 DEF ServerExitsAtOnce, ResponsePermitFree, ResponsePermitOnce,
       ResponsePermitSomewhere, HasResponsePermit, ServerHasResponsePermit, NobodyBack
<1>9. ASSUME NoLock, UNCHANGED serverMainVars,
             \/ WaitResult \/ LockForResult \/ PopResult \/ UnlockAfterResult
             \/ WriteResponse
      PROVE  ResponsePermitStill
  BY <1>9 DEF WaitResult, LockForResult, PopResult, UnlockAfterResult, WriteResponse,
     ResponsePermitFree, HasResponsePermit, ServerHasResponsePermit, ResponsePermitStill
<1>10. ASSUME NoLock,
             \/ RTop \/ RLeave \/ WaitResultInTime \/ MissResult \/ LockResultsAndForget
             \/ MissResultAndLock \/ MissResultLock \/ GiveResultBack
      PROVE  ResponsePermitStill
  BY <1>10 DEF RTop, RLeave, WaitResultInTime, MissResult, LockResultsAndForget,
     MissResultAndLock, MissResultLock, GiveResultBack, ResponsePermitFree,
     HasResponsePermit, ServerHasResponsePermit, ResponsePermitStill
<1>11. ASSUME \/ LockResponseBuffer \/ WriteLockedResponse \/ UnlockResponseBuffer
             \/ MissSpaceAnyway \/ LockAndDrop \/ MissAndDrop \/ MissResponseBuffer
             \/ MissResultAndTurn \/ LoseResult
      PROVE  ResponsePermitStill
  BY <1>11 DEF LockResponseBuffer, WriteLockedResponse, UnlockResponseBuffer,
     MissSpaceAnyway, LockAndDrop, MissAndDrop, MissResponseBuffer, MissResultAndTurn,
     LoseResult, ResponsePermitFree, HasResponsePermit, ServerHasResponsePermit,
     ResponsePermitStill
<1>12. ASSUME NoLock,
             \/ SpawnServerThread \/ DrainServerExit \/ ServerExits \/ ServerSigint
      PROVE  ResponsePermitStill
  BY <1>12 DEF SpawnServerThread, DrainServerExit, ServerExits, ServerSigint,
     ResponsePermitFree, HasResponsePermit, ServerHasResponsePermit, ResponsePermitStill
<1>13. ASSUME LockedRequestThreadStep
      PROVE  ResponsePermitStill
  BY <1>13, RequestThreadAlone DEF ResponsePermitFree, HasResponsePermit,
     ServerHasResponsePermit, ResponsePermitStill
<1>14. ASSUME NEW w \in Workers, LockedWorkerStep(w)
      PROVE  ResponsePermitStill
  BY <1>14, WorkerAlone DEF ResponsePermitFree, HasResponsePermit,
     ServerHasResponsePermit, ResponsePermitStill
<1> QED
  BY <1>1, <1>2, <1>3, <1>4, <1>5, <1>6, <1>7, <1>8, <1>9, <1>10, <1>11, <1>12, <1>13,
     <1>14, ResponsePermitStays DEF LockedServerNext, LockedServerMainStep,
     LockedResponseThreadStep, TimedResponseThreadStep, Server2Response,
     Server3Response, Server5Response, DequeueLocked

-----------------------------------------------------------------------------
(* The locks of the two queues.                                            *)

\* A step that leaves the lock of the request queue where it is.
RequestQueueLockStill ==
  /\ qsem'["req_queue_lock"] = qsem["req_queue_lock"]
  /\ EnqInRequestQueue' <=> EnqInRequestQueue
  /\ \A w \in Workers : WorkerInRequestQueue(w)' <=> WorkerInRequestQueue(w)

\* It keeps the invariant about that lock.
LEMMA RequestQueueLockStays ==
  ASSUME RequestQueueLockStill, RequestQueueLockOnce
  PROVE  RequestQueueLockOnce'
BY DEF RequestQueueLockStill, RequestQueueLockOnce

\* A thread enters the request queue with its lock in its hands.
LEMMA ServerKeepsRequestQueueLock ==
  ASSUME LockedTypes, RequestQueueLockOnce, LockedServerNext
  PROVE  RequestQueueLockOnce'
<1> USE DEF LockedTypes, ServerTypes, QueueTypes, QueueSems, WorkTypes, EnqTypes
<1>1. ASSUME NoLock, UNCHANGED serverMainVars, LockForEnqueue
      PROVE  RequestQueueLockOnce'
  BY <1>1 DEF LockForEnqueue, RequestQueueLockOnce, EnqInRequestQueue,
     WorkerInRequestQueue
<1>2. ASSUME NoLock, UNCHANGED serverMainVars, UnlockAfterEnqueue
      PROVE  RequestQueueLockOnce'
  BY <1>2 DEF UnlockAfterEnqueue, RequestQueueLockOnce, EnqInRequestQueue,
     WorkerInRequestQueue
<1>3. ASSUME NEW w \in Workers, NoLock, UNCHANGED serverMainVars, LockForDequeue(w)
      PROVE  RequestQueueLockOnce'
  BY <1>3 DEF LockForDequeue, RequestQueueLockOnce, EnqInRequestQueue,
     WorkerInRequestQueue
<1>4. ASSUME NEW w \in Workers, NoLock, UNCHANGED serverMainVars, UnlockAfterDequeue(w)
      PROVE  RequestQueueLockOnce'
  BY <1>4 DEF UnlockAfterDequeue, RequestQueueLockOnce, EnqInRequestQueue,
     WorkerInRequestQueue
<1>5. ASSUME NEW w \in Workers, NoLock, LockAndForget(w)
      PROVE  RequestQueueLockOnce'
  BY <1>5 DEF LockAndForget, RequestQueueLockOnce, EnqInRequestQueue,
     WorkerInRequestQueue
<1>6. ASSUME ServerExitsAtOnce
      PROVE  RequestQueueLockOnce'
  BY <1>6 DEF ServerExitsAtOnce, RequestQueueLockOnce, EnqInRequestQueue,
     WorkerInRequestQueue
<1>7. ASSUME NoLock, UNCHANGED serverMainVars,
             \/ CopyRequest \/ ReleaseRequestSlot \/ PushRequest \/ AnnounceRequest
      PROVE  RequestQueueLockStill
  BY <1>7 DEF CopyRequest, ReleaseRequestSlot, PushRequest, AnnounceRequest,
     RequestQueueLockStill, EnqInRequestQueue, WorkerInRequestQueue
<1>8. ASSUME NoLock,
             \/ ETop \/ ELeave \/ WaitRequestInTime \/ MissRequest \/ IgnoreRequest
      PROVE  RequestQueueLockStill
  BY <1>8 DEF ETop, ELeave, WaitRequestInTime, MissRequest, IgnoreRequest,
     RequestQueueLockStill, EnqInRequestQueue, WorkerInRequestQueue
<1>9. ASSUME \/ TakeRequest \/ LockRequestBuffer \/ CopyLocked \/ UnlockRequestBuffer
             \/ MissRequestOrLock
      PROVE  RequestQueueLockStill
  BY <1>9 DEF TakeRequest, LockRequestBuffer, CopyLocked, UnlockRequestBuffer,
     MissRequestOrLock, RequestQueueLockStill, EnqInRequestQueue, WorkerInRequestQueue
<1>10. ASSUME NEW w \in Workers, NoLock, UNCHANGED serverMainVars,
             \/ TakeTicket(w) \/ PopRequest(w) \/ ProcessNoDelete(w)
             \/ LockForResponse(w) \/ PushResponse(w) \/ UnlockAfterResponse(w)
             \/ AnnounceResponse(w)
      PROVE  RequestQueueLockStill
  BY <1>10 DEF TakeTicket, PopRequest, ProcessNoDelete, LockForResponse, PushResponse,
     UnlockAfterResponse, AnnounceResponse, RequestQueueLockStill, EnqInRequestQueue,
     WorkerInRequestQueue
<1>11. ASSUME NEW w \in Workers, NoLock,
             \/ WTop(w) \/ WLeave(w) \/ TakeTicketInTime(w) \/ MissTicket(w)
             \/ MissBoth(w) \/ MissLock(w) \/ GiveTicketBack(w) \/ DropResponse(w)
      PROVE  RequestQueueLockStill
  BY <1>11 DEF WTop, WLeave, TakeTicketInTime, MissTicket, MissBoth, MissLock,
     GiveTicketBack, DropResponse, RequestQueueLockStill, EnqInRequestQueue,
     WorkerInRequestQueue
<1>12. ASSUME NEW w \in Workers,
             \/ MissTicketAndTurn(w) \/ LoseTicket(w)
      PROVE  RequestQueueLockStill
  BY <1>12 DEF MissTicketAndTurn, LoseTicket, RequestQueueLockStill, EnqInRequestQueue,
     WorkerInRequestQueue
<1>13. ASSUME NoLock,
             \/ SpawnServerThread \/ DrainServerExit \/ ServerExits \/ ServerSigint
      PROVE  RequestQueueLockStill
  BY <1>13 DEF SpawnServerThread, DrainServerExit, ServerExits, ServerSigint,
     RequestQueueLockStill, EnqInRequestQueue, WorkerInRequestQueue
<1>14. ASSUME LockedResponseThreadStep
      PROVE  RequestQueueLockStill
  BY <1>14, ResponseThreadAlone DEF RequestQueueLockStill, EnqInRequestQueue,
     WorkerInRequestQueue
<1> QED
  BY <1>1, <1>2, <1>3, <1>4, <1>5, <1>6, <1>7, <1>8, <1>9, <1>10, <1>11, <1>12, <1>13,
     <1>14, RequestQueueLockStays DEF LockedServerNext, LockedServerMainStep,
     LockedRequestThreadStep, TimedRequestThreadStep, Server2Request, Server3Request,
     EnqueueLocked, LockedWorkerStep, TimedWorkerStep, TimedProcess, Server2Work,
     Server3Work, WorkLocked

\* A step that leaves the lock of the response queue where it is.
ResponseQueueLockStill ==
  /\ qsem'["res_queue_lock"] = qsem["res_queue_lock"]
  /\ DeqInResponseQueue' <=> DeqInResponseQueue
  /\ \A w \in Workers : WorkerInResponseQueue(w)' <=> WorkerInResponseQueue(w)

\* It keeps the invariant about that lock.
LEMMA ResponseQueueLockStays ==
  ASSUME ResponseQueueLockStill, ResponseQueueLockOnce
  PROVE  ResponseQueueLockOnce'
BY DEF ResponseQueueLockStill, ResponseQueueLockOnce

\* A thread enters the response queue with its lock in its hands.
LEMMA ServerKeepsResponseQueueLock ==
  ASSUME LockedTypes, ResponseQueueLockOnce, LockedServerNext
  PROVE  ResponseQueueLockOnce'
<1> USE DEF LockedTypes, ServerTypes, QueueTypes, QueueSems, WorkTypes, DeqTypes
<1>1. ASSUME NEW w \in Workers, NoLock, UNCHANGED serverMainVars, LockForResponse(w)
      PROVE  ResponseQueueLockOnce'
  BY <1>1 DEF LockForResponse, ResponseQueueLockOnce, DeqInResponseQueue,
     WorkerInResponseQueue
<1>2. ASSUME NEW w \in Workers, NoLock, UNCHANGED serverMainVars, UnlockAfterResponse(w)
      PROVE  ResponseQueueLockOnce'
  BY <1>2 DEF UnlockAfterResponse, ResponseQueueLockOnce, DeqInResponseQueue,
     WorkerInResponseQueue
<1>3. ASSUME NoLock, UNCHANGED serverMainVars, LockForResult
      PROVE  ResponseQueueLockOnce'
  BY <1>3 DEF LockForResult, ResponseQueueLockOnce, DeqInResponseQueue,
     WorkerInResponseQueue
<1>4. ASSUME NoLock, UNCHANGED serverMainVars, UnlockAfterResult
      PROVE  ResponseQueueLockOnce'
  BY <1>4 DEF UnlockAfterResult, ResponseQueueLockOnce, DeqInResponseQueue,
     WorkerInResponseQueue
<1>5. ASSUME NoLock, LockResultsAndForget
      PROVE  ResponseQueueLockOnce'
  BY <1>5 DEF LockResultsAndForget, ResponseQueueLockOnce, DeqInResponseQueue,
     WorkerInResponseQueue
<1>6. ASSUME ServerExitsAtOnce
      PROVE  ResponseQueueLockOnce'
  BY <1>6 DEF ServerExitsAtOnce, ResponseQueueLockOnce, DeqInResponseQueue,
     WorkerInResponseQueue
<1>7. ASSUME NEW w \in Workers, NoLock, UNCHANGED serverMainVars,
             \/ TakeTicket(w) \/ LockForDequeue(w) \/ PopRequest(w)
             \/ UnlockAfterDequeue(w) \/ ProcessNoDelete(w) \/ PushResponse(w)
             \/ AnnounceResponse(w)
      PROVE  ResponseQueueLockStill
  BY <1>7 DEF TakeTicket, LockForDequeue, PopRequest, UnlockAfterDequeue,
     ProcessNoDelete, PushResponse, AnnounceResponse, ResponseQueueLockStill,
     DeqInResponseQueue, WorkerInResponseQueue
<1>8. ASSUME NEW w \in Workers, NoLock,
             \/ WTop(w) \/ WLeave(w) \/ TakeTicketInTime(w) \/ MissTicket(w)
             \/ LockAndForget(w) \/ MissBoth(w) \/ MissLock(w) \/ GiveTicketBack(w)
             \/ DropResponse(w)
      PROVE  ResponseQueueLockStill
  BY <1>8 DEF WTop, WLeave, TakeTicketInTime, MissTicket, LockAndForget, MissBoth,
     MissLock, GiveTicketBack, DropResponse, ResponseQueueLockStill, DeqInResponseQueue,
     WorkerInResponseQueue
<1>9. ASSUME NEW w \in Workers,
             \/ MissTicketAndTurn(w) \/ LoseTicket(w)
      PROVE  ResponseQueueLockStill
  BY <1>9 DEF MissTicketAndTurn, LoseTicket, ResponseQueueLockStill, DeqInResponseQueue,
     WorkerInResponseQueue
<1>10. ASSUME NoLock, UNCHANGED serverMainVars,
             \/ WaitResult \/ PopResult \/ WaitResponseSpace \/ WriteResponse
             \/ PostResponse
      PROVE  ResponseQueueLockStill
  BY <1>10 DEF WaitResult, PopResult, WaitResponseSpace, WriteResponse, PostResponse,
     ResponseQueueLockStill, DeqInResponseQueue, WorkerInResponseQueue
<1>11. ASSUME NoLock,
             \/ RTop \/ RLeave \/ WaitResultInTime \/ MissResult \/ MissResultAndLock
             \/ MissResultLock \/ GiveResultBack \/ ForceSpace
      PROVE  ResponseQueueLockStill
  BY <1>11 DEF RTop, RLeave, WaitResultInTime, MissResult, MissResultAndLock,
     MissResultLock, GiveResultBack, ForceSpace, ResponseQueueLockStill,
     DeqInResponseQueue, WorkerInResponseQueue
<1>12. ASSUME \/ TakeResponseSpace \/ LockResponseBuffer \/ WriteLockedResponse
             \/ UnlockResponseBuffer \/ WriteAnyway \/ MissSpaceAnyway \/ LockAndDrop
             \/ MissAndDrop \/ DropWithSpace \/ MissResponseBuffer \/ ReturnSpaceAndDrop
             \/ MissResultAndTurn \/ LoseResult
      PROVE  ResponseQueueLockStill
  BY <1>12 DEF TakeResponseSpace, LockResponseBuffer, WriteLockedResponse,
     UnlockResponseBuffer, WriteAnyway, MissSpaceAnyway, LockAndDrop, MissAndDrop,
     DropWithSpace, MissResponseBuffer, ReturnSpaceAndDrop, MissResultAndTurn,
     LoseResult, ResponseQueueLockStill, DeqInResponseQueue, WorkerInResponseQueue
<1>13. ASSUME NoLock,
             \/ SpawnServerThread \/ DrainServerExit \/ ServerExits \/ ServerSigint
      PROVE  ResponseQueueLockStill
  BY <1>13 DEF SpawnServerThread, DrainServerExit, ServerExits, ServerSigint,
     ResponseQueueLockStill, DeqInResponseQueue, WorkerInResponseQueue
<1>14. ASSUME LockedRequestThreadStep
      PROVE  ResponseQueueLockStill
  BY <1>14, RequestThreadAlone DEF ResponseQueueLockStill, DeqInResponseQueue,
     WorkerInResponseQueue
<1> QED
  BY <1>1, <1>2, <1>3, <1>4, <1>5, <1>6, <1>7, <1>8, <1>9, <1>10, <1>11, <1>12, <1>13,
     <1>14, ResponseQueueLockStays DEF LockedServerNext, LockedServerMainStep,
     LockedWorkerStep, TimedWorkerStep, TimedProcess, Server2Work, Server3Work,
     WorkLocked, LockedResponseThreadStep, TimedResponseThreadStep, Server2Response,
     Server3Response, Server5Response, DequeueLocked

-----------------------------------------------------------------------------
(* The size semaphores of the two queues.                                  *)

\* The numbers of ticket holders are numbers.
LEMMA TicketsFinite ==
  /\ IsFiniteSet(RequestTicketHolders) /\ Cardinality(RequestTicketHolders) \in Nat
  /\ IsFiniteSet(ResponseUnannounced) /\ Cardinality(ResponseUnannounced) \in Nat
BY ServerAssumption, FS_Subset, FS_CardinalityType
   DEF RequestTicketHolders, ResponseUnannounced

\* A thread about to pop holds a ticket, and there are no more tickets than elements.
LEMMA TicketsKeepFromEmpty ==
  ASSUME LockedTypes, RequestTicketsCounted, ResultTicketsCounted
  PROVE  NoPopFromEmptyQueue
<1> USE DEF LockedTypes, ServerTypes, QueueTypes, QueueSems
<1>1. ASSUME NEW w \in Workers, wpc[w] = "pop"
      PROVE  requestQueue # <<>>
  <2>1. w \in RequestTicketHolders
    BY <1>1 DEF RequestTicketHolders
  <2>2. Cardinality(RequestTicketHolders) \in Nat \ {0}
    BY <2>1, TicketsFinite, FS_EmptySet
  <2> QED
    BY <2>2, EmptySeq DEF RequestTicketsCounted, RequestTicketsOut, One
<1>2. ASSUME rpc = "pop"
      PROVE  responseQueue # <<>>
  BY <1>2, TicketsFinite, EmptySeq
     DEF ResultTicketsCounted, ResultTicketsOut, HoldsResultTicket, One
<1> QED
  BY <1>1, <1>2 DEF NoPopFromEmptyQueue

\* A step that leaves the request queue and its tickets as they are.
RequestTicketsStill ==
  /\ requestQueue' = requestQueue
  /\ qsem'["req_queue_size"] = qsem["req_queue_size"]
  /\ RequestTicketHolders' = RequestTicketHolders
  /\ RequestUnannounced' <=> RequestUnannounced

\* It keeps the invariant about them.
LEMMA RequestTicketsStay ==
  ASSUME RequestTicketsStill, NobodyBack, NobodyCutOff' => NobodyCutOff,
         RequestTicketsCounted
  PROVE  RequestTicketsCounted'
BY DEF RequestTicketsStill, NobodyBack, RequestTicketsCounted, RequestTicketsOut, One

\* A request is pushed before its ticket is posted, and popped with a ticket in hand;
\* server3 alone may lose a ticket.
LEMMA ServerCountsRequestTickets ==
  ASSUME LockedTypes, NoPopFromEmptyQueue, RequestTicketsCounted, NobodyBack,
         NobodyCutOff' => NobodyCutOff, LockedServerNext
  PROVE  RequestTicketsCounted'
<1> USE DEF LockedTypes, ServerTypes, QueueTypes, QueueSems, WorkTypes, EnqTypes
<1>1. ASSUME NoLock, UNCHANGED serverMainVars, PushRequest
      PROVE  RequestTicketsCounted'
  <2>1. RequestTicketHolders' = RequestTicketHolders
    BY <1>1 DEF PushRequest, RequestTicketHolders
  <2> QED
    BY <1>1, <2>1, TicketsFinite, AppendProperties DEF PushRequest, NobodyBack,
       RequestTicketsCounted, RequestTicketsOut, RequestUnannounced, One
<1>2. ASSUME NoLock, UNCHANGED serverMainVars, AnnounceRequest
      PROVE  RequestTicketsCounted'
  <2>1. RequestTicketHolders' = RequestTicketHolders
    BY <1>2 DEF AnnounceRequest, RequestTicketHolders
  <2> QED
    BY <1>2, <2>1, TicketsFinite DEF AnnounceRequest, NobodyBack, RequestTicketsCounted,
       RequestTicketsOut, RequestUnannounced, One
<1>3. ASSUME NEW w \in Workers, NoLock, UNCHANGED serverMainVars, TakeTicket(w)
      PROVE  RequestTicketsCounted'
  <2>1. RequestTicketHolders' = RequestTicketHolders \cup {w} /\ w \notin RequestTicketHolders
    BY <1>3 DEF TakeTicket, RequestTicketHolders
  <2>2. Cardinality(RequestTicketHolders') = Cardinality(RequestTicketHolders) + 1
    BY <2>1, TicketsFinite, FS_AddElement
  <2> QED
    BY <1>3, <2>2, TicketsFinite DEF TakeTicket, NobodyBack, RequestTicketsCounted,
       RequestTicketsOut, RequestUnannounced, One
<1>4. ASSUME NEW w \in Workers, NoLock, TakeTicketInTime(w)
      PROVE  RequestTicketsCounted'
  <2>1. RequestTicketHolders' = RequestTicketHolders \cup {w} /\ w \notin RequestTicketHolders
    BY <1>4 DEF TakeTicketInTime, RequestTicketHolders
  <2>2. Cardinality(RequestTicketHolders') = Cardinality(RequestTicketHolders) + 1
    BY <2>1, TicketsFinite, FS_AddElement
  <2> QED
    BY <1>4, <2>2, TicketsFinite DEF TakeTicketInTime, NobodyBack, RequestTicketsCounted,
       RequestTicketsOut, RequestUnannounced, One
<1>5. ASSUME NEW w \in Workers, NoLock, UNCHANGED serverMainVars, PopRequest(w)
      PROVE  RequestTicketsCounted'
  <2>1. RequestTicketHolders' = RequestTicketHolders \ {w} /\ w \in RequestTicketHolders
    BY <1>5 DEF PopRequest, RequestTicketHolders
  <2>2. Cardinality(RequestTicketHolders') = Cardinality(RequestTicketHolders) - 1
    BY <2>1, TicketsFinite, FS_RemoveElement
  <2>3. Len(requestQueue') = Len(requestQueue) - 1 /\ Len(requestQueue) \in Nat
    BY <1>5, HeadTailProperties DEF PopRequest, NoPopFromEmptyQueue
  <2>4. /\ qsem'["req_queue_size"] = qsem["req_queue_size"]
        /\ qsem["req_queue_size"] \in Nat
        /\ RequestUnannounced' <=> RequestUnannounced
    BY <1>5 DEF PopRequest, RequestUnannounced
  <2>5. One(RequestUnannounced) \in Nat /\ One(RequestUnannounced)' = One(RequestUnannounced)
    BY <2>4 DEF One
  <2>6. RequestTicketsOut \in Nat
    BY <2>4, <2>5, TicketsFinite DEF RequestTicketsOut
  <2>7. RequestTicketsOut' = RequestTicketsOut - 1
    BY <2>2, <2>4, <2>5, TicketsFinite DEF RequestTicketsOut
  <2> QED
    BY <2>3, <2>6, <2>7 DEF NobodyBack, RequestTicketsCounted
<1>6. ASSUME NEW w \in Workers, NoLock, GiveTicketBack(w)
      PROVE  RequestTicketsCounted'
  <2>1. RequestTicketHolders' = RequestTicketHolders \ {w} /\ w \in RequestTicketHolders
    BY <1>6 DEF GiveTicketBack, RequestTicketHolders
  <2>2. Cardinality(RequestTicketHolders') = Cardinality(RequestTicketHolders) - 1
    BY <2>1, TicketsFinite, FS_RemoveElement
  <2>3. /\ qsem'["req_queue_size"] = qsem["req_queue_size"] + 1
        /\ qsem["req_queue_size"] \in Nat /\ requestQueue' = requestQueue
        /\ RequestUnannounced' <=> RequestUnannounced
    BY <1>6 DEF GiveTicketBack, RequestUnannounced
  <2>4. RequestTicketsOut' = RequestTicketsOut
    BY <2>2, <2>3, TicketsFinite DEF RequestTicketsOut, One
  <2> QED
    BY <2>3, <2>4 DEF NobodyBack, RequestTicketsCounted
<1>7. ASSUME NEW w \in Workers, trial = 3, LoseTicket(w)
      PROVE  RequestTicketsCounted'
  <2>1. RequestTicketHolders' = RequestTicketHolders \ {w} /\ w \in RequestTicketHolders
    BY <1>7 DEF LoseTicket, RequestTicketHolders
  <2>2. Cardinality(RequestTicketHolders') = Cardinality(RequestTicketHolders) - 1
    BY <2>1, TicketsFinite, FS_RemoveElement
  <2> QED
    BY <1>7, <2>2, TicketsFinite DEF LoseTicket, NobodyBack, RequestTicketsCounted,
       RequestTicketsOut, RequestUnannounced, One
<1>8. ASSUME trial \in {2, 4, 5}, ServerExitsAtOnce
      PROVE  RequestTicketsCounted'
  <2>1. RequestTicketHolders' = {} /\ ~NobodyCutOff'
    BY <1>8 DEF ServerExitsAtOnce, RequestTicketHolders, NobodyCutOff
  <2> QED
    BY <1>8, <2>1, TicketsFinite, FS_EmptySet DEF ServerExitsAtOnce, RequestTicketsCounted,
       RequestTicketsOut, RequestUnannounced, One
<1>9. ASSUME NoLock, UNCHANGED serverMainVars,
             \/ CopyRequest \/ ReleaseRequestSlot \/ LockForEnqueue \/ UnlockAfterEnqueue
      PROVE  RequestTicketsStill
  BY <1>9 DEF CopyRequest, ReleaseRequestSlot, LockForEnqueue, UnlockAfterEnqueue,
     RequestTicketsStill, RequestTicketHolders, RequestUnannounced
<1>10. ASSUME NoLock,
             \/ ETop \/ ELeave \/ WaitRequestInTime \/ MissRequest \/ IgnoreRequest
      PROVE  RequestTicketsStill
  BY <1>10 DEF ETop, ELeave, WaitRequestInTime, MissRequest, IgnoreRequest,
     RequestTicketsStill, RequestTicketHolders, RequestUnannounced
<1>11. ASSUME \/ TakeRequest \/ LockRequestBuffer \/ CopyLocked \/ UnlockRequestBuffer
             \/ MissRequestOrLock
      PROVE  RequestTicketsStill
  BY <1>11 DEF TakeRequest, LockRequestBuffer, CopyLocked, UnlockRequestBuffer,
     MissRequestOrLock, RequestTicketsStill, RequestTicketHolders, RequestUnannounced
<1>12. ASSUME NEW w \in Workers, NoLock, UNCHANGED serverMainVars,
             \/ LockForDequeue(w) \/ UnlockAfterDequeue(w) \/ ProcessNoDelete(w)
             \/ LockForResponse(w) \/ PushResponse(w) \/ UnlockAfterResponse(w)
             \/ AnnounceResponse(w)
      PROVE  RequestTicketsStill
  BY <1>12 DEF LockForDequeue, UnlockAfterDequeue, ProcessNoDelete, LockForResponse,
     PushResponse, UnlockAfterResponse, AnnounceResponse, RequestTicketsStill,
     RequestTicketHolders, RequestUnannounced
<1>13. ASSUME NEW w \in Workers, NoLock,
             \/ WTop(w) \/ WLeave(w) \/ MissTicket(w) \/ LockAndForget(w) \/ MissBoth(w)
             \/ MissLock(w) \/ DropResponse(w)
      PROVE  RequestTicketsStill
  BY <1>13 DEF WTop, WLeave, MissTicket, LockAndForget, MissBoth, MissLock,
     DropResponse, RequestTicketsStill, RequestTicketHolders, RequestUnannounced
<1>14. ASSUME NEW w \in Workers, MissTicketAndTurn(w)
      PROVE  RequestTicketsStill
  BY <1>14 DEF MissTicketAndTurn, RequestTicketsStill, RequestTicketHolders,
     RequestUnannounced
<1>15. ASSUME NoLock,
             \/ SpawnServerThread \/ DrainServerExit \/ ServerExits \/ ServerSigint
      PROVE  RequestTicketsStill
  BY <1>15 DEF SpawnServerThread, DrainServerExit, ServerExits, ServerSigint,
     RequestTicketsStill, RequestTicketHolders, RequestUnannounced
<1>16. ASSUME LockedResponseThreadStep
      PROVE  RequestTicketsStill
  BY <1>16, ResponseThreadAlone DEF RequestTicketsStill, RequestTicketHolders,
     RequestUnannounced
<1> QED
  BY <1>1, <1>2, <1>3, <1>4, <1>5, <1>6, <1>7, <1>8, <1>9, <1>10, <1>11, <1>12, <1>13,
     <1>14, <1>15, <1>16, RequestTicketsStay DEF LockedServerNext, LockedServerMainStep,
     LockedRequestThreadStep, TimedRequestThreadStep, Server2Request, Server3Request,
     EnqueueLocked, LockedWorkerStep, TimedWorkerStep, TimedProcess, Server2Work,
     Server3Work, WorkLocked

\* A step that leaves the response queue and its tickets as they are.
ResultTicketsStill ==
  /\ responseQueue' = responseQueue
  /\ qsem'["res_queue_size"] = qsem["res_queue_size"]
  /\ ResponseUnannounced' = ResponseUnannounced
  /\ HoldsResultTicket' <=> HoldsResultTicket

\* It keeps the invariant about them.
LEMMA ResultTicketsStay ==
  ASSUME ResultTicketsStill, NobodyBack, NobodyCutOff' => NobodyCutOff,
         ResultTicketsCounted
  PROVE  ResultTicketsCounted'
BY DEF ResultTicketsStill, NobodyBack, ResultTicketsCounted, ResultTicketsOut, One

\* A response is pushed before its ticket is posted, and popped with a ticket in
\* hand; server3 alone may lose a ticket.
LEMMA ServerCountsResultTickets ==
  ASSUME LockedTypes, NoPopFromEmptyQueue, ResultTicketsCounted, NobodyBack,
         NobodyCutOff' => NobodyCutOff, LockedServerNext
  PROVE  ResultTicketsCounted'
<1> USE DEF LockedTypes, ServerTypes, QueueTypes, QueueSems, WorkTypes, DeqTypes
<1>1. ASSUME NEW w \in Workers, NoLock, UNCHANGED serverMainVars, PushResponse(w)
      PROVE  ResultTicketsCounted'
  <2>1. ResponseUnannounced' = ResponseUnannounced \cup {w} /\ w \notin ResponseUnannounced
    BY <1>1 DEF PushResponse, ResponseUnannounced
  <2>2. Cardinality(ResponseUnannounced') = Cardinality(ResponseUnannounced) + 1
    BY <2>1, TicketsFinite, FS_AddElement
  <2> QED
    BY <1>1, <2>2, TicketsFinite, AppendProperties DEF PushResponse, NobodyBack,
       ResultTicketsCounted, ResultTicketsOut, HoldsResultTicket, One, WorkDone
<1>2. ASSUME NEW w \in Workers, NoLock, UNCHANGED serverMainVars, AnnounceResponse(w)
      PROVE  ResultTicketsCounted'
  <2>1. ResponseUnannounced' = ResponseUnannounced \ {w} /\ w \in ResponseUnannounced
    BY <1>2 DEF AnnounceResponse, ResponseUnannounced
  <2>2. Cardinality(ResponseUnannounced') = Cardinality(ResponseUnannounced) - 1
    BY <2>1, TicketsFinite, FS_RemoveElement
  <2> QED
    BY <1>2, <2>2, TicketsFinite DEF AnnounceResponse, NobodyBack, ResultTicketsCounted,
       ResultTicketsOut, HoldsResultTicket, One
<1>3. ASSUME NoLock, UNCHANGED serverMainVars, WaitResult
      PROVE  ResultTicketsCounted'
  <2>1. ResponseUnannounced' = ResponseUnannounced
    BY <1>3 DEF WaitResult, ResponseUnannounced
  <2> QED
    BY <1>3, <2>1, TicketsFinite DEF WaitResult, NobodyBack, ResultTicketsCounted,
       ResultTicketsOut, HoldsResultTicket, One
<1>4. ASSUME NoLock, WaitResultInTime
      PROVE  ResultTicketsCounted'
  <2>1. ResponseUnannounced' = ResponseUnannounced
    BY <1>4 DEF WaitResultInTime, ResponseUnannounced
  <2> QED
    BY <1>4, <2>1, TicketsFinite DEF WaitResultInTime, NobodyBack, ResultTicketsCounted,
       ResultTicketsOut, HoldsResultTicket, One
<1>5. ASSUME NoLock, UNCHANGED serverMainVars, PopResult
      PROVE  ResultTicketsCounted'
  <2>1. ResponseUnannounced' = ResponseUnannounced
    BY <1>5 DEF PopResult, ResponseUnannounced
  <2>2. Len(responseQueue') = Len(responseQueue) - 1 /\ Len(responseQueue) \in Nat
    BY <1>5, HeadTailProperties DEF PopResult, NoPopFromEmptyQueue
  <2> QED
    BY <1>5, <2>1, <2>2, TicketsFinite DEF PopResult, NobodyBack, ResultTicketsCounted,
       ResultTicketsOut, HoldsResultTicket, One
<1>6. ASSUME NoLock, GiveResultBack
      PROVE  ResultTicketsCounted'
  <2>1. ResponseUnannounced' = ResponseUnannounced
    BY <1>6 DEF GiveResultBack, ResponseUnannounced
  <2> QED
    BY <1>6, <2>1, TicketsFinite DEF GiveResultBack, NobodyBack, ResultTicketsCounted,
       ResultTicketsOut, HoldsResultTicket, One
<1>7. ASSUME trial = 3, LoseResult
      PROVE  ResultTicketsCounted'
  <2>1. ResponseUnannounced' = ResponseUnannounced
    BY <1>7 DEF LoseResult, ResponseUnannounced
  <2> QED
    BY <1>7, <2>1, TicketsFinite DEF LoseResult, NobodyBack, ResultTicketsCounted,
       ResultTicketsOut, HoldsResultTicket, One
<1>8. ASSUME trial \in {2, 4, 5}, ServerExitsAtOnce
      PROVE  ResultTicketsCounted'
  <2>1. ResponseUnannounced' = {} /\ ~NobodyCutOff'
    BY <1>8 DEF ServerExitsAtOnce, ResponseUnannounced, NobodyCutOff
  <2> QED
    BY <1>8, <2>1, TicketsFinite, FS_EmptySet DEF ServerExitsAtOnce, ResultTicketsCounted,
       ResultTicketsOut, HoldsResultTicket, One
<1>9. ASSUME NEW w \in Workers, NoLock, UNCHANGED serverMainVars,
             \/ TakeTicket(w) \/ LockForDequeue(w) \/ PopRequest(w)
             \/ UnlockAfterDequeue(w) \/ ProcessNoDelete(w) \/ LockForResponse(w)
             \/ UnlockAfterResponse(w)
      PROVE  ResultTicketsStill
  BY <1>9 DEF TakeTicket, LockForDequeue, PopRequest, UnlockAfterDequeue,
     ProcessNoDelete, LockForResponse, UnlockAfterResponse, ResultTicketsStill,
     ResponseUnannounced, HoldsResultTicket
<1>10. ASSUME NEW w \in Workers, NoLock,
             \/ WTop(w) \/ WLeave(w) \/ TakeTicketInTime(w) \/ MissTicket(w)
             \/ LockAndForget(w) \/ MissBoth(w) \/ MissLock(w) \/ GiveTicketBack(w)
             \/ DropResponse(w)
      PROVE  ResultTicketsStill
  BY <1>10 DEF WTop, WLeave, TakeTicketInTime, MissTicket, LockAndForget, MissBoth,
     MissLock, GiveTicketBack, DropResponse, ResultTicketsStill, ResponseUnannounced,
     HoldsResultTicket
<1>11. ASSUME NEW w \in Workers,
             \/ MissTicketAndTurn(w) \/ LoseTicket(w)
      PROVE  ResultTicketsStill
  BY <1>11 DEF MissTicketAndTurn, LoseTicket, ResultTicketsStill, ResponseUnannounced,
     HoldsResultTicket
<1>12. ASSUME NoLock, UNCHANGED serverMainVars,
             \/ LockForResult \/ UnlockAfterResult \/ WaitResponseSpace \/ WriteResponse
             \/ PostResponse
      PROVE  ResultTicketsStill
  BY <1>12 DEF LockForResult, UnlockAfterResult, WaitResponseSpace, WriteResponse,
     PostResponse, ResultTicketsStill, ResponseUnannounced, HoldsResultTicket
<1>13. ASSUME NoLock,
             \/ RTop \/ RLeave \/ MissResult \/ LockResultsAndForget \/ MissResultAndLock
             \/ MissResultLock \/ ForceSpace
      PROVE  ResultTicketsStill
  BY <1>13 DEF RTop, RLeave, MissResult, LockResultsAndForget, MissResultAndLock,
     MissResultLock, ForceSpace, ResultTicketsStill, ResponseUnannounced,
     HoldsResultTicket
<1>14. ASSUME \/ TakeResponseSpace \/ LockResponseBuffer \/ WriteLockedResponse
             \/ UnlockResponseBuffer \/ WriteAnyway \/ MissSpaceAnyway \/ LockAndDrop
             \/ MissAndDrop \/ DropWithSpace \/ MissResponseBuffer \/ ReturnSpaceAndDrop
             \/ MissResultAndTurn
      PROVE  ResultTicketsStill
  BY <1>14 DEF TakeResponseSpace, LockResponseBuffer, WriteLockedResponse,
     UnlockResponseBuffer, WriteAnyway, MissSpaceAnyway, LockAndDrop, MissAndDrop,
     DropWithSpace, MissResponseBuffer, ReturnSpaceAndDrop, MissResultAndTurn,
     ResultTicketsStill, ResponseUnannounced, HoldsResultTicket
<1>15. ASSUME NoLock,
             \/ SpawnServerThread \/ DrainServerExit \/ ServerExits \/ ServerSigint
      PROVE  ResultTicketsStill
  BY <1>15 DEF SpawnServerThread, DrainServerExit, ServerExits, ServerSigint,
     ResultTicketsStill, ResponseUnannounced, HoldsResultTicket
<1>16. ASSUME LockedRequestThreadStep
      PROVE  ResultTicketsStill
  BY <1>16, RequestThreadAlone DEF ResultTicketsStill, ResponseUnannounced,
     HoldsResultTicket
<1> QED
  BY <1>1, <1>2, <1>3, <1>4, <1>5, <1>6, <1>7, <1>8, <1>9, <1>10, <1>11, <1>12, <1>13,
     <1>14, <1>15, <1>16, ResultTicketsStay DEF LockedServerNext, LockedServerMainStep,
     LockedWorkerStep, TimedWorkerStep, TimedProcess, Server2Work, Server3Work,
     WorkLocked, LockedResponseThreadStep, TimedResponseThreadStep, Server2Response,
     Server3Response, Server5Response, DequeueLocked

-----------------------------------------------------------------------------
(* The end of the server.                                                  *)

\* The number of processing threads that have left is a number.
LEMMA LeftFinite ==
  /\ IsFiniteSet(WorkersLeft) /\ Cardinality(WorkersLeft) \in Nat
  /\ Cardinality(Workers) \in Nat /\ Cardinality(WorkersLeft) <= Cardinality(Workers)
  /\ Cardinality(WorkersLeft) = Cardinality(Workers) => WorkersLeft = Workers
<1>1. IsFiniteSet(Workers) /\ WorkersLeft \subseteq Workers
  BY ServerAssumption DEF WorkersLeft
<1>2. IsFiniteSet(WorkersLeft)
  BY <1>1, FS_Subset
<1> QED
  BY <1>1, <1>2, FS_Subset, FS_CardinalityType

\* A step in which no thread of the server leaves, and the handler neither collects
\* a post nor ends.
ExitsStill ==
  /\ sdrained' = sdrained /\ all_threads_exited' = all_threads_exited
  /\ WorkersLeft' = WorkersLeft
  /\ epc' = "exited" <=> epc = "exited"
  /\ rpc' = "exited" <=> rpc = "exited"
  /\ spc' = "finished" => spc = "finished"

\* It keeps the invariants about the end of the server.
LEMMA ExitsStay ==
  ASSUME ExitsStill, NobodyBack, ExitsPosted, ServerExitsLast
  PROVE  ExitsPosted' /\ ServerExitsLast'
BY DEF ExitsStill, NobodyBack, ExitsPosted, ThreadsLeft, One, ServerExitsLast,
       ServerThreadsLeft, WorkersLeft

\* Each thread of the server posts once, when it leaves, and the handler goes on when
\* it has all the posts; or all threads end with the process.
LEMMA ServerCountsExits ==
  ASSUME LockedTypes, ExitsPosted, ServerExitsLast, NobodyBack, LockedServerNext
  PROVE  ExitsPosted' /\ ServerExitsLast'
<1> USE DEF LockedTypes, ServerTypes, ServerMainTypes, WorkTypes
<1>1. ASSUME NoLock, ELeave
      PROVE  ExitsPosted' /\ ServerExitsLast'
  <2>1. WorkersLeft' = WorkersLeft
    BY <1>1 DEF ELeave, WorkersLeft
  <2>2. ServerExitsLast'
    BY <1>1 DEF ELeave, ServerExitsLast, ServerThreadsLeft
  <2> QED
    BY <1>1, <2>1, <2>2, LeftFinite DEF ELeave, NobodyBack, ExitsPosted, ThreadsLeft, One
<1>2. ASSUME NEW w \in Workers, NoLock, WLeave(w)
      PROVE  ExitsPosted' /\ ServerExitsLast'
  <2>1. WorkersLeft' = WorkersLeft \cup {w} /\ w \notin WorkersLeft
    BY <1>2 DEF WLeave, WorkersLeft
  <2>2. Cardinality(WorkersLeft') = Cardinality(WorkersLeft) + 1
    BY <2>1, LeftFinite, FS_AddElement
  <2>3. ServerExitsLast'
    BY <1>2 DEF WLeave, ServerExitsLast, ServerThreadsLeft
  <2> QED
    BY <1>2, <2>2, <2>3, LeftFinite DEF WLeave, NobodyBack, ExitsPosted, ThreadsLeft, One
<1>3. ASSUME NoLock, RLeave
      PROVE  ExitsPosted' /\ ServerExitsLast'
  <2>1. WorkersLeft' = WorkersLeft
    BY <1>3 DEF RLeave, WorkersLeft
  <2>2. ServerExitsLast'
    BY <1>3 DEF RLeave, ServerExitsLast, ServerThreadsLeft
  <2> QED
    BY <1>3, <2>1, <2>2, LeftFinite DEF RLeave, NobodyBack, ExitsPosted, ThreadsLeft, One
<1>4. ASSUME NoLock, DrainServerExit
      PROVE  ExitsPosted' /\ ServerExitsLast'
  <2>1. WorkersLeft' = WorkersLeft
    BY <1>4 DEF DrainServerExit, WorkersLeft
  <2>2. ServerExitsLast'
    BY <1>4 DEF DrainServerExit, ServerExitsLast, ServerThreadsLeft
  <2> QED
    BY <1>4, <2>1, <2>2, LeftFinite DEF DrainServerExit, NobodyBack, ExitsPosted,
       ThreadsLeft, One
<1>5. ASSUME trial \in {1, 3}, NoLock, ServerExits
      PROVE  ExitsPosted' /\ ServerExitsLast'
  <2>1. sdrained = Cardinality(Workers) + 2 /\ sdrained + all_threads_exited = ThreadsLeft
    BY <1>5 DEF ServerExits, ExitsPosted
  <2>2. /\ Cardinality(WorkersLeft) = Cardinality(Workers)
        /\ epc = "exited" /\ rpc = "exited"
    BY <2>1, LeftFinite DEF ThreadsLeft, One
  <2>3. WorkersLeft = Workers
    BY <2>2, LeftFinite
  <2>4. ServerThreadsLeft
    BY <2>2, <2>3 DEF ServerThreadsLeft, WorkersLeft
  <2>5. ServerThreadsLeft' /\ WorkersLeft' = WorkersLeft
    BY <1>5, <2>4 DEF ServerExits, ServerThreadsLeft, WorkersLeft
  <2> QED
    BY <1>5, <2>5 DEF ServerExits, NobodyBack, ServerExitsLast, ExitsPosted, ThreadsLeft,
       One
<1>6. ASSUME trial \in {2, 4, 5}, ServerExitsAtOnce
      PROVE  ExitsPosted' /\ ServerExitsLast'
  BY <1>6 DEF ServerExitsAtOnce, ExitsPosted, NobodyBack, ServerExitsLast,
     ServerThreadsLeft
<1>7. ASSUME NoLock, UNCHANGED serverMainVars,
             \/ CopyRequest \/ ReleaseRequestSlot \/ LockForEnqueue \/ PushRequest
             \/ UnlockAfterEnqueue \/ AnnounceRequest
      PROVE  ExitsStill
  BY <1>7 DEF CopyRequest, ReleaseRequestSlot, LockForEnqueue, PushRequest,
     UnlockAfterEnqueue, AnnounceRequest, ExitsStill, WorkersLeft
<1>8. ASSUME NoLock,
             \/ ETop \/ WaitRequestInTime \/ MissRequest \/ IgnoreRequest
      PROVE  ExitsStill
  BY <1>8 DEF ETop, WaitRequestInTime, MissRequest, IgnoreRequest, ExitsStill,
     WorkersLeft
<1>9. ASSUME \/ TakeRequest \/ LockRequestBuffer \/ CopyLocked \/ UnlockRequestBuffer
             \/ MissRequestOrLock
      PROVE  ExitsStill
  BY <1>9 DEF TakeRequest, LockRequestBuffer, CopyLocked, UnlockRequestBuffer,
     MissRequestOrLock, ExitsStill, WorkersLeft
<1>10. ASSUME NEW w \in Workers, NoLock, UNCHANGED serverMainVars,
             \/ TakeTicket(w) \/ LockForDequeue(w) \/ PopRequest(w)
             \/ UnlockAfterDequeue(w) \/ ProcessNoDelete(w) \/ LockForResponse(w)
             \/ PushResponse(w) \/ UnlockAfterResponse(w) \/ AnnounceResponse(w)
      PROVE  ExitsStill
  BY <1>10 DEF TakeTicket, LockForDequeue, PopRequest, UnlockAfterDequeue,
     ProcessNoDelete, LockForResponse, PushResponse, UnlockAfterResponse,
     AnnounceResponse, ExitsStill, WorkersLeft
<1>11. ASSUME NEW w \in Workers, NoLock,
             \/ WTop(w) \/ TakeTicketInTime(w) \/ MissTicket(w) \/ LockAndForget(w)
             \/ MissBoth(w) \/ MissLock(w) \/ GiveTicketBack(w) \/ DropResponse(w)
      PROVE  ExitsStill
  BY <1>11 DEF WTop, TakeTicketInTime, MissTicket, LockAndForget, MissBoth, MissLock,
     GiveTicketBack, DropResponse, ExitsStill, WorkersLeft
<1>12. ASSUME NEW w \in Workers,
             \/ MissTicketAndTurn(w) \/ LoseTicket(w)
      PROVE  ExitsStill
  BY <1>12 DEF MissTicketAndTurn, LoseTicket, ExitsStill, WorkersLeft
<1>13. ASSUME NoLock, UNCHANGED serverMainVars,
             \/ WaitResult \/ LockForResult \/ PopResult \/ UnlockAfterResult
             \/ WaitResponseSpace \/ WriteResponse \/ PostResponse
      PROVE  ExitsStill
  BY <1>13 DEF WaitResult, LockForResult, PopResult, UnlockAfterResult,
     WaitResponseSpace, WriteResponse, PostResponse, ExitsStill, WorkersLeft
<1>14. ASSUME NoLock,
             \/ RTop \/ WaitResultInTime \/ MissResult \/ LockResultsAndForget
             \/ MissResultAndLock \/ MissResultLock \/ GiveResultBack \/ ForceSpace
      PROVE  ExitsStill
  BY <1>14 DEF RTop, WaitResultInTime, MissResult, LockResultsAndForget,
     MissResultAndLock, MissResultLock, GiveResultBack, ForceSpace, ExitsStill,
     WorkersLeft
<1>15. ASSUME \/ TakeResponseSpace \/ LockResponseBuffer \/ WriteLockedResponse
             \/ UnlockResponseBuffer \/ WriteAnyway \/ MissSpaceAnyway \/ LockAndDrop
             \/ MissAndDrop \/ DropWithSpace \/ MissResponseBuffer \/ ReturnSpaceAndDrop
             \/ MissResultAndTurn \/ LoseResult
      PROVE  ExitsStill
  BY <1>15 DEF TakeResponseSpace, LockResponseBuffer, WriteLockedResponse,
     UnlockResponseBuffer, WriteAnyway, MissSpaceAnyway, LockAndDrop, MissAndDrop,
     DropWithSpace, MissResponseBuffer, ReturnSpaceAndDrop, MissResultAndTurn,
     LoseResult, ExitsStill, WorkersLeft
<1>16. ASSUME NoLock,
             \/ SpawnServerThread \/ ServerSigint
      PROVE  ExitsStill
  BY <1>16 DEF SpawnServerThread, ServerSigint, ExitsStill, WorkersLeft
<1> QED
  BY <1>1, <1>2, <1>3, <1>4, <1>5, <1>6, <1>7, <1>8, <1>9, <1>10, <1>11, <1>12, <1>13,
     <1>14, <1>15, <1>16, ExitsStay DEF LockedServerNext, LockedRequestThreadStep,
     LockedWorkerStep, LockedResponseThreadStep, LockedServerMainStep,
     TimedRequestThreadStep, TimedWorkerStep, TimedResponseThreadStep, TimedProcess,
     Server2Request, Server2Work, Server2Response, Server3Request, Server3Work,
     Server3Response, Server5Response, EnqueueLocked, WorkLocked, DequeueLocked

-----------------------------------------------------------------------------
(* The invariant.                                                          *)

\* The programs start with free slots and locks, empty queues, and nobody born.
LEMMA LockedInitially ==
  ASSUME LockedInit
  PROVE  LockedIInv
<1> USE DEF LockedInit, TimedInit, ShmInit, ClientInit, TimedServerInit, BufferLocksInit
<1>1. LockedTypes
  <2>1. ShmTypeOK /\ LockTypes
    BY TrialsAssumption DEF ShmTypeOK, ShmSems, LockTypes
  <2>2. ClientTypes
    BY TimedClientAssumption DEF ClientTypes, LockedClientTypeOK, ThreadLabels, MainLabels
  <2>3. QueueTypes /\ EnqTypes /\ DeqTypes /\ ServerMainTypes
    BY EmptySeq DEF QueueTypes, QueueSems, EnqTypes, EnqHolds, DeqTypes, DeqHolds,
       ServerMainTypes
  <2>4. WorkTypes
    BY DEF WorkTypes, WorkHolds, WorkDone
  <2> QED
    BY <2>1, <2>2, <2>3, <2>4 DEF LockedTypes, ServerTypes
<1>2. RequestSlotFilled
  BY DEF RequestSlotFilled, ShmSems
<1>3. RequestPermitOnce /\ RequestPermitSomewhere
  BY DEF RequestPermitOnce, RequestPermitSomewhere, RequestPermitFree, HasRequestPermit,
     ServerHasRequestPermit, ShmSems
<1>4. ResponsePermitOnce /\ ResponsePermitSomewhere
  BY DEF ResponsePermitOnce, ResponsePermitSomewhere, ResponsePermitFree,
     HasResponsePermit, ServerHasResponsePermit, ShmSems
<1>5. RequestLockFollows
  BY DEF RequestLockFollows, ClientHasRequestLock, ServerHasRequestLock
<1>6. RequestQueueLockOnce /\ ResponseQueueLockOnce
  BY DEF RequestQueueLockOnce, ResponseQueueLockOnce, WorkerInRequestQueue,
     EnqInRequestQueue, WorkerInResponseQueue, DeqInResponseQueue, QueueSems
<1>7. RequestTicketsCounted /\ ResultTicketsCounted
  <2>1. RequestTicketHolders = {} /\ ResponseUnannounced = {}
    BY DEF RequestTicketHolders, ResponseUnannounced
  <2>2. RequestTicketsOut = 0 /\ ResultTicketsOut = 0
    BY <2>1, FS_EmptySet DEF RequestTicketsOut, ResultTicketsOut, RequestUnannounced,
       HoldsResultTicket, One, QueueSems
  <2> QED
    BY <2>2, EmptySeq DEF RequestTicketsCounted, ResultTicketsCounted
<1>8. ExitsPosted /\ ServerExitsLast
  <2>1. WorkersLeft = {}
    BY DEF WorkersLeft
  <2> QED
    BY <2>1, FS_EmptySet DEF ExitsPosted, ThreadsLeft, One, ServerExitsLast
<1> QED
  BY <1>1, <1>2, <1>3, <1>4, <1>5, <1>6, <1>7, <1>8 DEF LockedIInv

\* The parts of the invariant that the client does not touch.
LEMMA ServerSideStays ==
  ASSUME LockedIInv, NobodyBack, NobodyCutOff' => NobodyCutOff, UNCHANGED timedServerVars
  PROVE  /\ ServerTypes'
         /\ RequestQueueLockOnce' /\ ResponseQueueLockOnce'
         /\ RequestTicketsCounted' /\ ResultTicketsCounted'
         /\ ExitsPosted' /\ ServerExitsLast'
<1> USE DEF LockedIInv
<1>1. ServerTypes'
  BY DEF LockedTypes, ServerTypes, QueueTypes, EnqTypes, WorkTypes, DeqTypes,
     ServerMainTypes
<1>2. RequestQueueLockStill /\ ResponseQueueLockStill
  BY DEF RequestQueueLockStill, WorkerInRequestQueue, EnqInRequestQueue,
     ResponseQueueLockStill, WorkerInResponseQueue, DeqInResponseQueue
<1>3. RequestTicketsStill /\ ResultTicketsStill
  BY DEF RequestTicketsStill, RequestTicketHolders, RequestUnannounced,
     ResultTicketsStill, ResponseUnannounced, HoldsResultTicket
<1>4. ExitsStill
  BY DEF ExitsStill, WorkersLeft
<1> QED
  BY <1>1, <1>2, <1>3, <1>4, RequestQueueLockStays, ResponseQueueLockStays,
     RequestTicketsStay, ResultTicketsStay, ExitsStay

\* A client step keeps the invariant.
LEMMA ClientKeepsLockedIInv ==
  ASSUME LockedIInv, LockedClientNext, UNCHANGED timedServerVars
  PROVE  LockedIInv'
<1> USE DEF LockedIInv
<1>1. LockedNext
  BY DEF LockedNext
<1>2. NobodyBack /\ (NobodyCutOff' => NobodyCutOff)
  BY <1>1, CutOffBefore
<1>3. ShmTypeOK' /\ LockTypes' /\ ClientTypes'
  BY ClientKeepsTypes
<1>4. /\ ServerTypes'
      /\ RequestQueueLockOnce' /\ ResponseQueueLockOnce'
      /\ RequestTicketsCounted' /\ ResultTicketsCounted'
      /\ ExitsPosted' /\ ServerExitsLast'
  BY <1>2, ServerSideStays
<1>5. RequestPermitOnce' /\ RequestPermitSomewhere'
  BY <1>2, ClientKeepsRequestPermit
<1>6. ResponsePermitOnce' /\ ResponsePermitSomewhere'
  BY <1>2, ClientKeepsResponsePermit
<1>7. RequestLockFollows'
  BY <1>1, <1>2, StepKeepsRequestLock
<1>8. RequestSlotFilled'
  BY ClientFillsRequestSlot
<1> QED
  BY <1>3, <1>4, <1>5, <1>6, <1>7, <1>8 DEF LockedTypes

\* A server step keeps the types.
LEMMA ServerKeepsTypes ==
  ASSUME LockedTypes, NoPopFromEmptyQueue, RequestSlotFilled,
         LockedServerNext, UNCHANGED clientVars
  PROVE  LockedTypes'
<1>1. ClientTypes'
  BY DEF LockedTypes, ClientTypes, LockedClientTypeOK
<1>2. ASSUME LockedRequestThreadStep
      PROVE  LockedTypes'
  <2>1. UNCHANGED <<workVars, deqVars>>
    BY <1>2, RequestThreadAlone
  <2>2. WorkTypes' /\ DeqTypes'
    BY <2>1 DEF LockedTypes, ServerTypes, WorkTypes, DeqTypes
  <2> QED
    BY <1>1, <1>2, <2>2, RequestThreadKeepsTypes DEF LockedTypes, ServerTypes
<1>3. ASSUME NEW w \in Workers, LockedWorkerStep(w)
      PROVE  LockedTypes'
  <2>1. UNCHANGED <<enqVars, deqVars>>
    BY <1>3, WorkerAlone
  <2>2. EnqTypes' /\ DeqTypes'
    BY <2>1 DEF LockedTypes, ServerTypes, EnqTypes, DeqTypes
  <2> QED
    BY <1>1, <1>3, <2>2, WorkerKeepsTypes DEF LockedTypes, ServerTypes
<1>4. ASSUME LockedResponseThreadStep
      PROVE  LockedTypes'
  <2>1. UNCHANGED <<enqVars, workVars>>
    BY <1>4, ResponseThreadAlone
  <2>2. EnqTypes' /\ WorkTypes'
    BY <2>1 DEF LockedTypes, ServerTypes, EnqTypes, WorkTypes
  <2> QED
    BY <1>1, <1>4, <2>2, ResponseThreadKeepsTypes DEF LockedTypes, ServerTypes
<1>5. ASSUME ServerMain
      PROVE  LockedTypes'
  BY <1>1, <1>5, ServerMainKeepsTypes DEF LockedTypes
<1> QED
  BY <1>2, <1>3, <1>4, <1>5 DEF LockedServerNext, ServerMain

\* A server step keeps the invariant.
LEMMA ServerKeepsLockedIInv ==
  ASSUME LockedIInv, LockedServerNext, UNCHANGED clientVars
  PROVE  LockedIInv'
<1> USE DEF LockedIInv
<1>1. LockedNext
  BY DEF LockedNext
<1>2. NobodyBack /\ (NobodyCutOff' => NobodyCutOff)
  BY <1>1, CutOffBefore
<1>3. NoPopFromEmptyQueue
  BY TicketsKeepFromEmpty
<1>4. LockedTypes'
  BY <1>3, ServerKeepsTypes
<1>5. RequestQueueLockOnce' /\ ResponseQueueLockOnce'
  BY ServerKeepsRequestQueueLock, ServerKeepsResponseQueueLock
<1>6. RequestTicketsCounted' /\ ResultTicketsCounted'
  BY <1>2, <1>3, ServerCountsRequestTickets, ServerCountsResultTickets
<1>7. RequestPermitOnce' /\ RequestPermitSomewhere'
  BY <1>2, ServerKeepsRequestPermit
<1>8. ResponsePermitOnce' /\ ResponsePermitSomewhere'
  BY <1>2, ServerKeepsResponsePermit
<1>9. RequestLockFollows'
  BY <1>1, <1>2, StepKeepsRequestLock
<1>10. RequestSlotFilled'
  BY ServerFindsRequestSlotFilled
<1>11. ExitsPosted' /\ ServerExitsLast'
  BY <1>2, ServerCountsExits
<1> QED
  BY <1>4, <1>5, <1>6, <1>7, <1>8, <1>9, <1>10, <1>11

\* Nothing happens, and nothing changes.
LEMMA StutterKeepsLockedIInv ==
  ASSUME LockedIInv, UNCHANGED lockedVars
  PROVE  LockedIInv'
<1> USE DEF LockedIInv
<1>1. NobodyBack /\ (NobodyCutOff' => NobodyCutOff)
  BY DEF NobodyBack, NobodyCutOff
<1>2. ShmTypeOK' /\ LockTypes' /\ ClientTypes'
  BY DEF LockedTypes, ShmTypeOK, LockTypes, ClientTypes, LockedClientTypeOK
<1>3. /\ ServerTypes'
      /\ RequestQueueLockOnce' /\ ResponseQueueLockOnce'
      /\ RequestTicketsCounted' /\ ResultTicketsCounted'
      /\ ExitsPosted' /\ ServerExitsLast'
  BY <1>1, ServerSideStays
<1>4. RequestPermitStill /\ ResponsePermitStill
  BY DEF RequestPermitStill, RequestPermitFree, ServerHasRequestPermit, HasRequestPermit,
     ResponsePermitStill, ResponsePermitFree, ServerHasResponsePermit, HasResponsePermit
<1>5. RequestLockStill /\ RequestSlotStill
  BY <1>4 DEF RequestLockStill, ServerHasRequestLock, ClientHasRequestLock,
     RequestSlotStill
<1> QED
  BY <1>1, <1>2, <1>3, <1>4, <1>5, RequestPermitStays, ResponsePermitStays,
     RequestLockStays, RequestSlotStays DEF LockedTypes

-----------------------------------------------------------------------------
(* The theorems.                                                           *)

\* The invariant holds in every pair of programs of trial/.
THEOREM LockedInvariance == LockedSpec => []LockedIInv
<1>1. LockedInit => LockedIInv
  BY LockedInitially
<1>2. LockedIInv /\ [LockedNext]_lockedVars => LockedIInv'
  <2>1. ASSUME LockedIInv, LockedNext
        PROVE  LockedIInv'
    BY <2>1, ClientKeepsLockedIInv, ServerKeepsLockedIInv DEF LockedNext
  <2> QED
    BY <2>1, StutterKeepsLockedIInv
<1> QED
  BY <1>1, <1>2, PTL DEF LockedSpec

\* Every variable has its type in all of them, and a local variable holds a real
\* request or response where the thread that owns it uses it.
THEOREM LockedTypeCorrect == LockedSpec => []LockedTypeOK
<1>1. LockedIInv => LockedTypeOK
  BY DEF LockedIInv, LockedTypes, LockTypes, ClientTypes, ServerTypes, QueueTypes,
     EnqTypes, WorkTypes, DeqTypes, ServerMainTypes, LockedTypeOK, LockedServerTypeOK
<1> QED
  BY <1>1, LockedInvariance, PTL

\* No two threads are in a queue at once, although locks may be taken and forgotten.
THEOREM LockedQueuesExclusive == LockedSpec => []QueuesExclusive
<1>1. LockedIInv => QueuesExclusive
  BY DEF LockedIInv, QueuesExclusive, RequestQueueLockOnce, ResponseQueueLockOnce
<1> QED
  BY <1>1, LockedInvariance, PTL

\* front() and pop() never meet an empty queue, whatever tickets are missed, given
\* back or lost.
THEOREM LockedPopsFindElements == LockedSpec => []NoPopFromEmptyQueue
<1>1. LockedIInv => NoPopFromEmptyQueue
  BY TicketsKeepFromEmpty DEF LockedIInv
<1> QED
  BY <1>1, LockedInvariance, PTL

\* A set with no two elements is empty or has one.
LEMMA AtMostOne ==
  ASSUME NEW S, \A x, y \in S : x = y
  PROVE  /\ Cardinality(S) \in {0, 1}
         /\ S = {} <=> Cardinality(S) = 0
<1>1. CASE S = {}
  BY <1>1, FS_EmptySet
<1>2. ASSUME NEW x \in S
      PROVE  Cardinality(S) = 1
  <2>1. S = {x}
    OBVIOUS
  <2> QED
    BY <2>1, FS_Singleton
<1> QED
  BY <1>1, <1>2

\* A permit is in a semaphore or in one hand: the arithmetic of the two slots.
LEMMA OnePermit ==
  ASSUME NEW free \in Nat, NEW server \in BOOLEAN, NEW H,
         free <= 1,
         free = 1 => ~server /\ H = {},
         server => H = {},
         \A x, y \in H : x = y
  PROVE  /\ free + Cardinality(H) + One(server) <= 1
         /\ free >= 1 \/ server \/ H # {} => free + Cardinality(H) + One(server) = 1
<1>1. Cardinality(H) \in {0, 1} /\ (H = {} <=> Cardinality(H) = 0)
  BY AtMostOne
<1> QED
  BY <1>1 DEF One

\* In all pairs of programs there is one permit for the request slot, whatever is
\* given up; it is there as long as no process is cut off.
THEOREM OneRequestPermit == LockedSpec => []RequestPermitKept
<1>1. LockedIInv => RequestPermitKept
  <2> SUFFICES ASSUME LockedIInv
               PROVE  RequestPermitKept
    OBVIOUS
  <2> DEFINE H == {c \in Clients : HasRequestPermit(c)}
  <2>1. sem["req_available"] \in Nat /\ sem["req_space_available"] \in Nat
    BY DEF LockedIInv, LockedTypes, ShmTypeOK, ShmSems
  <2>2. RequestPermitFree \in Nat /\ ServerHasRequestPermit \in BOOLEAN
    BY <2>1 DEF RequestPermitFree, ServerHasRequestPermit
  <2>3. /\ RequestPermitFree <= 1
        /\ RequestPermitFree = 1 => ~ServerHasRequestPermit /\ H = {}
        /\ ServerHasRequestPermit => H = {}
        /\ \A x, y \in H : x = y
        /\ NobodyCutOff => RequestPermitFree >= 1 \/ ServerHasRequestPermit \/ H # {}
    BY DEF LockedIInv, RequestPermitOnce, RequestPermitSomewhere
  <2>4. RequestPermits = RequestPermitFree + Cardinality(H) + One(ServerHasRequestPermit)
    BY DEF RequestPermits, RequestPermitFree
  <2> HIDE DEF H
  <2>5. /\ RequestPermits <= 1
        /\ NobodyCutOff => RequestPermits = 1
    BY <2>2, <2>3, <2>4, OnePermit
  <2> QED
    BY <2>5 DEF RequestPermitKept
<1> QED
  BY <1>1, LockedInvariance, PTL

\* The permit of the response slot: never lost by the timed pair and pair 2, never
\* doubled by the pairs 3 and 4, and exactly one in pair 5.
THEOREM ResponsePermitsOfEachPair == LockedSpec => []ResponsePermitKept
<1>1. LockedIInv => ResponsePermitKept
  <2> SUFFICES ASSUME LockedIInv
               PROVE  ResponsePermitKept
    OBVIOUS
  <2> DEFINE H == {c \in Clients : HasResponsePermit(c)}
  <2>1. sem["res_available"] \in Nat /\ sem["res_space_available"] \in Nat
    BY DEF LockedIInv, LockedTypes, ShmTypeOK, ShmSems
  <2>2. ResponsePermitFree \in Nat /\ ServerHasResponsePermit \in BOOLEAN
    BY <2>1 DEF ResponsePermitFree, ServerHasResponsePermit
  <2>3. ResponsePermits = ResponsePermitFree + Cardinality(H) + One(ServerHasResponsePermit)
    BY DEF ResponsePermits, ResponsePermitFree
  <2>4. trial \in {1, 2, 5} /\ NobodyCutOff =>
          ResponsePermitFree >= 1 \/ ServerHasResponsePermit \/ H # {}
    BY DEF LockedIInv, ResponsePermitSomewhere
  <2>5. IsFiniteSet(H) /\ Cardinality(H) \in Nat /\ (H # {} => Cardinality(H) >= 1)
    <3>1. IsFiniteSet(H)
      BY ClientAssumption, FS_Subset
    <3> QED
      BY <3>1, FS_CardinalityType, FS_EmptySet
  <2>6. ASSUME trial \in {3, 4, 5}
        PROVE  /\ ResponsePermits <= 1
               /\ trial = 5 /\ NobodyCutOff => ResponsePermits = 1
    <3>1. /\ ResponsePermitFree <= 1
          /\ ResponsePermitFree = 1 => ~ServerHasResponsePermit /\ H = {}
          /\ ServerHasResponsePermit => H = {}
          /\ \A x, y \in H : x = y
      BY <2>6 DEF LockedIInv, ResponsePermitOnce
    <3> HIDE DEF H
    <3> QED
      BY <2>2, <2>3, <2>4, <3>1, OnePermit
  <2> HIDE DEF H
  <2>7. trial \in {1, 2} /\ NobodyCutOff => ResponsePermits >= 1
    BY <2>2, <2>3, <2>4, <2>5 DEF One
  <2> QED
    BY <2>6, <2>7 DEF ResponsePermitKept
<1> QED
  BY <1>1, LockedInvariance, PTL

\* The TODO of the numbered clients: in the pairs 2 and 3 the lock of the request slot
\* is free for whoever has the permit of the slot, so it excludes nobody.
THEOREM RequestLockNeverBlocks == LockedSpec => []RequestLockFree
<1>1. LockedIInv => RequestLockFree
  BY LockFreeWithPermit DEF LockedIInv
<1> QED
  BY <1>1, LockedInvariance, PTL

\* Tickets and elements agree, and in server3 there are never more tickets than
\* elements.
THEOREM TicketsMatchElements == LockedSpec => []TicketsCounted
<1>1. LockedIInv => TicketsCounted
  BY DEF LockedIInv, RequestTicketsCounted, ResultTicketsCounted, TicketsCounted
<1> QED
  BY <1>1, LockedInvariance, PTL

\* A server that has ended has no thread left that could use what it destroyed.
THEOREM ServerEndsAfterItsThreads == LockedSpec => []ServerExitsLast
<1>1. LockedIInv => ServerExitsLast
  BY DEF LockedIInv
<1> QED
  BY <1>1, LockedInvariance, PTL
=============================================================================
