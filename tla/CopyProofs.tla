----------------------------- MODULE CopyProofs -----------------------------
(***************************************************************************)
(* Proofs, for ids that do not collide, that no request is lost or         *)
(* duplicated, and that the system implements the atomic service: its      *)
(* requests are linearizable, for any number of clients and workers.       *)
(***************************************************************************)
EXTENDS AnswerProofs

USE DEF vars, shmVars, clientVars, serverVars, threadVars, processVars,
        queueVars, enqVars, workVars, deqVars,
        Goto, EGoto, WGoto, RGoto, SemWait, SemPost

-----------------------------------------------------------------------------
(* What each step does to the copies.                                      *)

\* What these lemmas need of a state: no slot is in two hands, none that is full is
\* in any hand, and no queue is empty when it is popped.
Orderly ==
  /\ TypeOK /\ NoPopFromEmptyQueue
  /\ RequestSlotExclusive /\ ResponseSlotExclusive
  /\ sem["req_available"] > 0 =>
       ~ServerInRequestSlot /\ \A c \in Clients : ~ClientInRequestSlot(c)
  /\ sem["res_available"] > 0 =>
       ~ServerInResponseSlot /\ \A c \in Clients : ~ClientInResponseSlot(c)

\* The states of the system are like that.
LEMMA SystemIsOrderly ==
  ASSUME IInv
  PROVE  Orderly
<1>1. NoPopFromEmptyQueue
  BY TicketsFillQueues DEF IInv
<1>2. sem["req_available"] \in {0, 1} /\ sem["res_available"] \in {0, 1}
  BY DEF IInv, RequestPermit, ResponsePermit
<1>3. RequestSlotExclusive /\ ResponseSlotExclusive
  BY DEF IInv, RequestPermit, ResponsePermit, RequestSlotExclusive, ResponseSlotExclusive
<1> QED
  BY <1>1, <1>2, <1>3 DEF IInv, RequestPermit, ResponsePermit, Orderly

\* Nobody starts or ends waiting.
SameClients == creq' = creq /\ \A c \in Clients : Busy(c)' = Busy(c)

\* Full slots stay full, empty ones empty, and each client on the same side of
\* WriteRequest.
SlotsStay ==
  /\ RequestSlotFull' <=> RequestSlotFull
  /\ ResponseSlotFull' <=> ResponseSlotFull
  /\ \A c \in Clients :
       /\ cpc'[c] \in {"wait_space", "write"} <=> cpc[c] \in {"wait_space", "write"}
       /\ cpc'[c] \in BusyLabels <=> cpc[c] \in BusyLabels

\* The clients' steps that move no copy: the semaphore of a full slot changes
\* hands with it.
LEMMA QuietClientSteps ==
  ASSUME Orderly, UNCHANGED serverVars,
         \/ \E c \in Clients :
              \/ WaitRequestSpace(c) \/ PostRequest(c) \/ WaitResponse(c)
              \/ CheckResponse(c) \/ RepostResponse(c) \/ LeaveLoop(c) \/ SpawnThread(c)
         \/ \E p \in Procs :
              \/ JoinThreads(p) \/ ReturnFromMain(p) \/ Sigint(p)
              \/ DrainOneExit(p) \/ ExitFromHandler(p)
  PROVE  Carried' = Carried /\ Returned' = Returned /\ SameClients
<1>0. /\ cpc \in [Clients -> ThreadLabels] /\ sem \in [ShmSems -> Nat]
      /\ "req_available" \in ShmSems /\ "res_available" \in ShmSems
      /\ "req_space_available" \in ShmSems
  BY DEF Orderly, TypeOK, ShmTypeOK, ClientTypeOK, ShmSems
<1>1. request' = request /\ response' = response /\ creq' = creq
  BY DEF WaitRequestSpace, PostRequest, WaitResponse, CheckResponse, RepostResponse,
     LeaveLoop, SpawnThread, JoinThreads, ReturnFromMain, Sigint, DrainOneExit, ExitFromHandler
<1>2. SlotsStay
  <2>1. ASSUME NEW c \in Clients, WaitRequestSpace(c)
        PROVE  SlotsStay
    BY <1>0, <2>1 DEF SlotsStay, WaitRequestSpace, RequestSlotFull, ResponseSlotFull,
       ClientInResponseSlot, BusyLabels
  <2>2. ASSUME NEW c \in Clients, PostRequest(c)
        PROVE  SlotsStay
    BY <1>0, <2>2 DEF SlotsStay, PostRequest, RequestSlotFull, ResponseSlotFull,
       ClientInResponseSlot, BusyLabels
  <2>3. ASSUME NEW c \in Clients, WaitResponse(c)
        PROVE  SlotsStay
    BY <1>0, <2>3 DEF SlotsStay, WaitResponse, RequestSlotFull, ResponseSlotFull,
       ClientInResponseSlot, BusyLabels
  <2>4. ASSUME NEW c \in Clients, CheckResponse(c)
        PROVE  SlotsStay
    BY <1>0, <2>4 DEF SlotsStay, CheckResponse, RequestSlotFull, ResponseSlotFull,
       ClientInResponseSlot, BusyLabels
  <2>5. ASSUME NEW c \in Clients, RepostResponse(c)
        PROVE  SlotsStay
    BY <1>0, <2>5 DEF SlotsStay, RepostResponse, RequestSlotFull, ResponseSlotFull,
       ClientInResponseSlot, BusyLabels
  <2>6. ASSUME NEW c \in Clients, LeaveLoop(c) \/ SpawnThread(c)
        PROVE  SlotsStay
    BY <1>0, <2>6 DEF SlotsStay, LeaveLoop, SpawnThread, RequestSlotFull, ResponseSlotFull,
       ClientInResponseSlot, BusyLabels
  <2>7. ASSUME NEW p \in Procs,
               \/ JoinThreads(p) \/ ReturnFromMain(p) \/ Sigint(p)
               \/ DrainOneExit(p) \/ ExitFromHandler(p)
        PROVE  SlotsStay
    BY <2>7 DEF SlotsStay, JoinThreads, ReturnFromMain, Sigint, DrainOneExit, ExitFromHandler,
       RequestSlotFull, ResponseSlotFull, ClientInResponseSlot
  <2> QED
    BY <2>1, <2>2, <2>3, <2>4, <2>5, <2>6, <2>7
<1>3. AtClients' = AtClients
  BY <1>1, <1>2 DEF SlotsStay, AtClients
<1>4. AtRequestSlot' = AtRequestSlot /\ AtResponseSlot' = AtResponseSlot
  BY <1>1, <1>2 DEF SlotsStay, AtRequestSlot, AtResponseSlot, Here
<1>5. /\ AtRequestThread' = AtRequestThread /\ InRequestQueue' = InRequestQueue
      /\ AtWorkers' = AtWorkers /\ RepliesAtWorkers' = RepliesAtWorkers
      /\ InResponseQueue' = InResponseQueue /\ AtResponseThread' = AtResponseThread
  BY DEF AtRequestThread, InRequestQueue, AtWorkers, RepliesAtWorkers, InResponseQueue,
     AtResponseThread, Here
<1> QED
  BY <1>1, <1>2, <1>3, <1>4, <1>5 DEF SlotsStay, Carried, Returned, SameClients, Busy

\* The server's steps that move no copy.
LEMMA QuietServerSteps ==
  ASSUME Orderly, UNCHANGED clientVars,
         \/ WaitRequest \/ ReleaseRequestSlot \/ LockForEnqueue
         \/ UnlockAfterEnqueue \/ AnnounceRequest
         \/ \E w \in Workers :
              \/ TakeTicket(w) \/ LockForDequeue(w) \/ UnlockAfterDequeue(w)
              \/ LockForResponse(w) \/ UnlockAfterResponse(w) \/ AnnounceResponse(w)
         \/ WaitResult \/ LockForResult \/ UnlockAfterResult
         \/ WaitResponseSpace \/ PostResponse
  PROVE  Carried' = Carried /\ Returned' = Returned /\ SameClients /\ store' = store
<1>0. /\ sem \in [ShmSems -> Nat] /\ wpc \in [Workers -> WorkLabels]
      /\ wreq \in [Workers -> Requests \cup {ZeroRequest}]
      /\ wres \in [Workers -> Responses \cup {ZeroResponse}]
      /\ "req_available" \in ShmSems /\ "res_available" \in ShmSems
      /\ "req_space_available" \in ShmSems /\ "res_space_available" \in ShmSems
  BY DEF Orderly, TypeOK, ShmTypeOK, ServerTypeOK, ShmSems
<1>1. /\ request' = request /\ response' = response /\ store' = store
      /\ requestQueue' = requestQueue /\ responseQueue' = responseQueue
  BY DEF WaitRequest, ReleaseRequestSlot, LockForEnqueue, UnlockAfterEnqueue,
     AnnounceRequest, TakeTicket, LockForDequeue, UnlockAfterDequeue, LockForResponse,
     UnlockAfterResponse, AnnounceResponse, WaitResult, LockForResult, UnlockAfterResult,
     WaitResponseSpace, PostResponse
<1>2. SlotsStay
  <2> USE DEF SlotsStay, RequestSlotFull, ResponseSlotFull, ClientInResponseSlot
  <2>1. CASE WaitRequest
    BY <1>0, <2>1 DEF WaitRequest
  <2>2. CASE ReleaseRequestSlot
    BY <1>0, <2>2 DEF ReleaseRequestSlot
  <2>3. CASE LockForEnqueue \/ UnlockAfterEnqueue \/ AnnounceRequest
    BY <2>3 DEF LockForEnqueue, UnlockAfterEnqueue, AnnounceRequest
  <2>4. CASE WaitResult \/ LockForResult \/ UnlockAfterResult
    BY <2>4 DEF WaitResult, LockForResult, UnlockAfterResult
  <2>5. CASE WaitResponseSpace
    BY <1>0, <2>5 DEF WaitResponseSpace
  <2>6. CASE PostResponse
    BY <1>0, <2>6 DEF PostResponse
  <2>7. ASSUME NEW w \in Workers,
               \/ TakeTicket(w) \/ LockForDequeue(w) \/ UnlockAfterDequeue(w)
               \/ LockForResponse(w) \/ UnlockAfterResponse(w) \/ AnnounceResponse(w)
        PROVE  SlotsStay
    BY <2>7 DEF TakeTicket, LockForDequeue, UnlockAfterDequeue, LockForResponse,
       UnlockAfterResponse, AnnounceResponse
  <2> QED
    BY <2>1, <2>2, <2>3, <2>4, <2>5, <2>6, <2>7
<1>3. AtClients' = AtClients /\ InRequestQueue' = InRequestQueue /\ InResponseQueue' = InResponseQueue
  BY <1>1 DEF AtClients, InRequestQueue, InResponseQueue
<1>4. AtRequestSlot' = AtRequestSlot /\ AtResponseSlot' = AtResponseSlot
  BY <1>1, <1>2 DEF SlotsStay, AtRequestSlot, AtResponseSlot, Here
<1>5. AtRequestThread' = AtRequestThread
  BY DEF AtRequestThread, Here, WaitRequest, ReleaseRequestSlot, LockForEnqueue,
     UnlockAfterEnqueue, AnnounceRequest, TakeTicket, LockForDequeue, UnlockAfterDequeue,
     LockForResponse, UnlockAfterResponse, AnnounceResponse, WaitResult, LockForResult,
     UnlockAfterResult, WaitResponseSpace, PostResponse
<1>6. AtResponseThread' = AtResponseThread
  BY DEF AtResponseThread, Here, WaitRequest, ReleaseRequestSlot, LockForEnqueue,
     UnlockAfterEnqueue, AnnounceRequest, TakeTicket, LockForDequeue, UnlockAfterDequeue,
     LockForResponse, UnlockAfterResponse, AnnounceResponse, WaitResult, LockForResult,
     UnlockAfterResult, WaitResponseSpace, PostResponse
<1>7. AtWorkers' = AtWorkers /\ RepliesAtWorkers' = RepliesAtWorkers
  <2> USE DEF AtWorkers, RepliesAtWorkers
  <2>1. ASSUME NEW w \in Workers,
               \/ TakeTicket(w) \/ LockForDequeue(w) \/ UnlockAfterDequeue(w)
               \/ LockForResponse(w) \/ UnlockAfterResponse(w)
        PROVE  AtWorkers' = AtWorkers /\ RepliesAtWorkers' = RepliesAtWorkers
    <3>1. /\ wreq' = wreq /\ wres' = wres
          /\ \A u \in Workers :
               /\ wpc'[u] \in {"unlock", "process"} <=> wpc[u] \in {"unlock", "process"}
               /\ wpc'[u] \in {"lock_res", "push_res"} <=> wpc[u] \in {"lock_res", "push_res"}
      BY <1>0, <2>1 DEF TakeTicket, LockForDequeue, UnlockAfterDequeue, LockForResponse,
         UnlockAfterResponse
    <3> QED
      BY <3>1
  <2>2. ASSUME NEW w \in Workers, AnnounceResponse(w)
        PROVE  AtWorkers' = AtWorkers /\ RepliesAtWorkers' = RepliesAtWorkers
    <3>1. \A u \in Workers :
             /\ wpc'[u] \in {"unlock", "process"} <=> wpc[u] \in {"unlock", "process"}
             /\ wpc'[u] \in {"lock_res", "push_res"} <=> wpc[u] \in {"lock_res", "push_res"}
      BY <1>0, <2>2 DEF AnnounceResponse
    <3>2. \A u \in Workers : wpc[u] # "announce_res" => wreq'[u] = wreq[u] /\ wres'[u] = wres[u]
      BY <1>0, <2>2 DEF AnnounceResponse
    <3> QED
      BY <3>1, <3>2
  <2> QED
    BY <2>1, <2>2 DEF WaitRequest, ReleaseRequestSlot, LockForEnqueue,
       UnlockAfterEnqueue, AnnounceRequest, WaitResult, LockForResult,
       UnlockAfterResult, WaitResponseSpace, PostResponse
<1> QED
  BY <1>1, <1>2, <1>3, <1>4, <1>5, <1>6, <1>7 DEF Carried, Returned, SameClients, Busy

\* Each place has a name of its own.
LEMMA PlacesApart ==
  /\ \A t \in AtClients : t[1][1] = "client"
  /\ \A t \in AtRequestSlot : t[1][1] = "request slot"
  /\ \A t \in AtRequestThread : t[1][1] = "request thread"
  /\ \A t \in InRequestQueue : t[1][1] = "request queue"
  /\ \A t \in AtWorkers : t[1][1] = "worker"
  /\ \A t \in RepliesAtWorkers : t[1][1] = "reply"
  /\ \A t \in InResponseQueue : t[1][1] = "response queue"
  /\ \A t \in AtResponseThread : t[1][1] = "response thread"
  /\ \A t \in AtResponseSlot : t[1][1] = "response slot"
<1>0. \A x, y, z : <<<<x, y>>, z>>[1][1] = x
  OBVIOUS
<1>1. \A t \in AtClients : t[1][1] = "client"
  BY DEF AtClients
<1>2. \A t \in AtRequestSlot : t[1][1] = "request slot"
  <2> SUFFICES ASSUME NEW t \in AtRequestSlot
               PROVE  t[1][1] = "request slot"
    OBVIOUS
  <2>1. t = <<<<"request slot", 0>>, request>>
    BY DEF AtRequestSlot, Here
  <2> QED
    BY <1>0, <2>1, Zenon
<1>3. \A t \in AtRequestThread : t[1][1] = "request thread"
  <2> SUFFICES ASSUME NEW t \in AtRequestThread
               PROVE  t[1][1] = "request thread"
    OBVIOUS
  <2>1. t = <<<<"request thread", 0>>, ereq>>
    BY DEF AtRequestThread, Here
  <2> QED
    BY <1>0, <2>1, Zenon
<1>4. \A t \in InRequestQueue : t[1][1] = "request queue"
  <2> SUFFICES ASSUME NEW t \in InRequestQueue
               PROVE  t[1][1] = "request queue"
    OBVIOUS
  <2>1. PICK i \in DOMAIN requestQueue : t = <<<<"request queue", i>>, requestQueue[i]>>
    BY DEF InRequestQueue, Pairs
  <2> QED
    BY <1>0, <2>1, Zenon
<1>5. \A t \in AtWorkers : t[1][1] = "worker"
  BY DEF AtWorkers
<1>6. \A t \in RepliesAtWorkers : t[1][1] = "reply"
  BY DEF RepliesAtWorkers
<1>7. \A t \in InResponseQueue : t[1][1] = "response queue"
  <2> SUFFICES ASSUME NEW t \in InResponseQueue
               PROVE  t[1][1] = "response queue"
    OBVIOUS
  <2>1. PICK i \in DOMAIN responseQueue : t = <<<<"response queue", i>>, responseQueue[i]>>
    BY DEF InResponseQueue, Pairs
  <2> QED
    BY <1>0, <2>1, Zenon
<1>8. \A t \in AtResponseThread : t[1][1] = "response thread"
  <2> SUFFICES ASSUME NEW t \in AtResponseThread
               PROVE  t[1][1] = "response thread"
    OBVIOUS
  <2>1. t = <<<<"response thread", 0>>, rres>>
    BY DEF AtResponseThread, Here
  <2> QED
    BY <1>0, <2>1, Zenon
<1>9. \A t \in AtResponseSlot : t[1][1] = "response slot"
  <2> SUFFICES ASSUME NEW t \in AtResponseSlot
               PROVE  t[1][1] = "response slot"
    OBVIOUS
  <2>1. t = <<<<"response slot", 0>>, response>>
    BY DEF AtResponseSlot, Here
  <2> QED
    BY <1>0, <2>1, Zenon
<1> QED
  BY <1>1, <1>2, <1>3, <1>4, <1>5, <1>6, <1>7, <1>8, <1>9

\* A step that takes what is at one place to another.
Moved(old, new, from, to) ==
  from \in old /\ to[2] = from[2] /\ new = (old \ {from}) \cup {to}

RequestMoves  == (\E a, b : Moved(Carried, Carried', a, b)) /\ Returned' = Returned
ResponseMoves == (\E a, b : Moved(Returned, Returned', a, b)) /\ Carried' = Carried

\* A client writes its request into the slot, which is empty.
LEMMA WriteRequestMoves ==
  ASSUME Orderly, NEW c \in Clients, WriteRequest(c), UNCHANGED serverVars
  PROVE  RequestMoves /\ SameClients
<1> DEFINE a == <<<<"client", c>>, creq[c]>>
           b == <<<<"request slot", 0>>, creq[c]>>
<1>0. cpc \in [Clients -> ThreadLabels]
  BY DEF Orderly, TypeOK, ClientTypeOK
<1>1. /\ cpc[c] = "write" /\ cpc' = [cpc EXCEPT ![c] = "post"]
      /\ request' = creq[c] /\ response' = response /\ sem' = sem /\ creq' = creq
  BY DEF WriteRequest
<1>2. ClientInRequestSlot(c)
  BY <1>1 DEF ClientInRequestSlot
<1>3. ~RequestSlotFull
  BY <1>1, <1>2 DEF Orderly, RequestSlotExclusive, RequestSlotFull, ClientInRequestSlot,
     ServerInRequestSlot
<1>4. RequestSlotFull'
  BY <1>0, <1>1 DEF RequestSlotFull
<1>5. ResponseSlotFull' <=> ResponseSlotFull
  BY <1>0, <1>1 DEF ResponseSlotFull, ClientInResponseSlot
<1>6. AtClients' = AtClients \ {a} /\ a \in AtClients
  <2>1. \A d \in Clients : cpc'[d] \in {"wait_space", "write"} <=>
                             cpc[d] \in {"wait_space", "write"} /\ d # c
    BY <1>0, <1>1
  <2> QED
    BY <1>1, <2>1 DEF AtClients
<1>7. AtRequestSlot = {} /\ AtRequestSlot' = {b}
  BY <1>1, <1>3, <1>4 DEF AtRequestSlot, Here
<1>8. /\ AtRequestThread' = AtRequestThread /\ InRequestQueue' = InRequestQueue
      /\ AtWorkers' = AtWorkers
  BY DEF AtRequestThread, InRequestQueue, AtWorkers, Here
<1>9. Returned' = Returned
  BY <1>1, <1>5 DEF Returned, RepliesAtWorkers, InResponseQueue, AtResponseThread,
     AtResponseSlot, Here
<1>10. Moved(Carried, Carried', a, b)
  <2>1. a \notin AtRequestThread /\ a \notin InRequestQueue /\ a \notin AtWorkers
    BY PlacesApart
  <2> HIDE DEF a, b
  <2>2. a \in Carried /\ Carried' = (Carried \ {a}) \cup {b}
    BY <1>6, <1>7, <1>8, <2>1 DEF Carried
  <2> QED
    BY <2>2 DEF Moved, a, b
<1>11. SameClients
  BY <1>0, <1>1 DEF SameClients, Busy, BusyLabels
<1> QED
  BY <1>9, <1>10, <1>11 DEF RequestMoves

\* The request thread copies it, and the slot counts as empty.
LEMMA CopyRequestMoves ==
  ASSUME Orderly, CopyRequest, UNCHANGED clientVars
  PROVE  RequestMoves /\ SameClients /\ store' = store
<1> DEFINE a == <<<<"request slot", 0>>, request>>
           b == <<<<"request thread", 0>>, request>>
<1>1. /\ epc = "copy" /\ epc' = "release" /\ ereq' = request
      /\ request' = request /\ response' = response /\ sem' = sem /\ store' = store
  BY DEF CopyRequest
<1>2. RequestSlotFull /\ ~RequestSlotFull'
  BY <1>1 DEF Orderly, RequestSlotExclusive, RequestSlotFull, ClientInRequestSlot,
     ServerInRequestSlot
<1>3. AtRequestSlot = {a} /\ AtRequestSlot' = {}
  BY <1>2 DEF AtRequestSlot, Here
<1>4. AtRequestThread = {} /\ AtRequestThread' = {b}
  BY <1>1 DEF AtRequestThread, Here
<1>5. AtClients' = AtClients /\ InRequestQueue' = InRequestQueue /\ AtWorkers' = AtWorkers
  BY DEF CopyRequest, AtClients, InRequestQueue, AtWorkers
<1>6. Returned' = Returned
  BY <1>1 DEF CopyRequest, Returned, RepliesAtWorkers, InResponseQueue, AtResponseThread,
     AtResponseSlot, Here, ResponseSlotFull, ClientInResponseSlot
<1>7. Moved(Carried, Carried', a, b)
  <2>1. a \notin AtClients /\ a \notin InRequestQueue /\ a \notin AtWorkers
    BY PlacesApart
  <2> HIDE DEF a, b
  <2>2. a \in Carried /\ Carried' = (Carried \ {a}) \cup {b}
    BY <1>3, <1>4, <1>5, <2>1 DEF Carried
  <2> QED
    BY <2>2 DEF Moved, a, b
<1>8. SameClients
  BY DEF SameClients, Busy
<1> QED
  BY <1>1, <1>6, <1>7, <1>8 DEF RequestMoves

\* The pairs of a queue that gets one more element.
LEMMA PushedPairs ==
  ASSUME NEW S, NEW q \in Seq(S), NEW e \in S, NEW name
  PROVE  Pairs(name, Append(q, e)) = Pairs(name, q) \cup {<<<<name, Len(q) + 1>>, e>>}
<1> DEFINE r == Append(q, e)
<1>1. /\ r \in Seq(S) /\ Len(r) = Len(q) + 1
      /\ \A i \in 1 .. Len(q) : r[i] = q[i]
      /\ r[Len(q) + 1] = e
  BY AppendProperties
<1>2. Len(q) \in Nat /\ DOMAIN q = 1 .. Len(q) /\ DOMAIN r = 1 .. Len(q) + 1
  BY <1>1, LenProperties
<1> HIDE DEF r
<1>3. 1 .. Len(q) + 1 = (1 .. Len(q)) \cup {Len(q) + 1}
  BY <1>2
<1>4. Pairs(name, r) = Pairs(name, q) \cup {<<<<name, Len(q) + 1>>, e>>}
  BY <1>1, <1>2, <1>3 DEF Pairs
<1> QED
  BY <1>4 DEF r

\* The request thread pushes it.
LEMMA PushRequestMoves ==
  ASSUME Orderly, PushRequest, UNCHANGED clientVars
  PROVE  RequestMoves /\ SameClients /\ store' = store
<1> DEFINE a == <<<<"request thread", 0>>, ereq>>
           b == <<<<"request queue", Len(requestQueue) + 1>>, ereq>>
<1>1. /\ epc = "push" /\ epc' = "unlock" /\ ereq' = ereq
      /\ request' = request /\ response' = response /\ sem' = sem /\ store' = store
      /\ requestQueue' = Append(requestQueue, ereq)
  BY DEF PushRequest
<1>2. ereq \in Requests /\ requestQueue \in Seq(Requests)
  BY <1>1 DEF Orderly, TypeOK, ServerTypeOK, EnqHolds
<1>3. AtRequestThread = {a} /\ AtRequestThread' = {}
  BY <1>1 DEF AtRequestThread, Here
<1>4. InRequestQueue' = InRequestQueue \cup {b}
  <2>1. Pairs("request queue", Append(requestQueue, ereq)) =
          Pairs("request queue", requestQueue)
            \cup {<<<<"request queue", Len(requestQueue) + 1>>, ereq>>}
    BY <1>2, PushedPairs
  <2> QED
    BY <1>1, <2>1 DEF InRequestQueue
<1>5. AtClients' = AtClients /\ AtRequestSlot' = AtRequestSlot /\ AtWorkers' = AtWorkers
  BY <1>1 DEF PushRequest, AtClients, AtRequestSlot, AtWorkers, RequestSlotFull, Here
<1>6. Returned' = Returned
  BY <1>1 DEF PushRequest, Returned, RepliesAtWorkers, InResponseQueue, AtResponseThread,
     AtResponseSlot, Here, ResponseSlotFull, ClientInResponseSlot
<1>7. Moved(Carried, Carried', a, b)
  <2>1. /\ a \notin AtClients /\ a \notin AtRequestSlot
        /\ a \notin InRequestQueue /\ a \notin AtWorkers
    BY PlacesApart
  <2> HIDE DEF a, b
  <2>2. a \in Carried /\ Carried' = (Carried \ {a}) \cup {b}
    BY <1>3, <1>4, <1>5, <2>1 DEF Carried
  <2> QED
    BY <2>2 DEF Moved, a, b
<1>8. SameClients
  BY DEF SameClients, Busy
<1> QED
  BY <1>1, <1>6, <1>7, <1>8 DEF RequestMoves

\* A worker pushes its response.
LEMMA PushResponseMoves ==
  ASSUME Orderly, NEW w \in Workers, PushResponse(w), UNCHANGED clientVars
  PROVE  ResponseMoves /\ SameClients /\ store' = store
<1> DEFINE a == <<<<"reply", w>>, wres[w]>>
           b == <<<<"response queue", Len(responseQueue) + 1>>, wres[w]>>
<1>0. wpc \in [Workers -> WorkLabels]
  BY DEF Orderly, TypeOK, ServerTypeOK
<1>1. /\ wpc[w] = "push_res" /\ wpc' = [wpc EXCEPT ![w] = "unlock_res"]
      /\ wreq' = wreq /\ wres' = wres
      /\ request' = request /\ response' = response /\ sem' = sem /\ store' = store
      /\ responseQueue' = Append(responseQueue, wres[w])
  BY DEF PushResponse
<1>2. wres[w] \in Responses /\ responseQueue \in Seq(Responses)
  BY <1>1 DEF Orderly, TypeOK, ServerTypeOK, WorkDone
<1>3. /\ AtWorkers' = AtWorkers
      /\ RepliesAtWorkers' = RepliesAtWorkers \ {a} /\ a \in RepliesAtWorkers
  <2>1. \A u \in Workers :
          /\ wpc'[u] \in {"unlock", "process"} <=> wpc[u] \in {"unlock", "process"}
          /\ wpc'[u] \in {"lock_res", "push_res"} <=> wpc[u] \in {"lock_res", "push_res"} /\ u # w
    BY <1>0, <1>1
  <2> QED
    BY <1>1, <2>1 DEF AtWorkers, RepliesAtWorkers
<1>4. InResponseQueue' = InResponseQueue \cup {b}
  <2>1. Pairs("response queue", Append(responseQueue, wres[w])) =
          Pairs("response queue", responseQueue)
            \cup {<<<<"response queue", Len(responseQueue) + 1>>, wres[w]>>}
    BY <1>2, PushedPairs
  <2> QED
    BY <1>1, <2>1 DEF InResponseQueue
<1>5. AtResponseThread' = AtResponseThread /\ AtResponseSlot' = AtResponseSlot
  BY <1>1 DEF PushResponse, AtResponseThread, AtResponseSlot, Here, ResponseSlotFull,
     ClientInResponseSlot
<1>6. Carried' = Carried
  BY <1>1, <1>3 DEF PushResponse, Carried, AtClients, AtRequestSlot, RequestSlotFull,
     AtRequestThread, InRequestQueue, Here
<1>7. Moved(Returned, Returned', a, b)
  <2>1. /\ a \notin InResponseQueue /\ a \notin AtResponseThread /\ a \notin AtResponseSlot
    BY PlacesApart
  <2> HIDE DEF a, b
  <2>2. a \in Returned /\ Returned' = (Returned \ {a}) \cup {b}
    BY <1>3, <1>4, <1>5, <2>1 DEF Returned
  <2> QED
    BY <2>2 DEF Moved, a, b
<1>8. SameClients
  BY DEF SameClients, Busy
<1> QED
  BY <1>1, <1>6, <1>7, <1>8 DEF ResponseMoves

\* The response thread writes it into the response slot, which is empty.
LEMMA WriteResponseMoves ==
  ASSUME Orderly, WriteResponse, UNCHANGED clientVars
  PROVE  ResponseMoves /\ SameClients /\ store' = store
<1> DEFINE a == <<<<"response thread", 0>>, rres>>
           b == <<<<"response slot", 0>>, rres>>
<1>1. /\ rpc = "write" /\ rpc' = "post" /\ rres' = rres /\ response' = rres
      /\ request' = request /\ sem' = sem /\ store' = store
  BY DEF WriteResponse
<1>2. ~ResponseSlotFull /\ ResponseSlotFull'
  BY <1>1 DEF Orderly, ResponseSlotExclusive, ResponseSlotFull, ClientInResponseSlot,
     ServerInResponseSlot
<1>3. AtResponseSlot = {} /\ AtResponseSlot' = {b}
  BY <1>1, <1>2 DEF AtResponseSlot, Here
<1>4. AtResponseThread = {a} /\ AtResponseThread' = {}
  BY <1>1 DEF AtResponseThread, Here
<1>5. RepliesAtWorkers' = RepliesAtWorkers /\ InResponseQueue' = InResponseQueue
  BY DEF WriteResponse, RepliesAtWorkers, InResponseQueue
<1>6. Carried' = Carried
  BY <1>1 DEF WriteResponse, Carried, AtClients, AtRequestSlot, RequestSlotFull,
     AtRequestThread, InRequestQueue, AtWorkers, Here
<1>7. Moved(Returned, Returned', a, b)
  <2>1. a \notin RepliesAtWorkers /\ a \notin InResponseQueue
    BY PlacesApart
  <2> HIDE DEF a, b
  <2>2. a \in Returned /\ Returned' = (Returned \ {a}) \cup {b}
    BY <1>3, <1>4, <1>5, <2>1 DEF Returned
  <2> QED
    BY <2>2 DEF Moved, a, b
<1>8. SameClients
  BY DEF SameClients, Busy
<1> QED
  BY <1>1, <1>6, <1>7, <1>8 DEF ResponseMoves

-----------------------------------------------------------------------------
(* Steps that move what is there: what they keep.                          *)

\* What a set of copies holds, without the places.
Contents(T) == {t[2] : t \in T}

\* The same requests and the same responses are on their way as before.
Keeps ==
  /\ Contents(Carried)' = Contents(Carried)
  /\ Contents(Returned)' = Contents(Returned)
  /\ OneCopyOfEach => OneCopyOfEach'

\* No place is one of a request and one of a response.
LEMMA KindsApart == Carried \cap Returned = {}
<1>1. \A t \in Carried : t[1][1] \in {"client", "request slot", "request thread",
                                      "request queue", "worker"}
  BY PlacesApart DEF Carried
<1>2. \A t \in Returned : t[1][1] \in {"reply", "response queue", "response thread",
                                       "response slot"}
  BY PlacesApart DEF Returned
<1> QED
  BY <1>1, <1>2

\* One thing goes from one place to another.
LEMMA MovedKeeps ==
  ASSUME NEW old, NEW new, NEW rest, NEW a, NEW b, Moved(old, new, a, b),
         old \cap rest = {}
  PROVE  /\ Contents(new) = Contents(old)
         /\ OneOfEach(old \cup rest) => OneOfEach(new \cup rest)
<1>1. a \in old /\ a \notin rest /\ b[2] = a[2] /\ new = (old \ {a}) \cup {b}
  BY DEF Moved
<1>2. Contents(new) = Contents(old)
  BY <1>1 DEF Contents
<1>3. ASSUME OneOfEach(old \cup rest)
      PROVE  OneOfEach(new \cup rest)
  <2> SUFFICES ASSUME NEW t \in new \cup rest, NEW u \in new \cup rest,
                      t[2].requestid = u[2].requestid
               PROVE  t = u
    BY DEF OneOfEach
  <2>1. CASE t # b /\ u # b
    BY <1>1, <1>3, <2>1 DEF OneOfEach
  <2>2. CASE t = b /\ u # b
    <3>1. u \in (old \cup rest) \ {a} /\ a[2].requestid = u[2].requestid
      BY <1>1, <2>2
    <3> QED
      BY <1>1, <1>3, <3>1 DEF OneOfEach
  <2>3. CASE t # b /\ u = b
    <3>1. t \in (old \cup rest) \ {a} /\ t[2].requestid = a[2].requestid
      BY <1>1, <2>3
    <3> QED
      BY <1>1, <1>3, <3>1 DEF OneOfEach
  <2> QED
    BY <2>1, <2>2, <2>3
<1> QED
  BY <1>2, <1>3

\* So a request that moves is still there, once,
LEMMA RequestMovesKeep ==
  ASSUME RequestMoves
  PROVE  Keeps
<1>1. PICK a, b : Moved(Carried, Carried', a, b)
  BY DEF RequestMoves
<1>2. /\ Contents(Carried') = Contents(Carried)
      /\ OneOfEach(Carried \cup Returned) => OneOfEach(Carried' \cup Returned)
  BY <1>1, KindsApart, MovedKeeps
<1>3. Returned' = Returned
  BY DEF RequestMoves
<1> QED
  BY <1>2, <1>3 DEF Keeps, OneCopyOfEach, Copies, Contents, OneOfEach

\* and so is a response.
LEMMA ResponseMovesKeep ==
  ASSUME ResponseMoves
  PROVE  Keeps
<1>1. PICK a, b : Moved(Returned, Returned', a, b)
  BY DEF ResponseMoves
<1>2. Returned \cap Carried = {} /\ Carried' = Carried
  BY KindsApart DEF ResponseMoves
<1>3. /\ Contents(Returned') = Contents(Returned)
      /\ OneOfEach(Returned \cup Carried) => OneOfEach(Returned' \cup Carried)
  BY <1>1, <1>2, MovedKeeps
<1> QED
  BY <1>2, <1>3 DEF Keeps, OneCopyOfEach, Copies, Contents, OneOfEach

\* The head of a queue goes to another place, and the others move up.
LEMMA PopKeeps ==
  ASSUME NEW S, NEW q \in Seq(S), q # <<>>, NEW name, NEW place, NEW rest,
         \A t \in rest : t[1][1] # name
  PROVE  LET old == rest \cup Pairs(name, q)
             new == rest \cup Pairs(name, Tail(q)) \cup {<<place, Head(q)>>}
         IN  /\ Contents(new) = Contents(old)
             /\ OneOfEach(old) => OneOfEach(new)
<1> DEFINE old  == rest \cup Pairs(name, q)
           new  == rest \cup Pairs(name, Tail(q)) \cup {<<place, Head(q)>>}
           r    == Tail(q)
           at(i) == <<<<name, i>>, q[i]>>
<1>1. /\ Len(q) \in Nat /\ Len(q) # 0 /\ DOMAIN q = 1 .. Len(q)
      /\ Head(q) = q[1]
  BY LenProperties, EmptySeq, HeadTailProperties
<1>2. /\ DOMAIN r = 1 .. Len(q) - 1
      /\ \A i \in 1 .. Len(q) - 1 : r[i] = q[i + 1]
  BY <1>1, HeadTailProperties, LenProperties
<1>3. \A t : t \in Pairs(name, q) <=> \E i \in 1 .. Len(q) : t = at(i)
  BY <1>1 DEF Pairs
<1>4. \A t : t \in Pairs(name, r) <=> \E i \in 1 .. Len(q) - 1 : t = <<<<name, i>>, q[i + 1]>>
  BY <1>2 DEF Pairs
<1> HIDE DEF r
<1>5. \A x, y : <<x, y>>[1] = x /\ <<x, y>>[2] = y
  OBVIOUS
<1>6. \A t \in new : \E u \in old :
        /\ u[2] = t[2]
        /\ \/ t \in rest /\ u = t
           \/ \E i \in 2 .. Len(q) : u = at(i) /\ t = <<<<name, i - 1>>, q[i]>>
           \/ u = at(1) /\ t = <<place, q[1]>>
  <2> SUFFICES ASSUME NEW t \in new
               PROVE  \E u \in old :
                        /\ u[2] = t[2]
                        /\ \/ t \in rest /\ u = t
                           \/ \E i \in 2 .. Len(q) : u = at(i) /\ t = <<<<name, i - 1>>, q[i]>>
                           \/ u = at(1) /\ t = <<place, q[1]>>
    OBVIOUS
  <2>1. CASE t \in rest
    BY <2>1
  <2>2. CASE t \in Pairs(name, r)
    <3>1. PICK i \in 1 .. Len(q) - 1 : t = <<<<name, i>>, q[i + 1]>>
      BY <1>4, <2>2
    <3>2. i + 1 \in 2 .. Len(q) /\ (i + 1) - 1 = i
      BY <1>1
    <3>3. at(i + 1) \in old /\ at(i + 1)[2] = t[2]
      BY <1>1, <1>3, <3>1, <3>2
    <3> QED
      BY <3>1, <3>2, <3>3
  <2>3. CASE t = <<place, Head(q)>>
    <3>1. at(1) \in old /\ at(1)[2] = t[2]
      BY <1>1, <1>3, <2>3
    <3> QED
      BY <1>1, <2>3, <3>1
  <2> QED
    BY <2>1, <2>2, <2>3 DEF r
<1>7. \A u \in old : \E t \in new : t[2] = u[2]
  <2> SUFFICES ASSUME NEW u \in old
               PROVE  \E t \in new : t[2] = u[2]
    OBVIOUS
  <2>1. CASE u \in rest
    BY <2>1
  <2>2. CASE u \in Pairs(name, q)
    <3>1. PICK i \in 1 .. Len(q) : u = at(i)
      BY <1>3, <2>2
    <3>2. CASE i = 1
      <4>1. u[2] = q[1] /\ <<place, q[1]>>[2] = q[1]
        BY <3>1, <3>2
      <4>2. <<place, q[1]>> \in new
        BY <1>1
      <4> QED
        BY <4>1, <4>2
    <3>3. CASE i # 1
      <4>1. i - 1 \in 1 .. Len(q) - 1 /\ (i - 1) + 1 = i
        BY <1>1, <3>3
      <4>2. <<<<name, i - 1>>, q[i]>> \in Pairs(name, r)
        BY <1>4, <4>1
      <4> QED
        BY <3>1, <4>2 DEF r
    <3> QED
      BY <3>2, <3>3
  <2> QED
    BY <2>1, <2>2
<1>8. Contents(new) = Contents(old)
  <2> HIDE DEF new, old
  <2> QED
    BY <1>6, <1>7 DEF Contents
<1>9. ASSUME OneOfEach(old)
      PROVE  OneOfEach(new)
  <2> SUFFICES ASSUME NEW t \in new, NEW u \in new, t[2].requestid = u[2].requestid
               PROVE  t = u
    BY DEF OneOfEach
  <2>1. PICK s \in old :
          /\ s[2] = t[2]
          /\ \/ t \in rest /\ s = t
             \/ \E i \in 2 .. Len(q) : s = at(i) /\ t = <<<<name, i - 1>>, q[i]>>
             \/ s = at(1) /\ t = <<place, q[1]>>
    BY <1>6
  <2>2. PICK v \in old :
          /\ v[2] = u[2]
          /\ \/ u \in rest /\ v = u
             \/ \E i \in 2 .. Len(q) : v = at(i) /\ u = <<<<name, i - 1>>, q[i]>>
             \/ v = at(1) /\ u = <<place, q[1]>>
    BY <1>6
  <2>3. s = v
    BY <1>9, <2>1, <2>2 DEF OneOfEach
  <2>4. \A i, j \in 1 .. Len(q) : at(i) = at(j) => i = j
    OBVIOUS
  <2>5. \A i \in 1 .. Len(q) : at(i) \notin rest
    BY <1>5
  <2>6. 1 \in 1 .. Len(q) /\ \A i \in 2 .. Len(q) : i \in 1 .. Len(q) /\ i # 1
    BY <1>1
  <2> HIDE DEF at, new, old
  <2>7. CASE t \in rest /\ s = t
    BY <2>2, <2>3, <2>5, <2>6, <2>7
  <2>8. CASE \E i \in 2 .. Len(q) : s = at(i) /\ t = <<<<name, i - 1>>, q[i]>>
    BY <2>2, <2>3, <2>4, <2>5, <2>6, <2>8
  <2>9. CASE s = at(1) /\ t = <<place, q[1]>>
    BY <2>2, <2>3, <2>4, <2>5, <2>6, <2>9
  <2> QED
    BY <2>1, <2>7, <2>8, <2>9
<1> QED
  BY <1>8, <1>9

\* A worker pops a request.
LEMMA PopRequestKeeps ==
  ASSUME Orderly, NEW w \in Workers, PopRequest(w), UNCHANGED clientVars
  PROVE  Keeps /\ SameClients /\ store' = store
<1> DEFINE b == <<<<"worker", w>>, Head(requestQueue)>>
           others == AtClients \cup AtRequestSlot \cup AtRequestThread \cup AtWorkers
<1>0. /\ wpc \in [Workers -> WorkLabels]
      /\ wreq \in [Workers -> Requests \cup {ZeroRequest}]
      /\ requestQueue \in Seq(Requests)
  BY DEF Orderly, TypeOK, ServerTypeOK
<1>1. /\ wpc[w] = "pop" /\ wpc' = [wpc EXCEPT ![w] = "unlock"]
      /\ wreq' = [wreq EXCEPT ![w] = Head(requestQueue)] /\ wres' = wres
      /\ requestQueue' = Tail(requestQueue) /\ store' = store
  BY DEF PopRequest
<1>2. requestQueue # <<>>
  BY <1>1 DEF Orderly, NoPopFromEmptyQueue
<1>3. AtWorkers' = AtWorkers \cup {b}
  <2>1. \A u \in Workers : /\ wpc'[u] \in {"unlock", "process"} <=>
                                wpc[u] \in {"unlock", "process"} \/ u = w
                           /\ u # w => wreq'[u] = wreq[u]
    BY <1>0, <1>1
  <2>2. wreq'[w] = Head(requestQueue) /\ wpc[w] \notin {"unlock", "process"}
    BY <1>0, <1>1
  <2> QED
    BY <2>1, <2>2 DEF AtWorkers
<1>4. /\ AtClients' = AtClients /\ AtRequestSlot' = AtRequestSlot
      /\ AtRequestThread' = AtRequestThread
  BY DEF PopRequest, AtClients, AtRequestSlot, RequestSlotFull, AtRequestThread, Here
<1>5. Returned' = Returned
  <2>1. RepliesAtWorkers' = RepliesAtWorkers
    <3>1. \A u \in Workers :
             wpc'[u] \in {"lock_res", "push_res"} <=> wpc[u] \in {"lock_res", "push_res"}
      BY <1>0, <1>1
    <3> QED
      BY <1>1, <3>1 DEF RepliesAtWorkers
  <2>2. /\ InResponseQueue' = InResponseQueue /\ AtResponseThread' = AtResponseThread
        /\ AtResponseSlot' = AtResponseSlot
    BY DEF PopRequest, InResponseQueue, Pairs, AtResponseThread, AtResponseSlot, Here,
       ResponseSlotFull, ClientInResponseSlot
  <2> QED
    BY <2>1, <2>2 DEF Returned
<1>6. InRequestQueue' = Pairs("request queue", Tail(requestQueue))
  BY <1>1 DEF InRequestQueue
<1>7. /\ Carried = others \cup Pairs("request queue", requestQueue)
      /\ Carried' = others \cup Pairs("request queue", Tail(requestQueue)) \cup {b}
  BY <1>3, <1>4, <1>6 DEF Carried, InRequestQueue
<1>8. \A t \in others \cup Returned : t[1][1] # "request queue"
  BY PlacesApart DEF Returned
<1> HIDE DEF others
<1>9. Contents(Carried') = Contents(Carried)
  BY <1>0, <1>2, <1>7, <1>8, PopKeeps
<1>10. OneOfEach(Carried \cup Returned) => OneOfEach(Carried' \cup Returned)
  <2>1. /\ Carried \cup Returned =
             (others \cup Returned) \cup Pairs("request queue", requestQueue)
        /\ Carried' \cup Returned =
             (others \cup Returned) \cup Pairs("request queue", Tail(requestQueue)) \cup {b}
    BY <1>7
  <2> QED
    BY <1>0, <1>2, <1>8, <2>1, PopKeeps
<1>11. Keeps
  BY <1>5, <1>9, <1>10 DEF Keeps, OneCopyOfEach, Copies, Contents, OneOfEach
<1> QED
  BY <1>1, <1>11 DEF SameClients, Busy

\* The response thread pops a response.
LEMMA PopResultKeeps ==
  ASSUME Orderly, PopResult, UNCHANGED clientVars
  PROVE  Keeps /\ SameClients /\ store' = store
<1> DEFINE b == <<<<"response thread", 0>>, Head(responseQueue)>>
           others == RepliesAtWorkers \cup AtResponseSlot
<1>0. responseQueue \in Seq(Responses)
  BY DEF Orderly, TypeOK, ServerTypeOK
<1>1. /\ rpc = "pop" /\ rpc' = "unlock" /\ rres' = Head(responseQueue)
      /\ responseQueue' = Tail(responseQueue) /\ store' = store
  BY DEF PopResult
<1>2. responseQueue # <<>>
  BY <1>1 DEF Orderly, NoPopFromEmptyQueue
<1>3. AtResponseThread = {} /\ AtResponseThread' = {b}
  BY <1>1 DEF AtResponseThread, Here
<1>4. RepliesAtWorkers' = RepliesAtWorkers /\ AtResponseSlot' = AtResponseSlot
  BY <1>1 DEF PopResult, RepliesAtWorkers, AtResponseSlot, Here, ResponseSlotFull,
     ClientInResponseSlot
<1>5. Carried' = Carried
  BY DEF PopResult, Carried, AtClients, AtRequestSlot, RequestSlotFull, AtRequestThread,
     InRequestQueue, Pairs, AtWorkers, Here
<1>6. InResponseQueue' = Pairs("response queue", Tail(responseQueue))
  BY <1>1 DEF InResponseQueue
<1>7. /\ Returned = others \cup Pairs("response queue", responseQueue)
      /\ Returned' = others \cup Pairs("response queue", Tail(responseQueue)) \cup {b}
  BY <1>3, <1>4, <1>6 DEF Returned, InResponseQueue
<1>8. \A t \in others \cup Carried : t[1][1] # "response queue"
  BY PlacesApart DEF Carried
<1> HIDE DEF others
<1>9. Contents(Returned') = Contents(Returned)
  BY <1>0, <1>2, <1>7, <1>8, PopKeeps
<1>10. OneOfEach(Carried \cup Returned) => OneOfEach(Carried \cup Returned')
  <2>1. /\ Carried \cup Returned =
             (others \cup Carried) \cup Pairs("response queue", responseQueue)
        /\ Carried \cup Returned' =
             (others \cup Carried) \cup Pairs("response queue", Tail(responseQueue)) \cup {b}
    BY <1>7
  <2> QED
    BY <1>0, <1>2, <1>8, <2>1, PopKeeps
<1>11. Keeps
  BY <1>5, <1>9, <1>10 DEF Keeps, OneCopyOfEach, Copies, Contents, OneOfEach
<1> QED
  BY <1>1, <1>11 DEF SameClients, Busy

\* A worker turns a request into a response with the same id.
LEMMA ProcessAnswers ==
  ASSUME Orderly, NEW w \in Workers, Process(w), UNCHANGED clientVars
  PROVE  LET a == <<<<"worker", w>>, wreq[w]>>
             b == <<<<"reply", w>>, Reply(wreq[w], store)>>
         IN  /\ a \in Carried /\ Carried' = Carried \ {a}
             /\ b \notin Returned /\ Returned' = Returned \cup {b}
             /\ b[2].requestid = a[2].requestid
             /\ wreq[w] \in Requests
             /\ SameClients
<1> DEFINE a == <<<<"worker", w>>, wreq[w]>>
           b == <<<<"reply", w>>, Reply(wreq[w], store)>>
<1>0. /\ wpc \in [Workers -> WorkLabels]
      /\ wres \in [Workers -> Responses \cup {ZeroResponse}]
  BY DEF Orderly, TypeOK, ServerTypeOK
<1>1. /\ wpc[w] = "process" /\ wpc' = [wpc EXCEPT ![w] = "lock_res"]
      /\ wreq' = wreq /\ wres' = [wres EXCEPT ![w] = Reply(wreq[w], store)]
  BY DEF Process
<1>2. wreq[w] \in Requests
  BY <1>1 DEF Orderly, TypeOK, ServerTypeOK, WorkHolds
<1>3. \A u \in Workers :
        /\ wpc'[u] \in {"unlock", "process"} <=> wpc[u] \in {"unlock", "process"} /\ u # w
        /\ wpc'[u] \in {"lock_res", "push_res"} <=> wpc[u] \in {"lock_res", "push_res"} \/ u = w
        /\ u # w => wres'[u] = wres[u]
  BY <1>0, <1>1
<1>4. AtWorkers' = AtWorkers \ {a} /\ a \in AtWorkers
  BY <1>1, <1>3 DEF AtWorkers
<1>5. RepliesAtWorkers' = RepliesAtWorkers \cup {b} /\ b \notin RepliesAtWorkers
  <2>1. wres'[w] = Reply(wreq[w], store) /\ wpc[w] \notin {"lock_res", "push_res"}
    BY <1>0, <1>1
  <2> QED
    BY <1>3, <2>1 DEF RepliesAtWorkers
<1>6. /\ AtClients' = AtClients /\ AtRequestSlot' = AtRequestSlot
      /\ AtRequestThread' = AtRequestThread /\ InRequestQueue' = InRequestQueue
      /\ InResponseQueue' = InResponseQueue /\ AtResponseThread' = AtResponseThread
      /\ AtResponseSlot' = AtResponseSlot
  BY DEF Process, AtClients, AtRequestSlot, RequestSlotFull, AtRequestThread, InRequestQueue,
     Pairs, InResponseQueue, AtResponseThread, AtResponseSlot, Here, ResponseSlotFull,
     ClientInResponseSlot
<1>7. /\ a \notin AtClients /\ a \notin AtRequestSlot /\ a \notin AtRequestThread
      /\ a \notin InRequestQueue
      /\ b \notin InResponseQueue /\ b \notin AtResponseThread /\ b \notin AtResponseSlot
  BY PlacesApart
<1>8. b[2].requestid = a[2].requestid
  BY DEF Reply
<1>9. SameClients
  BY DEF SameClients, Busy
<1> HIDE DEF a, b
<1>10. /\ a \in Carried /\ Carried' = Carried \ {a}
       /\ b \notin Returned /\ Returned' = Returned \cup {b}
  BY <1>4, <1>5, <1>6, <1>7 DEF Carried, Returned
<1> QED
  BY <1>2, <1>8, <1>9, <1>10 DEF a, b

\* A client creates a request.
LEMMA CreateRequestAdds ==
  ASSUME Orderly, NEW c \in Clients, CreateRequest(c), UNCHANGED serverVars
  PROVE  /\ ~Busy(c) /\ Busy(c)'
         /\ creq'[c] \in Requests
         /\ Carried' = Carried \cup {<<<<"client", c>>, creq'[c]>>}
         /\ Returned' = Returned
         /\ \A d \in Clients \ {c} : (Busy(d)' <=> Busy(d)) /\ creq'[d] = creq[d]
         /\ CollidingIds \/ \A d \in Clients \ {c} :
                              Busy(d) => creq[d].requestid # creq'[c].requestid
<1> DEFINE b == <<<<"client", c>>, creq'[c]>>
<1>0. /\ cpc \in [Clients -> ThreadLabels]
      /\ creq \in [Clients -> Requests \cup {ZeroRequest}]
  BY DEF Orderly, TypeOK, ClientTypeOK
<1>1. PICK q \in Requests :
        /\ cpc[c] = "create" /\ cpc' = [cpc EXCEPT ![c] = "wait_space"]
        /\ creq' = [creq EXCEPT ![c] = q]
        /\ CanDraw(c, q.requestid)
        /\ request' = request /\ response' = response /\ sem' = sem
  <2>1. PICK id \in Ids, op \in DrawnOps, v \in Values :
          /\ CanDraw(c, id)
          /\ creq' = [creq EXCEPT ![c] = [requestid |-> id, operation |-> op, value |-> v]]
    BY DEF CreateRequest
  <2> DEFINE q == [requestid |-> id, operation |-> op, value |-> v]
  <2>2. q \in Requests /\ q.requestid = id
    BY ClientAssumption DEF Requests
  <2>3. /\ cpc[c] = "create" /\ cpc' = [cpc EXCEPT ![c] = "wait_space"]
        /\ request' = request /\ response' = response /\ sem' = sem
    BY DEF CreateRequest
  <2> HIDE DEF q
  <2> QED
    BY <2>1, <2>2, <2>3 DEF q
<1>2. creq'[c] = q /\ \A d \in Clients \ {c} : creq'[d] = creq[d]
  BY <1>0, <1>1
<1>3. \A d \in Clients :
        cpc'[d] \in {"wait_space", "write"} <=> cpc[d] \in {"wait_space", "write"} \/ d = c
  BY <1>0, <1>1
<1>4. AtClients' = AtClients \cup {b}
  <2>1. cpc[c] \notin {"wait_space", "write"}
    BY <1>1
  <2> QED
    BY <1>2, <1>3, <2>1 DEF AtClients
<1>5. /\ RequestSlotFull' <=> RequestSlotFull
      /\ ResponseSlotFull' <=> ResponseSlotFull
  BY <1>0, <1>1 DEF RequestSlotFull, ResponseSlotFull, ClientInResponseSlot
<1>6. AtRequestSlot' = AtRequestSlot /\ AtResponseSlot' = AtResponseSlot
  BY <1>1, <1>5 DEF AtRequestSlot, AtResponseSlot, Here
<1>7. /\ AtRequestThread' = AtRequestThread /\ InRequestQueue' = InRequestQueue
      /\ AtWorkers' = AtWorkers /\ RepliesAtWorkers' = RepliesAtWorkers
      /\ InResponseQueue' = InResponseQueue /\ AtResponseThread' = AtResponseThread
  BY DEF AtRequestThread, InRequestQueue, AtWorkers, RepliesAtWorkers, InResponseQueue,
     AtResponseThread, Here
<1>8. ~Busy(c) /\ Busy(c)' /\ \A d \in Clients \ {c} : Busy(d)' <=> Busy(d)
  BY <1>0, <1>1 DEF Busy, BusyLabels
<1>9. Carried' = Carried \cup {b} /\ Returned' = Returned
  <2> HIDE DEF b
  <2> QED
    BY <1>4, <1>6, <1>7 DEF Carried, Returned
<1>10. CollidingIds \/ \A d \in Clients \ {c} :
                         Busy(d) => creq[d].requestid # creq'[c].requestid
  BY <1>1, <1>2 DEF CanDraw
<1> QED
  BY <1>2, <1>8, <1>9, <1>10

\* A client frees the response slot, which held its response.
LEMMA ReleaseResponseTakes ==
  ASSUME Orderly, OwnId, NEW c \in Clients, ReleaseResponse(c), UNCHANGED serverVars
  PROVE  LET a == <<<<"response slot", 0>>, response>>
         IN  /\ a \in Returned /\ Returned' = Returned \ {a}
             /\ Carried' = Carried
             /\ response.requestid = creq[c].requestid
             /\ creq' = creq
             /\ Busy(c) /\ ~Busy(c)' /\ \A d \in Clients \ {c} : Busy(d)' <=> Busy(d)
<1> DEFINE a == <<<<"response slot", 0>>, response>>
<1>0. /\ cpc \in [Clients -> ThreadLabels] /\ sem \in [ShmSems -> Nat]
      /\ "req_available" \in ShmSems /\ "res_available" \in ShmSems
      /\ "res_space_available" \in ShmSems
  BY DEF Orderly, TypeOK, ShmTypeOK, ClientTypeOK, ShmSems
<1>1. /\ cpc[c] = "release" /\ cpc' = [cpc EXCEPT ![c] = "create"]
      /\ request' = request /\ response' = response /\ creq' = creq
      /\ sem' = [sem EXCEPT !["res_space_available"] = @ + 1]
  BY DEF ReleaseResponse
<1>2. ClientInResponseSlot(c)
  BY <1>1 DEF ClientInResponseSlot
<1>3. ResponseSlotFull /\ ~ResponseSlotFull'
  <2>1. /\ sem["res_available"] = 0 /\ ~ServerInResponseSlot
        /\ \A d \in Clients : ClientInResponseSlot(d) => d = c
    BY <1>0, <1>2 DEF Orderly, ResponseSlotExclusive
  <2> QED
    BY <1>0, <1>1, <1>2, <2>1 DEF ResponseSlotFull, ClientInResponseSlot, ServerInResponseSlot
<1>4. AtResponseSlot = {a} /\ AtResponseSlot' = {}
  BY <1>3 DEF AtResponseSlot, Here
<1>5. RequestSlotFull' <=> RequestSlotFull
  BY <1>0, <1>1 DEF RequestSlotFull
<1>6. AtClients' = AtClients /\ AtRequestSlot' = AtRequestSlot
  <2>1. \A d \in Clients :
          cpc'[d] \in {"wait_space", "write"} <=> cpc[d] \in {"wait_space", "write"}
    BY <1>0, <1>1
  <2> QED
    BY <1>1, <1>5, <2>1 DEF AtClients, AtRequestSlot, Here
<1>7. /\ AtRequestThread' = AtRequestThread /\ InRequestQueue' = InRequestQueue
      /\ AtWorkers' = AtWorkers /\ RepliesAtWorkers' = RepliesAtWorkers
      /\ InResponseQueue' = InResponseQueue /\ AtResponseThread' = AtResponseThread
  BY DEF AtRequestThread, InRequestQueue, AtWorkers, RepliesAtWorkers, InResponseQueue,
     AtResponseThread, Here
<1>8. a \notin RepliesAtWorkers /\ a \notin InResponseQueue /\ a \notin AtResponseThread
  BY PlacesApart
<1>9. a \in Returned /\ Returned' = Returned \ {a} /\ Carried' = Carried
  <2> HIDE DEF a
  <2> QED
    BY <1>4, <1>6, <1>7, <1>8 DEF Carried, Returned
<1>10. Busy(c) /\ ~Busy(c)' /\ \A d \in Clients \ {c} : Busy(d)' <=> Busy(d)
  BY <1>0, <1>1 DEF Busy, BusyLabels
<1> QED
  BY <1>1, <1>9, <1>10 DEF OwnId

-----------------------------------------------------------------------------
(* The invariant.                                                          *)

\* A step that only moves copies leaves every client its copy,
LEMMA KeepsServed ==
  ASSUME ClientsServed, Keeps, SameClients
  PROVE  ClientsServed'
<1>1. ASSUME NEW u \in Copies
      PROVE  \E t \in Copies' : t[2] = u[2]
  <2>1. CASE u \in Carried
    <3>1. u[2] \in Contents(Carried)'
      BY <2>1 DEF Keeps, Contents
    <3> QED
      BY <3>1 DEF Contents, Copies
  <2>2. CASE u \in Returned
    <3>1. u[2] \in Contents(Returned)'
      BY <2>2 DEF Keeps, Contents
    <3> QED
      BY <3>1 DEF Contents, Copies
  <2> QED
    BY <2>1, <2>2 DEF Copies
<1> SUFFICES ASSUME NEW c \in Clients, Busy(c)'
             PROVE  \E t \in Copies' : t[2].requestid = creq'[c].requestid
  BY DEF ClientsServed
<1>2. PICK u \in Copies : u[2].requestid = creq[c].requestid
  BY DEF ClientsServed, SameClients
<1>3. PICK t \in Copies' : t[2] = u[2]
  BY <1>1
<1> QED
  BY <1>2, <1>3 DEF SameClients

\* and keeps the invariant.
LEMMA KeepsCopyInv ==
  ASSUME CopyInv, Keeps, SameClients
  PROVE  CopyInv'
<1>1. /\ creq' = creq /\ \A c \in Clients : Busy(c)' <=> Busy(c)
  BY DEF SameClients
<1>2. OneCopyOfEach'
  BY DEF CopyInv, Keeps
<1>3. ASSUME NEW t \in Carried'
      PROVE  \E u \in Carried : u[2] = t[2]
  <2>1. t[2] \in Contents(Carried)'
    BY DEF Contents
  <2>2. t[2] \in Contents(Carried)
    BY <2>1 DEF Keeps
  <2> QED
    BY <2>2 DEF Contents
<1>4. ASSUME NEW t \in Returned'
      PROVE  \E u \in Returned : u[2] = t[2]
  <2>1. t[2] \in Contents(Returned)'
    BY DEF Contents
  <2>2. t[2] \in Contents(Returned)
    BY <2>1 DEF Keeps
  <2> QED
    BY <2>2 DEF Contents
<1>5. CopiesOwned'
  BY <1>1, <1>3, <1>4 DEF CopyInv, CopiesOwned
<1>6. ClientsServed'
  BY KeepsServed DEF CopyInv
<1>7. DistinctIds'
  BY <1>1 DEF CopyInv, DistinctIds
<1> QED
  BY <1>2, <1>5, <1>6, <1>7 DEF CopyInv

\* The step that turns a request into its response leaves one copy of each,
LEMMA ProcessKeepsCopies ==
  ASSUME Orderly, OneCopyOfEach, NEW w \in Workers, Process(w), UNCHANGED clientVars
  PROVE  OneCopyOfEach' /\ (ClientsServed => ClientsServed') /\ SameClients
<1> DEFINE a == <<<<"worker", w>>, wreq[w]>>
           b == <<<<"reply", w>>, Reply(wreq[w], store)>>
<1>1. /\ a \in Carried /\ Carried' = Carried \ {a}
      /\ Returned' = Returned \cup {b}
      /\ b[2].requestid = a[2].requestid
      /\ SameClients
  BY ProcessAnswers
<1> HIDE DEF a, b
<1>2. creq' = creq /\ \A c \in Clients : Busy(c)' <=> Busy(c)
  BY <1>1 DEF SameClients
<1>3. a \in Copies /\ Copies' = (Copies \ {a}) \cup {b}
  BY <1>1, KindsApart DEF Copies
<1>4. OneCopyOfEach'
  <2> SUFFICES ASSUME NEW t \in Copies', NEW u \in Copies', t[2].requestid = u[2].requestid
               PROVE  t = u
    BY DEF OneCopyOfEach, OneOfEach
  <2>1. \A v \in Copies \ {a} : v[2].requestid # b[2].requestid
    BY <1>1, <1>3 DEF OneCopyOfEach, OneOfEach
  <2>2. CASE t = b \/ u = b
    BY <1>3, <2>1, <2>2
  <2>3. CASE t # b /\ u # b
    BY <1>3, <2>3 DEF OneCopyOfEach, OneOfEach
  <2> QED
    BY <2>2, <2>3
<1>5. ASSUME ClientsServed
      PROVE  ClientsServed'
  <2> SUFFICES ASSUME NEW c \in Clients, Busy(c)'
               PROVE  \E t \in Copies' : t[2].requestid = creq'[c].requestid
    BY DEF ClientsServed
  <2>1. PICK u \in Copies : u[2].requestid = creq[c].requestid
    BY <1>2, <1>5 DEF ClientsServed
  <2>2. CASE u = a
    BY <1>1, <1>2, <1>3, <2>1, <2>2
  <2>3. CASE u # a
    BY <1>2, <1>3, <2>1, <2>3
  <2> QED
    BY <2>2, <2>3
<1> QED
  BY <1>1, <1>4, <1>5

\* and the invariant.
LEMMA ProcessKeepsCopyInv ==
  ASSUME Orderly, CopyInv, NEW w \in Workers, Process(w), UNCHANGED clientVars
  PROVE  CopyInv'
<1> DEFINE a == <<<<"worker", w>>, wreq[w]>>
           b == <<<<"reply", w>>, Reply(wreq[w], store)>>
<1>1. /\ a \in Carried /\ Carried' = Carried \ {a}
      /\ Returned' = Returned \cup {b}
      /\ b[2].requestid = a[2].requestid
      /\ SameClients
  BY ProcessAnswers
<1> HIDE DEF a, b
<1>2. creq' = creq /\ \A c \in Clients : Busy(c)' <=> Busy(c)
  BY <1>1 DEF SameClients
<1>3. OneCopyOfEach' /\ ClientsServed'
  BY ProcessKeepsCopies DEF CopyInv
<1>4. CopiesOwned'
  <2>1. PICK c \in Clients : Busy(c) /\ a[2] = creq[c]
    BY <1>1 DEF CopyInv, CopiesOwned
  <2>2. b[2].requestid = creq[c].requestid
    BY <1>1, <2>1
  <2>3. \A t \in Carried' : \E d \in Clients : Busy(d)' /\ t[2] = creq'[d]
    BY <1>1, <1>2 DEF CopyInv, CopiesOwned
  <2>4. \A t \in Returned' : \E d \in Clients : Busy(d)' /\ t[2].requestid = creq'[d].requestid
    BY <1>1, <1>2, <2>1, <2>2 DEF CopyInv, CopiesOwned
  <2> QED
    BY <2>3, <2>4 DEF CopiesOwned
<1>5. DistinctIds'
  BY <1>2 DEF CopyInv, DistinctIds
<1> QED
  BY <1>3, <1>4, <1>5 DEF CopyInv

\* So does the creation of a request, whose id is that of no copy,
LEMMA CreateKeepsCopies ==
  ASSUME Orderly, OneCopyOfEach, NEW c \in Clients, CreateRequest(c), UNCHANGED serverVars,
         \A t \in Copies : t[2].requestid # creq'[c].requestid
  PROVE  OneCopyOfEach' /\ (ClientsServed => ClientsServed')
<1> DEFINE b == <<<<"client", c>>, creq'[c]>>
<1>1. /\ Carried' = Carried \cup {b}
      /\ Returned' = Returned
      /\ \A d \in Clients \ {c} : (Busy(d)' <=> Busy(d)) /\ creq'[d] = creq[d]
  BY CreateRequestAdds
<1>2. b[2] = creq'[c]
  OBVIOUS
<1> HIDE DEF b
<1>3. Copies' = Copies \cup {b}
  BY <1>1 DEF Copies
<1>4. OneCopyOfEach'
  <2> SUFFICES ASSUME NEW t \in Copies', NEW u \in Copies', t[2].requestid = u[2].requestid
               PROVE  t = u
    BY DEF OneCopyOfEach, OneOfEach
  <2>1. \A v \in Copies : v[2].requestid # b[2].requestid
    BY <1>2
  <2>2. CASE t = b \/ u = b
    BY <1>3, <2>1, <2>2
  <2>3. CASE t # b /\ u # b
    BY <1>3, <2>3 DEF OneCopyOfEach, OneOfEach
  <2> QED
    BY <2>2, <2>3
<1>5. ASSUME ClientsServed
      PROVE  ClientsServed'
  <2> SUFFICES ASSUME NEW d \in Clients, Busy(d)'
               PROVE  \E t \in Copies' : t[2].requestid = creq'[d].requestid
    BY DEF ClientsServed
  <2>1. CASE d = c
    BY <1>2, <1>3, <2>1
  <2>2. CASE d # c
    BY <1>1, <1>3, <1>5, <2>2 DEF ClientsServed
  <2> QED
    BY <2>1, <2>2
<1> QED
  BY <1>4, <1>5

\* because it is that of no client,
LEMMA CreateKeepsCopyInv ==
  ASSUME ~CollidingIds, Orderly, CopyInv, NEW c \in Clients, CreateRequest(c),
         UNCHANGED serverVars
  PROVE  CopyInv'
<1> DEFINE b == <<<<"client", c>>, creq'[c]>>
<1>1. /\ ~Busy(c) /\ Busy(c)'
      /\ Carried' = Carried \cup {b}
      /\ Returned' = Returned
      /\ \A d \in Clients \ {c} : (Busy(d)' <=> Busy(d)) /\ creq'[d] = creq[d]
      /\ \A d \in Clients \ {c} : Busy(d) => creq[d].requestid # creq'[c].requestid
  BY CreateRequestAdds
<1>2. b[2] = creq'[c]
  OBVIOUS
<1> HIDE DEF b
<1>3. \A t \in Copies : \E d \in Clients \ {c} : Busy(d) /\ t[2].requestid = creq[d].requestid
  BY <1>1 DEF CopyInv, CopiesOwned, Copies
<1>4. OneCopyOfEach' /\ ClientsServed'
  <2>1. \A t \in Copies : t[2].requestid # creq'[c].requestid
    BY <1>1, <1>3
  <2> QED
    BY <2>1, CreateKeepsCopies DEF CopyInv
<1>5. CopiesOwned'
  <2>1. \A t \in Carried' : \E d \in Clients : Busy(d)' /\ t[2] = creq'[d]
    BY <1>1, <1>2 DEF CopyInv, CopiesOwned
  <2>2. \A t \in Returned' : \E d \in Clients : Busy(d)' /\ t[2].requestid = creq'[d].requestid
    BY <1>1 DEF CopyInv, CopiesOwned
  <2> QED
    BY <2>1, <2>2 DEF CopiesOwned
<1>6. DistinctIds'
  BY <1>1 DEF CopyInv, DistinctIds
<1> QED
  BY <1>4, <1>5, <1>6 DEF CopyInv

\* and the end of a request, whose response was the only copy.
LEMMA ReleaseKeepsCopies ==
  ASSUME Orderly, OwnId, OneCopyOfEach, DistinctIds, NEW c \in Clients, ReleaseResponse(c),
         UNCHANGED serverVars
  PROVE  OneCopyOfEach' /\ (ClientsServed => ClientsServed')
<1> DEFINE a == <<<<"response slot", 0>>, response>>
<1>1. /\ a \in Returned /\ Returned' = Returned \ {a}
      /\ Carried' = Carried
      /\ a[2].requestid = creq[c].requestid
      /\ creq' = creq
      /\ Busy(c) /\ ~Busy(c)' /\ \A d \in Clients \ {c} : Busy(d)' <=> Busy(d)
  BY ReleaseResponseTakes
<1> HIDE DEF a
<1>2. a \in Copies /\ Copies' = Copies \ {a}
  BY <1>1, KindsApart DEF Copies
<1>3. OneCopyOfEach'
  BY <1>2 DEF OneCopyOfEach, OneOfEach
<1>4. ASSUME ClientsServed
      PROVE  ClientsServed'
  <2> SUFFICES ASSUME NEW d \in Clients, Busy(d)'
               PROVE  \E t \in Copies' : t[2].requestid = creq'[d].requestid
    BY DEF ClientsServed
  <2>1. d # c /\ Busy(d)
    BY <1>1
  <2>2. PICK t \in Copies : t[2].requestid = creq[d].requestid
    BY <1>4, <2>1 DEF ClientsServed
  <2>3. creq[d].requestid # creq[c].requestid
    BY <1>1, <2>1 DEF DistinctIds
  <2> QED
    BY <1>1, <1>2, <2>2, <2>3
<1> QED
  BY <1>3, <1>4

\* It leaves nothing of that request behind.
LEMMA ReleaseKeepsCopyInv ==
  ASSUME Orderly, OwnId, CopyInv, NEW c \in Clients, ReleaseResponse(c), UNCHANGED serverVars
  PROVE  CopyInv'
<1> DEFINE a == <<<<"response slot", 0>>, response>>
<1>1. /\ a \in Returned /\ Returned' = Returned \ {a}
      /\ Carried' = Carried
      /\ a[2].requestid = creq[c].requestid
      /\ creq' = creq
      /\ Busy(c) /\ ~Busy(c)' /\ \A d \in Clients \ {c} : Busy(d)' <=> Busy(d)
  BY ReleaseResponseTakes
<1> HIDE DEF a
<1>2. a \in Copies /\ Copies' = Copies \ {a}
  BY <1>1, KindsApart DEF Copies
<1>3. OneCopyOfEach' /\ ClientsServed'
  BY ReleaseKeepsCopies DEF CopyInv
<1>4. \A t \in Copies' : t[2].requestid # creq[c].requestid
  BY <1>1, <1>2 DEF CopyInv, OneCopyOfEach, OneOfEach
<1>5. CopiesOwned'
  <2>1. \A t \in Carried' : \E d \in Clients : Busy(d)' /\ t[2] = creq'[d]
    <3> SUFFICES ASSUME NEW t \in Carried'
                 PROVE  \E d \in Clients : Busy(d)' /\ t[2] = creq'[d]
      OBVIOUS
    <3>1. PICK d \in Clients : Busy(d) /\ t[2] = creq[d]
      BY <1>1 DEF CopyInv, CopiesOwned
    <3>2. d # c
      BY <1>4, <3>1 DEF Copies
    <3> QED
      BY <1>1, <3>1, <3>2
  <2>2. \A t \in Returned' : \E d \in Clients : Busy(d)' /\ t[2].requestid = creq'[d].requestid
    <3> SUFFICES ASSUME NEW t \in Returned'
                 PROVE  \E d \in Clients : Busy(d)' /\ t[2].requestid = creq'[d].requestid
      OBVIOUS
    <3>1. PICK d \in Clients : Busy(d) /\ t[2].requestid = creq[d].requestid
      BY <1>1 DEF CopyInv, CopiesOwned
    <3>2. d # c
      BY <1>4, <3>1 DEF Copies
    <3> QED
      BY <1>1, <3>1, <3>2
  <2> QED
    BY <2>1, <2>2 DEF CopiesOwned
<1>6. DistinctIds'
  BY <1>1 DEF CopyInv, DistinctIds
<1> QED
  BY <1>3, <1>5, <1>6 DEF CopyInv

\* Every step moves copies, or is one of these three.
LEMMA StepKinds ==
  ASSUME Orderly, Next
  PROVE  \/ Keeps /\ SameClients /\ store' = store
         \/ \E w \in Workers : Process(w) /\ UNCHANGED clientVars
         \/ \E c \in Clients : CreateRequest(c) /\ UNCHANGED serverVars
         \/ \E c \in Clients : ReleaseResponse(c) /\ UNCHANGED serverVars
<1> DEFINE Goal == \/ Keeps /\ SameClients /\ store' = store
                   \/ \E w \in Workers : Process(w) /\ UNCHANGED clientVars
                   \/ \E c \in Clients : CreateRequest(c) /\ UNCHANGED serverVars
                   \/ \E c \in Clients : ReleaseResponse(c) /\ UNCHANGED serverVars
<1>0. Carried' = Carried /\ Returned' = Returned => Keeps
  BY DEF Keeps, Contents, OneCopyOfEach, OneOfEach, Copies
<1>1. CASE ClientNext /\ UNCHANGED serverVars
  <2>1. ASSUME NEW c \in Clients, WriteRequest(c)
        PROVE  Goal
    BY <1>1, <2>1, WriteRequestMoves, RequestMovesKeep
  <2>2. ASSUME NEW c \in Clients,
               \/ WaitRequestSpace(c) \/ PostRequest(c) \/ WaitResponse(c)
               \/ CheckResponse(c) \/ RepostResponse(c) \/ LeaveLoop(c) \/ SpawnThread(c)
        PROVE  Goal
    BY <1>0, <1>1, <2>2, QuietClientSteps
  <2>3. ASSUME NEW q \in Procs,
               \/ JoinThreads(q) \/ ReturnFromMain(q) \/ Sigint(q)
               \/ DrainOneExit(q) \/ ExitFromHandler(q)
        PROVE  Goal
    BY <1>0, <1>1, <2>3, QuietClientSteps
  <2> QED
    BY <1>1, <2>1, <2>2, <2>3 DEF ClientNext, ThreadStep, MainStep, Threads
<1>2. CASE ServerNext /\ UNCHANGED clientVars
  <2>1. CASE CopyRequest
    BY <1>2, <2>1, CopyRequestMoves, RequestMovesKeep
  <2>2. CASE PushRequest
    BY <1>2, <2>2, PushRequestMoves, RequestMovesKeep
  <2>3. CASE WriteResponse
    BY <1>2, <2>3, WriteResponseMoves, ResponseMovesKeep
  <2>4. CASE PopResult
    BY <1>2, <2>4, PopResultKeeps
  <2>5. ASSUME NEW w \in Workers, PopRequest(w)
        PROVE  Goal
    BY <1>2, <2>5, PopRequestKeeps
  <2>6. ASSUME NEW w \in Workers, PushResponse(w)
        PROVE  Goal
    BY <1>2, <2>6, PushResponseMoves, ResponseMovesKeep
  <2>7. ASSUME NEW w \in Workers,
               \/ TakeTicket(w) \/ LockForDequeue(w) \/ UnlockAfterDequeue(w)
               \/ LockForResponse(w) \/ UnlockAfterResponse(w) \/ AnnounceResponse(w)
        PROVE  Goal
    BY <1>0, <1>2, <2>7, QuietServerSteps
  <2>8. CASE \/ WaitRequest \/ ReleaseRequestSlot \/ LockForEnqueue
             \/ UnlockAfterEnqueue \/ AnnounceRequest
             \/ WaitResult \/ LockForResult \/ UnlockAfterResult
             \/ WaitResponseSpace \/ PostResponse
    BY <1>0, <1>2, <2>8, QuietServerSteps
  <2> QED
    BY <1>2, <2>1, <2>2, <2>3, <2>4, <2>5, <2>6, <2>7, <2>8
       DEF ServerNext, RequestThreadStep, WorkerStep, ResponseThreadStep
<1> QED
  BY <1>1, <1>2 DEF Next

\* At the start nobody waits, and there is nothing anywhere.
LEMMA InitHasNoCopies ==
  ASSUME Init
  PROVE  Copies = {} /\ CopyInv
<1> USE DEF Init, ShmInit, ClientInit, ServerInit
<1>1. \A c \in Clients : ~Busy(c)
  BY DEF Busy, BusyLabels
<1>2. AtClients = {} /\ AtWorkers = {} /\ RepliesAtWorkers = {}
  BY DEF AtClients, AtWorkers, RepliesAtWorkers
<1>3. InRequestQueue = {} /\ InResponseQueue = {}
  BY DEF InRequestQueue, InResponseQueue, Pairs
<1>4. AtRequestThread = {} /\ AtResponseThread = {}
  BY DEF AtRequestThread, AtResponseThread, Here
<1>5. ~RequestSlotFull /\ ~ResponseSlotFull
  BY DEF RequestSlotFull, ResponseSlotFull, ClientInResponseSlot, ShmSems
<1>6. AtRequestSlot = {} /\ AtResponseSlot = {}
  BY <1>5 DEF AtRequestSlot, AtResponseSlot, Here
<1>7. Carried = {} /\ Returned = {}
  BY <1>2, <1>3, <1>4, <1>6 DEF Carried, Returned
<1>8. CopyInv
  BY <1>1, <1>7 DEF Copies, CopyInv, OneCopyOfEach, OneOfEach, CopiesOwned, ClientsServed,
     DistinctIds
<1> QED
  BY <1>7, <1>8 DEF Copies

\* Every step keeps the invariant.
LEMMA NextKeepsCopyInv ==
  ASSUME ~CollidingIds, Orderly, OwnId, CopyInv, [Next]_vars
  PROVE  CopyInv'
<1>1. CASE Next
  BY <1>1, StepKinds, KeepsCopyInv, ProcessKeepsCopyInv, CreateKeepsCopyInv,
     ReleaseKeepsCopyInv
<1>2. CASE UNCHANGED vars
  <2>1. Carried' = Carried /\ Returned' = Returned
    BY <1>2 DEF Carried, Returned, AtClients, AtRequestSlot, AtRequestThread, InRequestQueue,
       AtWorkers, RepliesAtWorkers, InResponseQueue, AtResponseThread, AtResponseSlot, Pairs,
       Here, RequestSlotFull, ResponseSlotFull, ClientInResponseSlot
  <2>2. SameClients
    BY <1>2 DEF SameClients, Busy
  <2>3. Keeps
    BY <2>1 DEF Keeps, Contents, OneCopyOfEach, OneOfEach, Copies
  <2> QED
    BY <2>2, <2>3, KeepsCopyInv
<1> QED
  BY <1>1, <1>2

\* The invariant holds of every state, if no id is drawn while it is in flight.
THEOREM CopyInvariance ==
  ASSUME ~CollidingIds
  PROVE  Spec => []CopyInv
<1>1. Init => CopyInv
  BY InitHasNoCopies
<1>2. IInv /\ ReleasesOwnResponse /\ CopyInv /\ [Next]_vars => CopyInv'
  BY SystemIsOrderly, NextKeepsCopyInv DEF ReleasesOwnResponse, OwnId
<1> QED
  BY <1>1, <1>2, Invariance, AcknowledgesOwnResponse, PTL DEF Spec

-----------------------------------------------------------------------------
(* The places that module System counts, and the copies of this module.    *)

\* The copies in T with the id of client c.
Mine(c, T) == {t \in T : t[2].requestid = creq[c].requestid}

\* Of each place: it is counted when a copy with the id of client c is there, and
\* once when there is one such copy.
SeesOne(S, T) ==
  /\ T = {} <=> S = {}
  /\ (\E t : T = {t}) => \E x : S = {x}

\* A place for one: it is counted when it is in use by the request of c.
LEMMA SlotSeen ==
  ASSUME NEW c \in Clients, NEW x, NEW at, NEW q, NEW holds
  PROVE  SeesOne(Here(x, holds /\ q.requestid = creq[c].requestid),
                 Mine(c, Here(<<at, q>>, holds)))
<1>0. <<at, q>>[2] = q
  OBVIOUS
<1>1. CASE holds /\ q.requestid = creq[c].requestid
  <2>1. Here(x, holds /\ q.requestid = creq[c].requestid) = {x}
    BY <1>1 DEF Here
  <2>2. Mine(c, Here(<<at, q>>, holds)) = {<<at, q>>}
    BY <1>0, <1>1 DEF Here, Mine
  <2> QED
    BY <2>1, <2>2 DEF SeesOne
<1>2. CASE ~(holds /\ q.requestid = creq[c].requestid)
  <2>1. Here(x, holds /\ q.requestid = creq[c].requestid) = {}
    BY <1>2 DEF Here
  <2>2. Mine(c, Here(<<at, q>>, holds)) = {}
    BY <1>0, <1>2 DEF Here, Mine
  <2> QED
    BY <2>1, <2>2 DEF SeesOne
<1> QED
  BY <1>1, <1>2

\* RequestPlaces counts what is on its way with the id of client c: nothing if there
\* is nothing, one place if there is one copy.
LEMMA RequestsSeen ==
  ASSUME NEW c \in Clients, Busy(c), DistinctIds
  PROVE  /\ Mine(c, Carried) = {} <=> RequestPlaces(c) = {}
         /\ (\E t : Mine(c, Carried) = {t}) => \E x : RequestPlaces(c) = {x}
<1> DEFINE k  == creq[c].requestid
           R1 == Here(<<"client">>, cpc[c] \in {"wait_space", "write"})
           R2 == Here(<<"request slot">>, RequestSlotFull /\ request.requestid = k)
           R3 == Here(<<"request thread">>,
                      epc \in {"release", "lock", "push"} /\ ereq.requestid = k)
           R4 == {<<"request queue", i>> : i \in
                    {j \in DOMAIN requestQueue : requestQueue[j].requestid = k}}
           R5 == {<<"worker", w>> : w \in
                    {u \in Workers : wpc[u] \in {"unlock", "process"} /\ wreq[u].requestid = k}}
<1>0. RequestPlaces(c) = R1 \cup R2 \cup R3 \cup R4 \cup R5
  BY DEF RequestPlaces
<1>1. SeesOne(R1, Mine(c, AtClients))
  <2>1. ASSUME NEW t \in Mine(c, AtClients)
        PROVE  t = <<<<"client", c>>, creq[c]>> /\ cpc[c] \in {"wait_space", "write"}
    <3>1. PICK d \in Clients : /\ cpc[d] \in {"wait_space", "write"}
                               /\ t = <<<<"client", d>>, creq[d]>>
      BY DEF Mine, AtClients
    <3>2. Busy(d) /\ creq[d].requestid = creq[c].requestid
      BY <3>1 DEF Mine, Busy, BusyLabels
    <3>3. d = c
      BY <3>2 DEF DistinctIds
    <3> QED
      BY <3>1, <3>3
  <2>2. cpc[c] \in {"wait_space", "write"} => <<<<"client", c>>, creq[c]>> \in Mine(c, AtClients)
    BY DEF Mine, AtClients
  <2>3. CASE cpc[c] \in {"wait_space", "write"}
    BY <2>2, <2>3 DEF SeesOne, Here
  <2>4. CASE cpc[c] \notin {"wait_space", "write"}
    BY <2>1, <2>4 DEF SeesOne, Here
  <2> QED
    BY <2>3, <2>4
<1>2. SeesOne(R2, Mine(c, AtRequestSlot))
  BY SlotSeen DEF AtRequestSlot
<1>3. SeesOne(R3, Mine(c, AtRequestThread))
  BY SlotSeen DEF AtRequestThread
<1>4. SeesOne(R4, Mine(c, InRequestQueue))
  <2>1. \A i : <<<<"request queue", i>>, requestQueue[i]>> \in Mine(c, InRequestQueue) <=>
                 i \in DOMAIN requestQueue /\ requestQueue[i].requestid = k
    BY DEF Mine, InRequestQueue, Pairs
  <2>2. \A t \in Mine(c, InRequestQueue) : \E i \in DOMAIN requestQueue :
          t = <<<<"request queue", i>>, requestQueue[i]>>
    BY DEF Mine, InRequestQueue, Pairs
  <2>3. ASSUME NEW t, Mine(c, InRequestQueue) = {t}
        PROVE  \E x : R4 = {x}
    <3>1. PICK i \in DOMAIN requestQueue : t = <<<<"request queue", i>>, requestQueue[i]>>
      BY <2>2, <2>3
    <3>2. \A j \in DOMAIN requestQueue : requestQueue[j].requestid = k <=> j = i
      BY <2>1, <2>3, <3>1
    <3>3. R4 = {<<"request queue", i>>}
      BY <3>2
    <3> QED
      BY <3>3
  <2>4. Mine(c, InRequestQueue) = {} <=> R4 = {}
    <3>1. ASSUME NEW t \in Mine(c, InRequestQueue)
          PROVE  R4 # {}
      <4>1. PICK i \in DOMAIN requestQueue : t = <<<<"request queue", i>>, requestQueue[i]>>
        BY <2>2
      <4>2. requestQueue[i].requestid = k
        BY <2>1, <4>1
      <4>3. <<"request queue", i>> \in R4
        BY <4>2
      <4> QED
        BY <4>3
    <3>2. ASSUME NEW i \in DOMAIN requestQueue, requestQueue[i].requestid = k
          PROVE  Mine(c, InRequestQueue) # {}
      BY <2>1, <3>2
    <3>3. ASSUME R4 # {}
          PROVE  Mine(c, InRequestQueue) # {}
      BY <3>2, <3>3
    <3> QED
      BY <3>1, <3>3
  <2> QED
    BY <2>3, <2>4 DEF SeesOne
<1>5. SeesOne(R5, Mine(c, AtWorkers))
  <2>1. \A w : <<<<"worker", w>>, wreq[w]>> \in Mine(c, AtWorkers) <=>
                 w \in Workers /\ wpc[w] \in {"unlock", "process"} /\ wreq[w].requestid = k
    BY DEF Mine, AtWorkers
  <2>2. \A t \in Mine(c, AtWorkers) : \E w \in Workers : t = <<<<"worker", w>>, wreq[w]>>
    BY DEF Mine, AtWorkers
  <2>3. ASSUME NEW t, Mine(c, AtWorkers) = {t}
        PROVE  \E x : R5 = {x}
    <3>1. PICK w \in Workers : t = <<<<"worker", w>>, wreq[w]>>
      BY <2>2, <2>3
    <3>2. \A u \in Workers : wpc[u] \in {"unlock", "process"} /\ wreq[u].requestid = k <=> u = w
      BY <2>1, <2>3, <3>1
    <3>3. R5 = {<<"worker", w>>}
      BY <3>2
    <3> QED
      BY <3>3
  <2>4. Mine(c, AtWorkers) = {} <=> R5 = {}
    <3>1. ASSUME NEW t \in Mine(c, AtWorkers)
          PROVE  R5 # {}
      <4>1. PICK w \in Workers : t = <<<<"worker", w>>, wreq[w]>>
        BY <2>2
      <4>2. wpc[w] \in {"unlock", "process"} /\ wreq[w].requestid = k
        BY <2>1, <4>1
      <4>3. <<"worker", w>> \in R5
        BY <4>2
      <4> QED
        BY <4>3
    <3>2. ASSUME NEW w \in Workers, wpc[w] \in {"unlock", "process"}, wreq[w].requestid = k
          PROVE  Mine(c, AtWorkers) # {}
      BY <2>1, <3>2
    <3>3. ASSUME R5 # {}
          PROVE  Mine(c, AtWorkers) # {}
      BY <3>2, <3>3
    <3> QED
      BY <3>1, <3>3
  <2> QED
    BY <2>3, <2>4 DEF SeesOne
<1>6. Mine(c, Carried) = Mine(c, AtClients) \cup Mine(c, AtRequestSlot)
        \cup Mine(c, AtRequestThread) \cup Mine(c, InRequestQueue) \cup Mine(c, AtWorkers)
  BY DEF Mine, Carried
<1>7. /\ \A t \in Mine(c, AtClients) : t[1][1] = "client"
      /\ \A t \in Mine(c, AtRequestSlot) : t[1][1] = "request slot"
      /\ \A t \in Mine(c, AtRequestThread) : t[1][1] = "request thread"
      /\ \A t \in Mine(c, InRequestQueue) : t[1][1] = "request queue"
      /\ \A t \in Mine(c, AtWorkers) : t[1][1] = "worker"
  BY PlacesApart DEF Mine
<1> HIDE DEF R1, R2, R3, R4, R5
<1>8. ASSUME NEW t, Mine(c, Carried) = {t}
      PROVE  \E x : RequestPlaces(c) = {x}
  <2>1. CASE t \in Mine(c, AtClients)
    <3>1. /\ Mine(c, AtClients) = {t} /\ Mine(c, AtRequestSlot) = {}
          /\ Mine(c, AtRequestThread) = {} /\ Mine(c, InRequestQueue) = {}
          /\ Mine(c, AtWorkers) = {}
      BY <1>6, <1>7, <1>8, <2>1
    <3> QED
      BY <1>0, <1>1, <1>2, <1>3, <1>4, <1>5, <3>1 DEF SeesOne
  <2>2. CASE t \in Mine(c, AtRequestSlot)
    <3>1. /\ Mine(c, AtClients) = {} /\ Mine(c, AtRequestSlot) = {t}
          /\ Mine(c, AtRequestThread) = {} /\ Mine(c, InRequestQueue) = {}
          /\ Mine(c, AtWorkers) = {}
      BY <1>6, <1>7, <1>8, <2>2
    <3> QED
      BY <1>0, <1>1, <1>2, <1>3, <1>4, <1>5, <3>1 DEF SeesOne
  <2>3. CASE t \in Mine(c, AtRequestThread)
    <3>1. /\ Mine(c, AtClients) = {} /\ Mine(c, AtRequestSlot) = {}
          /\ Mine(c, AtRequestThread) = {t} /\ Mine(c, InRequestQueue) = {}
          /\ Mine(c, AtWorkers) = {}
      BY <1>6, <1>7, <1>8, <2>3
    <3> QED
      BY <1>0, <1>1, <1>2, <1>3, <1>4, <1>5, <3>1 DEF SeesOne
  <2>4. CASE t \in Mine(c, InRequestQueue)
    <3>1. /\ Mine(c, AtClients) = {} /\ Mine(c, AtRequestSlot) = {}
          /\ Mine(c, AtRequestThread) = {} /\ Mine(c, InRequestQueue) = {t}
          /\ Mine(c, AtWorkers) = {}
      BY <1>6, <1>7, <1>8, <2>4
    <3> QED
      BY <1>0, <1>1, <1>2, <1>3, <1>4, <1>5, <3>1 DEF SeesOne
  <2>5. CASE t \in Mine(c, AtWorkers)
    <3>1. /\ Mine(c, AtClients) = {} /\ Mine(c, AtRequestSlot) = {}
          /\ Mine(c, AtRequestThread) = {} /\ Mine(c, InRequestQueue) = {}
          /\ Mine(c, AtWorkers) = {t}
      BY <1>6, <1>7, <1>8, <2>5
    <3> QED
      BY <1>0, <1>1, <1>2, <1>3, <1>4, <1>5, <3>1 DEF SeesOne
  <2> QED
    BY <1>6, <1>8, <2>1, <2>2, <2>3, <2>4, <2>5
<1>9. Mine(c, Carried) = {} <=> RequestPlaces(c) = {}
  BY <1>0, <1>1, <1>2, <1>3, <1>4, <1>5, <1>6 DEF SeesOne
<1> QED
  BY <1>8, <1>9

\* What two sets hold together is what each of them holds.
LEMMA ContentsOfUnion ==
  ASSUME NEW A1, NEW A2, NEW B1, NEW B2,
         Contents(A1) = Contents(B1), Contents(A2) = Contents(B2)
  PROVE  Contents(A1 \cup A2) = Contents(B1 \cup B2)
<1>1. Contents(A1 \cup A2) = Contents(A1) \cup Contents(A2)
  BY DEF Contents
<1>2. Contents(B1 \cup B2) = Contents(B1) \cup Contents(B2)
  BY DEF Contents
<1> QED
  BY <1>1, <1>2

\* The same of the responses, of which the contents matter too.
SeesResponse(S, T) ==
  /\ Contents(S) = Contents(T)
  /\ (\E t : T = {t}) => \E x : S = {x}

\* A place for one response.
LEMMA ResponseSlotSeen ==
  ASSUME NEW c \in Clients, NEW x, NEW at, NEW q, NEW holds
  PROVE  SeesResponse(Here(<<x, q>>, holds /\ q.requestid = creq[c].requestid),
                      Mine(c, Here(<<at, q>>, holds)))
<1>0. <<at, q>>[2] = q /\ <<x, q>>[2] = q
  OBVIOUS
<1>1. CASE holds /\ q.requestid = creq[c].requestid
  <2>1. Here(<<x, q>>, holds /\ q.requestid = creq[c].requestid) = {<<x, q>>}
    BY <1>1 DEF Here
  <2>2. Mine(c, Here(<<at, q>>, holds)) = {<<at, q>>}
    BY <1>0, <1>1 DEF Here, Mine
  <2>3. Contents({<<at, q>>}) = Contents({<<x, q>>})
    BY <1>0 DEF Contents
  <2> QED
    BY <2>1, <2>2, <2>3 DEF SeesResponse
<1>2. CASE ~(holds /\ q.requestid = creq[c].requestid)
  <2>1. Here(<<x, q>>, holds /\ q.requestid = creq[c].requestid) = {}
    BY <1>2 DEF Here
  <2>2. Mine(c, Here(<<at, q>>, holds)) = {}
    BY <1>0, <1>2 DEF Here, Mine
  <2> QED
    BY <2>1, <2>2 DEF SeesResponse
<1> QED
  BY <1>1, <1>2

\* What ResponsesTo shows of a client is what is on its way back with its id.
LEMMA ResponsesSeen ==
  ASSUME NEW c \in Clients
  PROVE  SeesResponse(ResponsesTo(c), Mine(c, Returned))
<1> DEFINE k  == creq[c].requestid
           S1 == {<<<<"worker", w>>, wres[w]>> : w \in
                    {u \in Workers : wpc[u] \in {"lock_res", "push_res"} /\ wres[u].requestid = k}}
           S2 == {<<<<"response queue", i>>, responseQueue[i]>> : i \in
                    {j \in DOMAIN responseQueue : responseQueue[j].requestid = k}}
           S3 == Here(<<<<"response thread">>, rres>>,
                      rpc \in {"unlock", "wait_space", "write"} /\ rres.requestid = k)
           S4 == Here(<<<<"response slot">>, response>>, ResponseSlotFull /\ response.requestid = k)
<1>0. ResponsesTo(c) = S1 \cup S2 \cup S3 \cup S4
  BY DEF ResponsesTo
<1>1. SeesResponse(S1, Mine(c, RepliesAtWorkers))
  <2> DEFINE here(w) == w \in Workers /\ wpc[w] \in {"lock_res", "push_res"} /\ wres[w].requestid = k
  <2>0. \A x, y : <<x, y>>[2] = y
    OBVIOUS
  <2>1. \A t : t \in Mine(c, RepliesAtWorkers) <=>
                 \E w : here(w) /\ t = <<<<"reply", w>>, wres[w]>>
    BY <2>0 DEF Mine, RepliesAtWorkers
  <2>2. \A t : t \in S1 <=> \E w : here(w) /\ t = <<<<"worker", w>>, wres[w]>>
    OBVIOUS
  <2>3. \A w, u, x, y : <<<<"reply", w>>, x>> = <<<<"reply", u>>, y>> => w = u
    <3>1. ASSUME NEW w, NEW u, NEW x, NEW y, <<<<"reply", w>>, x>> = <<<<"reply", u>>, y>>
          PROVE  w = u
      <4>1. <<"reply", w>> = <<"reply", u>>
        BY <3>1
      <4> QED
        BY <4>1
    <3> QED
      BY <3>1
  <2> HIDE DEF here, S1
  <2>4. Contents(S1) = Contents(Mine(c, RepliesAtWorkers))
    <3>0. \A w : <<<<"worker", w>>, wres[w]>>[2] = wres[w]
                 /\ <<<<"reply", w>>, wres[w]>>[2] = wres[w]
      BY <2>0
    <3>1. ASSUME NEW t \in S1
          PROVE  \E u \in Mine(c, RepliesAtWorkers) : u[2] = t[2]
      <4>1. PICK w : here(w) /\ t = <<<<"worker", w>>, wres[w]>>
        BY <2>2
      <4>2. <<<<"reply", w>>, wres[w]>> \in Mine(c, RepliesAtWorkers)
        BY <2>1, <4>1
      <4> QED
        BY <3>0, <4>1, <4>2
    <3>2. ASSUME NEW u \in Mine(c, RepliesAtWorkers)
          PROVE  \E t \in S1 : t[2] = u[2]
      <4>1. PICK w : here(w) /\ u = <<<<"reply", w>>, wres[w]>>
        BY <2>1
      <4>2. <<<<"worker", w>>, wres[w]>> \in S1
        BY <2>2, <4>1
      <4> QED
        BY <3>0, <4>1, <4>2
    <3>3. \A r : r \in Contents(S1) <=> \E t \in S1 : r = t[2]
      BY DEF Contents
    <3>4. \A r : r \in Contents(Mine(c, RepliesAtWorkers)) <=>
                   \E t \in Mine(c, RepliesAtWorkers) : r = t[2]
      BY DEF Contents
    <3> HIDE DEF Mine, Contents
    <3>5. \A r : r \in Contents(S1) <=> r \in Contents(Mine(c, RepliesAtWorkers))
      BY <3>1, <3>2, <3>3, <3>4
    <3>6. /\ Contents(S1) \subseteq Contents(Mine(c, RepliesAtWorkers))
          /\ Contents(Mine(c, RepliesAtWorkers)) \subseteq Contents(S1)
      BY <3>5
    <3> QED
      BY <3>6
  <2>5. ASSUME NEW t, Mine(c, RepliesAtWorkers) = {t}
        PROVE  \E x : S1 = {x}
    <3>1. PICK w : here(w) /\ t = <<<<"reply", w>>, wres[w]>>
      BY <2>1, <2>5
    <3>2. ASSUME NEW u, here(u)
          PROVE  u = w
      <4>1. <<<<"reply", u>>, wres[u]>> = t
        BY <2>1, <2>5, <3>2
      <4> QED
        BY <2>3, <3>1, <4>1
    <3>3. S1 = {<<<<"worker", w>>, wres[w]>>}
      BY <2>2, <3>1, <3>2
    <3> QED
      BY <3>3
  <2> QED
    BY <2>4, <2>5 DEF SeesResponse
<1>2. S2 = Mine(c, InResponseQueue)
  <2>0. \A i : <<<<"response queue", i>>, responseQueue[i]>>[2] = responseQueue[i]
    OBVIOUS
  <2>1. \A t : t \in S2 <=>
          \E i \in DOMAIN responseQueue :
            responseQueue[i].requestid = k /\ t = <<<<"response queue", i>>, responseQueue[i]>>
    OBVIOUS
  <2>2. \A t : t \in InResponseQueue <=>
          \E i \in DOMAIN responseQueue : t = <<<<"response queue", i>>, responseQueue[i]>>
    BY DEF InResponseQueue, Pairs
  <2>3. \A t : t \in Mine(c, InResponseQueue) <=> t \in InResponseQueue /\ t[2].requestid = k
    BY DEF Mine
  <2> HIDE DEF S2, k
  <2>4. ASSUME NEW t \in S2
        PROVE  t \in Mine(c, InResponseQueue)
    <3>1. PICK i \in DOMAIN responseQueue :
            responseQueue[i].requestid = k /\ t = <<<<"response queue", i>>, responseQueue[i]>>
      BY <2>1
    <3>2. t[2] = responseQueue[i]
      BY <2>0, <3>1
    <3> QED
      BY <2>2, <2>3, <3>1, <3>2
  <2>5. ASSUME NEW t \in Mine(c, InResponseQueue)
        PROVE  t \in S2
    <3>1. PICK i \in DOMAIN responseQueue : t = <<<<"response queue", i>>, responseQueue[i]>>
      BY <2>2, <2>3
    <3>2. t[2] = responseQueue[i] /\ t[2].requestid = k
      BY <2>0, <2>3, <3>1
    <3> QED
      BY <2>1, <3>1, <3>2
  <2> QED
    BY <2>4, <2>5
<1>3. SeesResponse(S3, Mine(c, AtResponseThread))
  BY ResponseSlotSeen DEF AtResponseThread
<1>4. SeesResponse(S4, Mine(c, AtResponseSlot))
  BY ResponseSlotSeen DEF AtResponseSlot
<1>5. Mine(c, Returned) = Mine(c, RepliesAtWorkers) \cup Mine(c, InResponseQueue)
        \cup Mine(c, AtResponseThread) \cup Mine(c, AtResponseSlot)
  BY DEF Mine, Returned
<1>6. /\ \A t \in Mine(c, RepliesAtWorkers) : t[1][1] = "reply"
      /\ \A t \in Mine(c, InResponseQueue) : t[1][1] = "response queue"
      /\ \A t \in Mine(c, AtResponseThread) : t[1][1] = "response thread"
      /\ \A t \in Mine(c, AtResponseSlot) : t[1][1] = "response slot"
  BY PlacesApart DEF Mine
<1> HIDE DEF S1, S2, S3, S4
<1>7. Contents(ResponsesTo(c)) = Contents(Mine(c, Returned))
  <2>1. /\ Contents(S1) = Contents(Mine(c, RepliesAtWorkers))
        /\ Contents(S2) = Contents(Mine(c, InResponseQueue))
        /\ Contents(S3) = Contents(Mine(c, AtResponseThread))
        /\ Contents(S4) = Contents(Mine(c, AtResponseSlot))
    BY <1>1, <1>2, <1>3, <1>4 DEF SeesResponse
  <2> DEFINE M1 == Mine(c, RepliesAtWorkers)
             M2 == Mine(c, InResponseQueue)
             M3 == Mine(c, AtResponseThread)
             M4 == Mine(c, AtResponseSlot)
  <2>1a. Contents(S1) = Contents(M1)
    BY <2>1
  <2>1b. Contents(S2) = Contents(M2)
    BY <2>1
  <2>1c. Contents(S3) = Contents(M3)
    BY <2>1
  <2>1d. Contents(S4) = Contents(M4)
    BY <2>1
  <2> HIDE DEF M1, M2, M3, M4
  <2> DEFINE S12 == S1 \cup S2
             M12 == M1 \cup M2
             S123 == S12 \cup S3
             M123 == M12 \cup M3
  <2>2. Contents(S12) = Contents(M12)
    BY <2>1a, <2>1b, ContentsOfUnion
  <2> HIDE DEF S12, M12
  <2>3. Contents(S123) = Contents(M123)
    BY <2>2, <2>1c, ContentsOfUnion
  <2> HIDE DEF S123, M123
  <2>4. Contents(S123 \cup S4) = Contents(M123 \cup M4)
    BY <2>3, <2>1d, ContentsOfUnion
  <2>5. ResponsesTo(c) = S123 \cup S4
    BY <1>0 DEF S123, S12
  <2>6. Mine(c, Returned) = M123 \cup M4
    BY <1>5 DEF M123, M12, M1, M2, M3, M4
  <2> HIDE DEF Contents, Mine
  <2> QED
    BY <2>4, <2>5, <2>6, Zenon
<1>8. ASSUME NEW t, Mine(c, Returned) = {t}
      PROVE  \E x : ResponsesTo(c) = {x}
  <2>0. \A A, B : Contents(A) = Contents(B) /\ A = {} => B = {}
    BY DEF Contents
  <2>1. CASE t \in Mine(c, RepliesAtWorkers)
    <3>1. /\ Mine(c, RepliesAtWorkers) = {t} /\ Mine(c, InResponseQueue) = {}
          /\ Mine(c, AtResponseThread) = {} /\ Mine(c, AtResponseSlot) = {}
      BY <1>5, <1>6, <1>8, <2>1
    <3> QED
      BY <1>0, <1>1, <1>2, <1>3, <1>4, <2>0, <3>1 DEF SeesResponse
  <2>2. CASE t \in Mine(c, InResponseQueue)
    <3>1. /\ Mine(c, RepliesAtWorkers) = {} /\ Mine(c, InResponseQueue) = {t}
          /\ Mine(c, AtResponseThread) = {} /\ Mine(c, AtResponseSlot) = {}
      BY <1>5, <1>6, <1>8, <2>2
    <3> QED
      BY <1>0, <1>1, <1>2, <1>3, <1>4, <2>0, <3>1 DEF SeesResponse
  <2>3. CASE t \in Mine(c, AtResponseThread)
    <3>1. /\ Mine(c, RepliesAtWorkers) = {} /\ Mine(c, InResponseQueue) = {}
          /\ Mine(c, AtResponseThread) = {t} /\ Mine(c, AtResponseSlot) = {}
      BY <1>5, <1>6, <1>8, <2>3
    <3> QED
      BY <1>0, <1>1, <1>2, <1>3, <1>4, <2>0, <3>1 DEF SeesResponse
  <2>4. CASE t \in Mine(c, AtResponseSlot)
    <3>1. /\ Mine(c, RepliesAtWorkers) = {} /\ Mine(c, InResponseQueue) = {}
          /\ Mine(c, AtResponseThread) = {} /\ Mine(c, AtResponseSlot) = {t}
      BY <1>5, <1>6, <1>8, <2>4
    <3> QED
      BY <1>0, <1>1, <1>2, <1>3, <1>4, <2>0, <3>1 DEF SeesResponse
  <2> QED
    BY <1>5, <1>8, <2>1, <2>2, <2>3, <2>4
<1> QED
  BY <1>7, <1>8 DEF SeesResponse

\* A client that waits has at most one request, or one response, on its way, and one
\* if every client that waits has a copy.
LEMMA CopiesCounted ==
  ASSUME OneCopyOfEach, DistinctIds, NEW c \in Clients, Busy(c)
  PROVE  /\ Cardinality(RequestPlaces(c)) + Cardinality(ResponsesTo(c)) \in {0, 1}
         /\ ClientsServed =>
              Cardinality(RequestPlaces(c)) + Cardinality(ResponsesTo(c)) = 1
<1> DEFINE n == Cardinality(RequestPlaces(c)) + Cardinality(ResponsesTo(c))
<1>1. ASSUME NEW t \in Copies, t[2].requestid = creq[c].requestid
      PROVE  n = 1
  <2>1. \A u \in Copies : u[2].requestid = creq[c].requestid => u = t
    BY <1>1 DEF OneCopyOfEach, OneOfEach
  <2>2. CASE t \in Carried
    <3>1. Mine(c, Carried) = {t} /\ Mine(c, Returned) = {}
      BY <1>1, <2>1, <2>2, KindsApart DEF Mine, Copies
    <3>2. PICK x : RequestPlaces(c) = {x}
      BY <3>1, RequestsSeen
    <3>3. ResponsesTo(c) = {}
      <4>1. Contents(ResponsesTo(c)) = Contents({})
        BY <3>1, ResponsesSeen DEF SeesResponse
      <4> QED
        BY <4>1 DEF Contents
    <3> QED
      BY <3>2, <3>3, FS_EmptySet, FS_Singleton
  <2>3. CASE t \in Returned
    <3>1. Mine(c, Carried) = {} /\ Mine(c, Returned) = {t}
      BY <1>1, <2>1, <2>3, KindsApart DEF Mine, Copies
    <3>2. RequestPlaces(c) = {}
      BY <3>1, RequestsSeen
    <3>3. PICK x : ResponsesTo(c) = {x}
      BY <3>1, ResponsesSeen DEF SeesResponse
    <3>4. Cardinality(RequestPlaces(c)) = 0 /\ Cardinality(ResponsesTo(c)) = 1
      BY <3>2, <3>3, FS_EmptySet, FS_Singleton
    <3> QED
      BY <3>4
  <2> QED
    BY <2>2, <2>3 DEF Copies
<1>2. ASSUME \A t \in Copies : t[2].requestid # creq[c].requestid
      PROVE  n = 0
  <2>1. Mine(c, Carried) = {} /\ Mine(c, Returned) = {}
    BY <1>2 DEF Mine, Copies
  <2>2. RequestPlaces(c) = {}
    BY <2>1, RequestsSeen
  <2>3. ResponsesTo(c) = {}
    <3>1. Contents(ResponsesTo(c)) = Contents({})
      BY <2>1, ResponsesSeen DEF SeesResponse
    <3> QED
      BY <3>1 DEF Contents
  <2> QED
    BY <2>2, <2>3, FS_EmptySet
<1> HIDE DEF n
<1>3. n \in {0, 1}
  BY <1>1, <1>2
<1>4. ASSUME ClientsServed
      PROVE  n = 1
  BY <1>1, <1>4 DEF ClientsServed
<1> QED
  BY <1>3, <1>4 DEF n

\* OneCopyInFlight: no request is lost and none is duplicated, for any number of
\* clients, processes and workers, if no id is drawn while it is in flight.
THEOREM NothingLostOrDuplicated ==
  ASSUME ~CollidingIds
  PROVE  Spec => []OneCopyInFlight
<1>1. CopyInv => OneCopyInFlight
  BY CopiesCounted DEF CopyInv, OneCopyInFlight
<1> QED
  BY <1>1, CopyInvariance, PTL

-----------------------------------------------------------------------------
(* The system implements the service.                                      *)

\* The responses on their way with the id of client c, without their places.
Back(c) == {x \in Contents(Returned) : x.requestid = creq[c].requestid}

\* What the mapping to Service reads off ResponsesTo, read off the copies.
BackSeen ==
  \A c \in Clients :
    /\ ResponsesTo(c) = {} <=> Back(c) = {}
    /\ (\E r \in ResponsesTo(c) : r[2].result) <=> (\E x \in Back(c) : x.result)

\* It is the same in every state.
LEMMA BackIsSeen == BackSeen
<1> SUFFICES ASSUME NEW c \in Clients
             PROVE  /\ ResponsesTo(c) = {} <=> Back(c) = {}
                    /\ (\E r \in ResponsesTo(c) : r[2].result) <=> (\E x \in Back(c) : x.result)
  BY DEF BackSeen
<1>1. Contents(ResponsesTo(c)) = Contents(Mine(c, Returned))
  BY ResponsesSeen DEF SeesResponse
<1>2. Contents(Mine(c, Returned)) = Back(c)
  BY DEF Contents, Mine, Back
<1>3. Back(c) = {r[2] : r \in ResponsesTo(c)}
  BY <1>1, <1>2 DEF Contents
<1> QED
  BY <1>3

\* The variables of Service, as functions of the state.
PhaseOf ==
  [c \in Clients |-> IF ~Busy(c) THEN "idle"
                     ELSE IF Back(c) = {} THEN "waiting" ELSE "answered"]
CallOf ==
  [c \in Clients |-> IF Busy(c) THEN [operation |-> creq[c].operation, value |-> creq[c].value]
                     ELSE NoCall]
AnswerOf == [c \in Clients |-> Busy(c) /\ \E x \in Back(c) : x.result]

\* They are what the mapping makes of them.
LEMMA MappingSeen ==
  ASSUME BackSeen
  PROVE  /\ [c \in Clients |-> ServicePhase(c)] = PhaseOf
         /\ [c \in Clients |-> /\ ServicePhase(c) = "answered"
                               /\ \E r \in ResponsesTo(c) : r[2].result] = AnswerOf
<1>1. \A c \in Clients : ServicePhase(c) = PhaseOf[c]
  BY DEF BackSeen, ServicePhase, PhaseOf
<1>2. ASSUME NEW c \in Clients
      PROVE  (ServicePhase(c) = "answered" /\ \E r \in ResponsesTo(c) : r[2].result) = AnswerOf[c]
  <2>1. ServicePhase(c) = "answered" <=> Busy(c) /\ Back(c) # {}
    BY DEF BackSeen, ServicePhase
  <2>2. AnswerOf[c] = (Busy(c) /\ \E x \in Back(c) : x.result)
    BY DEF AnswerOf
  <2>3. (ServicePhase(c) = "answered" /\ \E r \in ResponsesTo(c) : r[2].result)
          <=> (Busy(c) /\ \E x \in Back(c) : x.result)
    BY <2>1 DEF BackSeen
  <2> QED
    BY <2>2, <2>3, Zenon
<1> QED
  BY <1>1, <1>2 DEF PhaseOf, AnswerOf

\* A step that only moves copies is no step of the service.
LEMMA KeepsIsStutter ==
  ASSUME Keeps, SameClients
  PROVE  PhaseOf' = PhaseOf /\ CallOf' = CallOf /\ AnswerOf' = AnswerOf
<1>1. \A c \in Clients : (Busy(c)' <=> Busy(c)) /\ creq'[c] = creq[c]
  BY DEF SameClients
<1>2. \A c \in Clients : Back(c)' = Back(c)
  BY DEF Keeps, SameClients, Back
<1>3. PhaseOf' = PhaseOf
  BY <1>1, <1>2 DEF PhaseOf
<1>4. CallOf' = CallOf
  BY <1>1 DEF CallOf, NoCall
<1>5. AnswerOf' = AnswerOf
  BY <1>1, <1>2 DEF AnswerOf
<1> QED
  BY <1>3, <1>4, <1>5

\* The call into the table is the moment at which the request takes effect: of the
\* client that owns the request, and of no other.
LEMMA ProcessIsEffect ==
  ASSUME Orderly, CopyInv, NEW w \in Workers, Process(w), UNCHANGED clientVars
  PROVE  \E c \in Clients :
           LET q == CallOf[c] IN
           /\ PhaseOf[c] = "waiting"
           /\ PhaseOf' = [PhaseOf EXCEPT ![c] = "answered"]
           /\ store' = After(store, q.operation, q.value)
           /\ AnswerOf' = [AnswerOf EXCEPT ![c] =
                             (q.operation = "READ") => Present(store, q.value)]
           /\ CallOf' = CallOf
<1> DEFINE a == <<<<"worker", w>>, wreq[w]>>
           r == Reply(wreq[w], store)
           b == <<<<"reply", w>>, r>>
<1>1. /\ a \in Carried /\ Carried' = Carried \ {a}
      /\ Returned' = Returned \cup {b}
      /\ b[2].requestid = a[2].requestid
      /\ wreq[w] \in Requests
      /\ SameClients
  BY ProcessAnswers
<1>2. a[2] = wreq[w] /\ b[2] = r
  OBVIOUS
<1>3. PICK c \in Clients : Busy(c) /\ wreq[w] = creq[c]
  BY <1>1, <1>2 DEF CopyInv, CopiesOwned
<1>4. \A d \in Clients : (Busy(d)' <=> Busy(d)) /\ creq'[d] = creq[d]
  BY <1>1 DEF SameClients
<1>5. Contents(Returned)' = Contents(Returned) \cup {r}
  BY <1>1, <1>2 DEF Contents
<1>6. r.requestid = creq[c].requestid
  BY <1>1, <1>2, <1>3
<1> HIDE DEF r
<1>7. Back(c) = {}
  <2>1. \A t \in Returned : t[2].requestid # creq[c].requestid
    BY <1>1, <1>2, <1>3, KindsApart DEF CopyInv, OneCopyOfEach, OneOfEach, Copies
  <2> QED
    BY <2>1 DEF Back, Contents
<1>8. Back(c)' = {r}
  BY <1>4, <1>5, <1>6, <1>7 DEF Back
<1>9. \A d \in Clients \ {c} : Busy(d) => Back(d)' = Back(d)
  BY <1>3, <1>4, <1>5, <1>6 DEF Back, CopyInv, DistinctIds
<1>10. PhaseOf[c] = "waiting" /\ PhaseOf' = [PhaseOf EXCEPT ![c] = "answered"]
  BY <1>3, <1>4, <1>7, <1>8, <1>9 DEF PhaseOf
<1>11. CallOf' = CallOf /\ CallOf[c] = [operation |-> wreq[w].operation, value |-> wreq[w].value]
  BY <1>3, <1>4 DEF CallOf, NoCall
<1>12. store' = After(store, CallOf[c].operation, CallOf[c].value)
  BY <1>11 DEF Process
<1>13. r.result = ((wreq[w].operation = "READ") => Present(store, wreq[w].value))
  BY <1>1 DEF r, Reply, Requests, Ops, Present
<1>14. AnswerOf' = [AnswerOf EXCEPT ![c] =
                      (CallOf[c].operation = "READ") => Present(store, CallOf[c].value)]
  <2>1. AnswerOf'[c] = r.result
    BY <1>3, <1>4, <1>8, <1>13 DEF AnswerOf
  <2>2. \A d \in Clients \ {c} : AnswerOf'[d] = AnswerOf[d]
    BY <1>4, <1>9 DEF AnswerOf
  <2>3. AnswerOf'[c] = ((CallOf[c].operation = "READ") => Present(store, CallOf[c].value))
    BY <2>1, <1>11, <1>13
  <2> QED
    BY <2>2, <2>3 DEF AnswerOf
<1> QED
  BY <1>10, <1>11, <1>12, <1>14

\* The creation of a request asks for it.
LEMMA CreateIsAsk ==
  ASSUME ~CollidingIds, Orderly, CopyInv, NEW c \in Clients, CreateRequest(c), UNCHANGED serverVars
  PROVE  /\ PhaseOf[c] = "idle"
         /\ PhaseOf' = [PhaseOf EXCEPT ![c] = "waiting"]
         /\ \E q \in [operation: Ops, value: Values] : CallOf' = [CallOf EXCEPT ![c] = q]
         /\ AnswerOf' = AnswerOf /\ store' = store
<1>1. /\ ~Busy(c) /\ Busy(c)'
      /\ creq'[c] \in Requests
      /\ Returned' = Returned
      /\ \A d \in Clients \ {c} : (Busy(d)' <=> Busy(d)) /\ creq'[d] = creq[d]
      /\ \A d \in Clients \ {c} : Busy(d) => creq[d].requestid # creq'[c].requestid
  BY CreateRequestAdds
<1>2. \A d \in Clients \ {c} : Back(d)' = Back(d)
  BY <1>1 DEF Back, Contents
<1>3. Back(c)' = {}
  <2>1. \A t \in Returned : t[2].requestid # creq'[c].requestid
    BY <1>1 DEF CopyInv, CopiesOwned
  <2> QED
    BY <1>1, <2>1 DEF Back, Contents
<1>4. PhaseOf[c] = "idle" /\ PhaseOf' = [PhaseOf EXCEPT ![c] = "waiting"]
  BY <1>1, <1>2, <1>3 DEF PhaseOf
<1>5. \E q \in [operation: Ops, value: Values] : CallOf' = [CallOf EXCEPT ![c] = q]
  <2> DEFINE q == [operation |-> creq'[c].operation, value |-> creq'[c].value]
  <2>1. q \in [operation: Ops, value: Values]
    BY <1>1 DEF Requests
  <2>2. CallOf' = [CallOf EXCEPT ![c] = q]
    BY <1>1 DEF CallOf, NoCall
  <2> QED
    BY <2>1, <2>2
<1>6. AnswerOf' = AnswerOf
  BY <1>1, <1>2, <1>3 DEF AnswerOf
<1> QED
  BY <1>4, <1>5, <1>6

\* The acknowledgement of a response receives it.
LEMMA ReleaseIsReceive ==
  ASSUME Orderly, OwnId, CopyInv, NEW c \in Clients, ReleaseResponse(c), UNCHANGED serverVars
  PROVE  /\ PhaseOf[c] = "answered"
         /\ PhaseOf' = [PhaseOf EXCEPT ![c] = "idle"]
         /\ CallOf' = [CallOf EXCEPT ![c] = NoCall]
         /\ AnswerOf' = [AnswerOf EXCEPT ![c] = FALSE]
         /\ store' = store
<1> DEFINE a == <<<<"response slot", 0>>, response>>
<1>1. /\ a \in Returned /\ Returned' = Returned \ {a}
      /\ response.requestid = creq[c].requestid
      /\ creq' = creq
      /\ Busy(c) /\ ~Busy(c)' /\ \A d \in Clients \ {c} : Busy(d)' <=> Busy(d)
  BY ReleaseResponseTakes
<1>2. a[2] = response
  OBVIOUS
<1> HIDE DEF a
<1>3. Back(c) # {}
  BY <1>1, <1>2 DEF Back, Contents
<1>4. ASSUME NEW d \in Clients \ {c}, Busy(d)
      PROVE  Back(d)' = Back(d)
  <2>1. creq[d].requestid # a[2].requestid
    BY <1>1, <1>2, <1>4 DEF CopyInv, DistinctIds
  <2>2. \A t : t[2].requestid = creq[d].requestid => (t \in Returned' <=> t \in Returned)
    BY <1>1, <2>1
  <2>3. \A x : x \in Back(d) <=> \E t \in Returned : x = t[2] /\ x.requestid = creq[d].requestid
    BY DEF Back, Contents
  <2>4. \A x : x \in Back(d)' <=> \E t \in Returned' : x = t[2] /\ x.requestid = creq[d].requestid
    BY <1>1 DEF Back, Contents
  <2>5. \A x : x \in Back(d)' <=> x \in Back(d)
    BY <2>2, <2>3, <2>4
  <2> QED
    BY <2>5 DEF Back
<1>5. PhaseOf[c] = "answered" /\ PhaseOf' = [PhaseOf EXCEPT ![c] = "idle"]
  BY <1>1, <1>3, <1>4 DEF PhaseOf
<1>6. CallOf' = [CallOf EXCEPT ![c] = NoCall]
  BY <1>1 DEF CallOf, NoCall
<1>7. AnswerOf' = [AnswerOf EXCEPT ![c] = FALSE]
  BY <1>1, <1>4 DEF AnswerOf
<1> QED
  BY <1>5, <1>6, <1>7

\* Every step of the system is a step of the service, or none.
LEMMA StepIsServiceStep ==
  ASSUME ~CollidingIds, Orderly, OwnId, CopyInv, BackSeen, BackSeen', Next
  PROVE  Promise!Next \/ UNCHANGED Promise!vars
<1>1. /\ [c \in Clients |-> ServicePhase(c)] = PhaseOf
      /\ [c \in Clients |-> /\ ServicePhase(c) = "answered"
                            /\ \E r \in ResponsesTo(c) : r[2].result] = AnswerOf
  BY MappingSeen
<1>2. /\ [c \in Clients |-> ServicePhase(c)]' = PhaseOf'
      /\ [c \in Clients |-> /\ ServicePhase(c) = "answered"
                            /\ \E r \in ResponsesTo(c) : r[2].result]' = AnswerOf'
  <2>1. \A c \in Clients : ServicePhase(c)' = PhaseOf'[c]
    BY DEF BackSeen, ServicePhase, PhaseOf
  <2>2. ASSUME NEW c \in Clients
        PROVE  (ServicePhase(c)' = "answered" /\ (\E r \in ResponsesTo(c) : r[2].result)')
                 = AnswerOf'[c]
    <3>1. ServicePhase(c)' = "answered" <=> Busy(c)' /\ Back(c)' # {}
      BY DEF BackSeen, ServicePhase
    <3>2. AnswerOf'[c] = (Busy(c) /\ \E x \in Back(c) : x.result)'
      BY DEF AnswerOf
    <3>3. (ServicePhase(c)' = "answered" /\ (\E r \in ResponsesTo(c) : r[2].result)')
            <=> (Busy(c) /\ \E x \in Back(c) : x.result)'
      BY <3>1 DEF BackSeen
    <3> QED
      BY <3>2, <3>3, Zenon
  <2> QED
    BY <2>1, <2>2 DEF PhaseOf, AnswerOf
<1>3. CASE Keeps /\ SameClients /\ store' = store
  <2>1. UNCHANGED <<store, PhaseOf, CallOf, AnswerOf>>
    BY <1>3, KeepsIsStutter
  <2> QED
    BY <1>1, <1>2, <2>1 DEF Promise!vars, CallOf
<1>4. ASSUME NEW w \in Workers, Process(w), UNCHANGED clientVars
      PROVE  Promise!Next
  <2>1. PICK c \in Clients :
           LET q == CallOf[c] IN
           /\ PhaseOf[c] = "waiting"
           /\ PhaseOf' = [PhaseOf EXCEPT ![c] = "answered"]
           /\ store' = After(store, q.operation, q.value)
           /\ AnswerOf' = [AnswerOf EXCEPT ![c] =
                             (q.operation = "READ") => Present(store, q.value)]
           /\ CallOf' = CallOf
    BY <1>4, ProcessIsEffect
  <2>2. Promise!TakeEffect(c)
    BY <1>1, <1>2, <2>1 DEF Promise!TakeEffect, CallOf, Promise!After, Promise!Present,
       After, Present
  <2> QED
    BY <2>2 DEF Promise!Next
<1>5. ASSUME NEW c \in Clients, CreateRequest(c), UNCHANGED serverVars
      PROVE  Promise!Next
  <2>1. /\ PhaseOf[c] = "idle"
        /\ PhaseOf' = [PhaseOf EXCEPT ![c] = "waiting"]
        /\ \E q \in [operation: Ops, value: Values] : CallOf' = [CallOf EXCEPT ![c] = q]
        /\ AnswerOf' = AnswerOf /\ store' = store
    BY <1>5, CreateIsAsk
  <2>2. Promise!Ask(c)
    BY <1>1, <1>2, <2>1 DEF Promise!Ask, Promise!Calls, Promise!Ops, Ops, CallOf
  <2> QED
    BY <2>2 DEF Promise!Next
<1>6. ASSUME NEW c \in Clients, ReleaseResponse(c), UNCHANGED serverVars
      PROVE  Promise!Next
  <2>1. /\ PhaseOf[c] = "answered"
        /\ PhaseOf' = [PhaseOf EXCEPT ![c] = "idle"]
        /\ CallOf' = [CallOf EXCEPT ![c] = NoCall]
        /\ AnswerOf' = [AnswerOf EXCEPT ![c] = FALSE]
        /\ store' = store
    BY <1>6, ReleaseIsReceive
  <2>2. Promise!Receive(c)
    BY <1>1, <1>2, <2>1 DEF Promise!Receive, Promise!NoCall, NoCall, CallOf
  <2> QED
    BY <2>2 DEF Promise!Next
<1> QED
  BY <1>3, <1>4, <1>5, <1>6, StepKinds

\* ImplementsService: the whole system is linearizable.  For any number of clients,
\* processes and workers every request takes effect once, atomically, while its
\* client waits, and the response the client accepts carries the result of that
\* effect, if no id is drawn while it is in flight.
THEOREM SystemImplementsService ==
  ASSUME ~CollidingIds
  PROVE  Spec => ImplementsService
<1>1. BackSeen
  BY BackIsSeen
<1>2. Init => Promise!Init
  <2> SUFFICES ASSUME Init
               PROVE  Promise!Init
    OBVIOUS
  <2>1. \A c \in Clients : ~Busy(c)
    BY DEF Init, ClientInit, Busy, BusyLabels
  <2>2. store = [v \in Values |-> 0]
    BY DEF Init, ServerInit
  <2> QED
    BY <2>1, <2>2 DEF Promise!Init, Promise!NoCall, NoCall, ServicePhase
<1>3. IInv /\ ReleasesOwnResponse /\ CopyInv /\ BackSeen /\ BackSeen' /\ [Next]_vars
        => [Promise!Next]_Promise!vars
  <2> SUFFICES ASSUME IInv, ReleasesOwnResponse, CopyInv, BackSeen, BackSeen', [Next]_vars
               PROVE  Promise!Next \/ UNCHANGED Promise!vars
    OBVIOUS
  <2>1. OwnId
    BY DEF ReleasesOwnResponse, OwnId
  <2>2. CASE Next
    BY <2>1, <2>2, SystemIsOrderly, StepIsServiceStep
  <2>3. CASE UNCHANGED vars
    <3>1. \A c \in Clients : ResponsesTo(c)' = ResponsesTo(c)
      BY <2>3 DEF ResponsesTo, Here, ResponseSlotFull, ClientInResponseSlot
    <3>2. \A c \in Clients : Busy(c)' = Busy(c) /\ ServicePhase(c)' = ServicePhase(c)
      BY <2>3, <3>1 DEF Busy, ServicePhase
    <3> QED
      BY <2>3, <3>1, <3>2 DEF Promise!vars
  <2> QED
    BY <2>2, <2>3
<1> QED
  BY <1>1, <1>2, <1>3, Invariance, AcknowledgesOwnResponse, CopyInvariance, PTL
     DEF Spec, ImplementsService, Promise!Spec
=============================================================================
