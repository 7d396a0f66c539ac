----------------------------- MODULE LifeProofs -----------------------------
(***************************************************************************)
(* What the runs of module Lifecycle check on small instances, proved for  *)
(* any clients, processes and workers and any number of starts and         *)
(* signals: the invariant of module LifeInv is inductive, and the types,   *)
(* the exclusion of the slots and the permits that come back follow from   *)
(* it.  The kinds of steps are taken in turn: client processes that come   *)
(* and go, threads of attached clients, threads of the server, its main.   *)
(***************************************************************************)
EXTENDS LifeInv, SystemProofs

USE DEF lifeVars, bootVars, segmentVars, orphanVars, historyVars, counterVars,
        vars, shmVars, clientVars, serverVars, threadVars, processVars,
        queueVars, enqVars, workVars, deqVars,
        Goto, EGoto, WGoto, RGoto, SemWait, SemPost

-----------------------------------------------------------------------------
(* Types.                                                                  *)

\* A process that starts, or is gone, has the memory of a process that never ran.
LEMMA BlankKeepsTypes ==
  ASSUME LifeTypeOK, NEW p \in Procs, Blank(p)
  PROVE  ClientTypeOK' /\ interrupted' \subseteq Clients /\ asleep' \subseteq Clients
<1> USE DEF LifeTypeOK
<1>1. /\ cpc' \in [Clients -> ThreadLabels]
      /\ creq' \in [Clients -> Requests \cup {ZeroRequest}]
      /\ num_requests' \in [Clients -> Nat]
  BY DEF Blank, ClientTypeOK, ThreadLabels
<1>2. \A c \in Clients : Busy(c)' => creq'[c] \in Requests
  BY DEF Blank, ClientTypeOK, Busy, BusyLabels
<1>3. /\ running' \in [Procs -> BOOLEAN]
      /\ threads_safe_exit' \in [Procs -> Nat]
      /\ mpc' \in [Procs -> MainLabels]
      /\ drained' \in [Procs -> Nat]
      /\ joinable' \in [Procs -> BOOLEAN]
  BY DEF Blank, ClientTypeOK, MainLabels
<1>4. interrupted' \subseteq Clients /\ asleep' \subseteq Clients
  BY DEF Blank, WokenInVain
<1> QED
  BY <1>1, <1>2, <1>3, <1>4 DEF ClientTypeOK

\* What a thread does in the orphan changes the orphan, and itself.
LEMMA OrphanKeepsTypes ==
  ASSUME LifeTypeOK, NEW c \in Clients, Orphan!ThreadStep(c)
  PROVE  /\ ClientTypeOK'
         /\ orequest' \in Requests \cup {ZeroRequest}
         /\ oresponse' \in Responses \cup {ZeroResponse}
         /\ osem' \in [ShmSems -> Nat]
<1> DEFINE T == /\ ClientTypeOK'
                /\ orequest' \in Requests \cup {ZeroRequest}
                /\ oresponse' \in Responses \cup {ZeroResponse}
                /\ osem' \in [ShmSems -> Nat]
<1> USE ClientAssumption DEF LifeTypeOK, ClientTypeOK, ShmSems, Busy, BusyLabels,
        ThreadLabels, Orphan!Goto, Orphan!SemWait, Orphan!SemPost, Orphan!shmVars,
        Orphan!processVars
<1>1. ASSUME Orphan!CreateRequest(c) PROVE T
  BY <1>1 DEF Orphan!CreateRequest, Requests
<1>2. ASSUME Orphan!WaitRequestSpace(c) PROVE T
  BY <1>2 DEF Orphan!WaitRequestSpace
<1>3. ASSUME Orphan!WriteRequest(c) PROVE T
  BY <1>3 DEF Orphan!WriteRequest
<1>4. ASSUME Orphan!PostRequest(c) PROVE T
  BY <1>4 DEF Orphan!PostRequest
<1>5. ASSUME Orphan!WaitResponse(c) PROVE T
  BY <1>5 DEF Orphan!WaitResponse
<1>6. ASSUME Orphan!CheckResponse(c) PROVE T
  BY <1>6 DEF Orphan!CheckResponse
<1>7. ASSUME Orphan!RepostResponse(c) PROVE T
  BY <1>7 DEF Orphan!RepostResponse
<1>8. ASSUME Orphan!ReleaseResponse(c) PROVE T
  BY <1>8 DEF Orphan!ReleaseResponse
<1>9. ASSUME Orphan!LeaveLoop(c) PROVE T
  BY <1>9 DEF Orphan!LeaveLoop
<1> HIDE DEF T
<1>10. T
  BY <1>1, <1>2, <1>3, <1>4, <1>5, <1>6, <1>7, <1>8, <1>9 DEF Orphan!ThreadStep
<1> QED
  BY <1>10 DEF T

\* The memory of a server that has died is that of one that never ran.
LEMMA DeathKeepsServerTypes ==
  ASSUME ServerDies
  PROVE  ServerTypeOK' /\ sup' = "down"
BY EmptySeq DEF ServerDies, ServerTypeOK, QueueSems, EnqLabels, EnqHolds, WorkLabels,
   WorkHolds, WorkDone, DeqLabels, DeqHolds

\* The order in which main sets up the semaphores.
LEMMA OrderOfInit ==
  /\ Len(InitOrder) = 4
  /\ InitOrder[1] = "req_available" /\ InitOrder[2] = "req_space_available"
  /\ InitOrder[3] = "res_available" /\ InitOrder[4] = "res_space_available"
BY DEF InitOrder

\* What a step leaves alone keeps its type.
LEMMA UntouchedTypes ==
  ASSUME LifeTypeOK
  PROVE  /\ UNCHANGED shmVars => ShmTypeOK'
         /\ UNCHANGED clientVars => ClientTypeOK'
         /\ UNCHANGED serverVars => ServerTypeOK'
<1>1. ASSUME UNCHANGED shmVars PROVE ShmTypeOK'
  BY <1>1 DEF LifeTypeOK, ShmTypeOK
<1>2. ASSUME UNCHANGED clientVars PROVE ClientTypeOK'
  BY <1>2 DEF LifeTypeOK, ClientTypeOK, Busy
<1>3. ASSUME UNCHANGED serverVars PROVE ServerTypeOK'
  BY <1>3 DEF LifeTypeOK, ServerTypeOK
<1> QED
  BY <1>1, <1>2, <1>3

\* The main thread of the server.
LEMMA ServerMainKeepsTypes ==
  ASSUME LifeTypeOK, Boot \/ ServerMain \/ KillServer \/ Unmap
  PROVE  LifeTypeOK'
<1> USE OrderOfInit
<1>1. ASSUME Boot PROVE LifeTypeOK'
  BY <1>1, UntouchedTypes DEF Boot, LifeTypeOK
<1>2. ASSUME Size PROVE LifeTypeOK'
  <2>1. ShmTypeOK' /\ ClientTypeOK' /\ ServerTypeOK'
    BY <1>2, UntouchedTypes DEF Size
  <2>2. {linked', sized', fresh', unrest', disturbed', broken'} \subseteq BOOLEAN
    BY <1>2 DEF Size, LifeTypeOK
  <2>3. /\ sup' = "sized" /\ inited' = 0
        /\ UNCHANGED <<where, orphanVars, interrupted, asleep>>
    BY <1>2 DEF Size
  <2> QED
    BY <2>1, <2>2, <2>3 DEF LifeTypeOK
<1>3. ASSUME InitSem PROVE LifeTypeOK'
  <2>1. ShmTypeOK' /\ ClientTypeOK' /\ ServerTypeOK'
    BY <1>3, UntouchedTypes DEF InitSem, LifeTypeOK, ShmTypeOK, ShmSems
  <2>2. /\ inited' \in 0 .. Len(InitOrder)
        /\ {unrest', disturbed', broken'} \subseteq BOOLEAN
        /\ asleep' \subseteq Clients
    BY <1>3 DEF InitSem, NoteInit, LifeTypeOK
  <2>3. UNCHANGED <<sup, linked, sized, fresh, where, orphanVars, interrupted>>
    BY <1>3 DEF InitSem
  <2> QED
    BY <2>1, <2>2, <2>3 DEF LifeTypeOK
<1>4. ASSUME StartThreads PROVE LifeTypeOK'
  BY <1>4, UntouchedTypes DEF StartThreads, LifeTypeOK
<1>5. ASSUME KillServer PROVE LifeTypeOK'
  <2>1. ShmTypeOK' /\ ClientTypeOK' /\ ServerTypeOK' /\ sup' = "down"
    BY <1>5, UntouchedTypes, DeathKeepsServerTypes DEF KillServer
  <2> QED
    BY <1>5, <2>1 DEF KillServer, LifeTypeOK
<1>6. ASSUME Unmap PROVE LifeTypeOK'
  BY <1>6, UntouchedTypes DEF Unmap, LifeTypeOK
<1>7. ASSUME Fault PROVE LifeTypeOK'
  <2>1. ShmTypeOK' /\ ClientTypeOK' /\ ServerTypeOK' /\ sup' = "down"
    BY <1>7, UntouchedTypes, DeathKeepsServerTypes DEF Fault
  <2> QED
    BY <1>7, <2>1 DEF Fault, LifeTypeOK
<1>8. ASSUME Unlink PROVE LifeTypeOK'
  <2>1. ClientTypeOK' /\ ServerTypeOK' /\ sup' = "down"
    BY <1>8, UntouchedTypes, DeathKeepsServerTypes DEF Unlink
  <2>2. ShmTypeOK'
    BY <1>8 DEF Unlink, ShmTypeOK, ZeroSems
  <2>3. where' \in [Procs -> {"none", "segment", "orphan"}]
    BY <1>8 DEF Unlink
  <2>4. /\ {linked', sized', fresh', disturbed', broken'} \subseteq BOOLEAN
        /\ inited' = 0 /\ UNCHANGED <<unrest, interrupted, asleep>>
    BY <1>8 DEF Unlink
  <2>5. /\ orequest' \in Requests \cup {ZeroRequest}
        /\ oresponse' \in Responses \cup {ZeroResponse}
        /\ osem' \in [ShmSems -> Nat]
    BY <1>8 DEF Unlink, LifeTypeOK, ShmTypeOK
  <2> QED
    BY <2>1, <2>2, <2>3, <2>4, <2>5 DEF LifeTypeOK
<1> QED
  BY <1>1, <1>2, <1>3, <1>4, <1>5, <1>6, <1>7, <1>8 DEF ServerMain

\* Client processes that start, end, act, or get a signal.
LEMMA ProcessKeepsTypes ==
  ASSUME LifeTypeOK, NEW p \in Procs,
         Launch(p) \/ MainActs(p) \/ FirstSigint(p) \/ KillClient(p) \/ BusError(p)
  PROVE  LifeTypeOK'
<1>1. ASSUME Launch(p) PROVE LifeTypeOK'
  <2>1. /\ ShmTypeOK' /\ ClientTypeOK' /\ ServerTypeOK'
        /\ interrupted' \subseteq Clients /\ asleep' \subseteq Clients
    BY <1>1, UntouchedTypes, BlankKeepsTypes DEF Launch
  <2> QED
    BY <1>1, <2>1 DEF Launch, LifeTypeOK
<1>2. ASSUME MainActs(p) \/ FirstSigint(p) PROVE LifeTypeOK'
  <2>1. ClientNext /\ UNCHANGED serverVars
    BY <1>2 DEF MainActs, FirstSigint, ClientNext
  <2>2. ShmTypeOK' /\ ClientTypeOK' /\ ServerTypeOK'
    BY <2>1, UntouchedTypes, ClientKeepsTypes DEF LifeTypeOK, TypeOK
  <2> QED
    BY <1>2, <2>2 DEF MainActs, FirstSigint, LifeTypeOK
<1>3. ASSUME KillClient(p) \/ BusError(p) PROVE LifeTypeOK'
  <2>1. Blank(p) /\ UNCHANGED <<shmVars, serverVars>>
    BY <1>3 DEF KillClient, BusError, ClientDies
  <2>2. /\ ShmTypeOK' /\ ClientTypeOK' /\ ServerTypeOK'
        /\ interrupted' \subseteq Clients /\ asleep' \subseteq Clients
    BY <2>1, UntouchedTypes, BlankKeepsTypes
  <2>3. /\ where' \in [Procs -> {"none", "segment", "orphan"}]
        /\ {unrest', broken'} \subseteq BOOLEAN
        /\ UNCHANGED <<bootVars, orphanVars, disturbed>>
    BY <1>3 DEF KillClient, BusError, ClientDies, LifeTypeOK
  <2> QED
    BY <2>2, <2>3 DEF LifeTypeOK
<1> QED
  BY <1>1, <1>2, <1>3

\* The threads of client processes.
LEMMA ThreadKeepsTypes ==
  ASSUME LifeTypeOK, NEW c \in Clients, ThreadActs(c) \/ OrphanActs(c) \/ SecondSigint(c)
  PROVE  LifeTypeOK'
<1>1. ASSUME ThreadActs(c) PROVE LifeTypeOK'
  <2>1. ClientNext /\ UNCHANGED serverVars
    BY <1>1 DEF ThreadActs, ClientNext
  <2>2. ShmTypeOK' /\ ClientTypeOK' /\ ServerTypeOK'
    BY <2>1, UntouchedTypes, ClientKeepsTypes DEF LifeTypeOK, TypeOK
  <2> QED
    BY <1>1, <2>2 DEF ThreadActs, LifeTypeOK
<1>2. ASSUME OrphanActs(c) PROVE LifeTypeOK'
  <2>1. /\ ShmTypeOK' /\ ClientTypeOK' /\ ServerTypeOK'
        /\ orequest' \in Requests \cup {ZeroRequest}
        /\ oresponse' \in Responses \cup {ZeroResponse}
        /\ osem' \in [ShmSems -> Nat]
    BY <1>2, UntouchedTypes, OrphanKeepsTypes DEF OrphanActs
  <2> QED
    BY <1>2, <2>1 DEF OrphanActs, LifeTypeOK
<1>3. ASSUME SecondSigint(c) PROVE LifeTypeOK'
  BY <1>3, UntouchedTypes DEF SecondSigint, WokenInVain, LifeTypeOK
<1> QED
  BY <1>1, <1>2, <1>3

\* The threads of the server: a queue that is popped is not empty, and what is
\* copied is a request.
LEMMA ServerActsKeepTypes ==
  ASSUME LifeTypeOK, QueuesKept, RequestFilled, ServerActs
  PROVE  LifeTypeOK'
<1>1. TypeOK /\ NoPopFromEmptyQueue
  BY TicketsFillQueues DEF LifeTypeOK, TypeOK, QueuesKept
<1>2. ShmTypeOK' /\ ClientTypeOK' /\ ServerTypeOK'
  BY <1>1, UntouchedTypes, ServerKeepsTypes DEF RequestFilled, ServerActs
<1> QED
  BY <1>2 DEF ServerActs, LifeTypeOK

-----------------------------------------------------------------------------
(* The queues of the server, and the exits of the clients.                 *)

\* A server that has died leaves no lock taken and no ticket out.
LEMMA DeathKeepsQueues ==
  ASSUME ServerDies
  PROVE  QueuesKept' /\ ~ServerHolds'
<1>1. RequestQueueLock' /\ ResponseQueueLock'
  BY DEF ServerDies, RequestQueueLock, ResponseQueueLock, QueueSems, WorkerInRequestQueue,
     EnqInRequestQueue, WorkerInResponseQueue, DeqInResponseQueue
<1>2. TicketHolders' = {} /\ ResponseUnannounced' = {}
  BY DEF ServerDies, TicketHolders, ResponseUnannounced
<1>3. Len(requestQueue') = 0 /\ Len(responseQueue') = 0
  BY DEF ServerDies
<1>4. RequestTickets' /\ ResponseTickets'
  BY <1>2, <1>3, FS_EmptySet DEF ServerDies, RequestTickets, ResponseTickets, One,
     QueueSems, RequestUnannounced, ResultTicket
<1>5. ~ServerHolds'
  BY DEF ServerDies, ServerHolds
<1> QED
  BY <1>1, <1>4, <1>5 DEF QueuesKept

\* The locks and the tickets of the queues.
LEMMA StepKeepsQueues ==
  ASSUME LifeTypeOK, QueuesKept, [LifeNext]_lifeVars
  PROVE  QueuesKept'
<1>1. ASSUME ServerActs PROVE QueuesKept'
  <2>1. TypeOK /\ NoPopFromEmptyQueue
    BY TicketsFillQueues DEF LifeTypeOK, TypeOK, QueuesKept
  <2> QED
    BY <1>1, <2>1, RequestQueueLockKept, ResponseQueueLockKept, RequestTicketsKept,
       ResponseTicketsKept DEF ServerActs, QueuesKept
<1>2. ASSUME ServerDies PROVE QueuesKept'
  BY <1>2, DeathKeepsQueues
<1>3. ASSUME UNCHANGED serverVars PROVE QueuesKept'
  <2>1. RequestQueueLock' /\ ResponseQueueLock'
    BY <1>3 DEF QueuesKept, RequestQueueLock, ResponseQueueLock, WorkerInRequestQueue,
       EnqInRequestQueue, WorkerInResponseQueue, DeqInResponseQueue
  <2>2. RequestTickets' /\ ResponseTickets'
    BY <1>3 DEF QueuesKept, RequestTickets, ResponseTickets, TicketHolders,
       RequestUnannounced, ResponseUnannounced, ResultTicket
  <2> QED
    BY <2>1, <2>2 DEF QueuesKept
<1>4. ASSUME Boot \/ Size \/ InitSem \/ StartThreads \/ Unmap PROVE UNCHANGED serverVars
  BY <1>4 DEF Boot, Size, InitSem, StartThreads, Unmap
<1>5. ASSUME KillServer \/ Fault \/ Unlink PROVE ServerDies
  BY <1>5 DEF KillServer, Fault, Unlink
<1>6. ASSUME NEW p \in Procs,
             Launch(p) \/ MainActs(p) \/ FirstSigint(p) \/ KillClient(p) \/ BusError(p)
      PROVE  UNCHANGED serverVars
  BY <1>6 DEF Launch, MainActs, FirstSigint, KillClient, BusError, ClientDies
<1>7. ASSUME NEW c \in Clients, ThreadActs(c) \/ OrphanActs(c) \/ SecondSigint(c)
      PROVE  UNCHANGED serverVars
  BY <1>7 DEF ThreadActs, OrphanActs, SecondSigint
<1>8. ASSUME UNCHANGED lifeVars PROVE UNCHANGED serverVars
  BY <1>8
<1> QED
  BY <1>1, <1>2, <1>3, <1>4, <1>5, <1>6, <1>7, <1>8 DEF LifeNext, ServerMain

\* A process that starts, or is gone, owes no post.
LEMMA BlankKeepsExits ==
  ASSUME LifeTypeOK, ExitTickets, NEW p \in Procs, Blank(p)
  PROVE  ExitTickets'
<1>1. Exited(p)' = {} /\ \A o \in Procs \ {p} : Exited(o)' = Exited(o)
  BY DEF Blank, Exited
<1>2. Cardinality(Exited(p)') = 0
  BY <1>1, FS_EmptySet
<1>3. threads_safe_exit'[p] + drained'[p] = 0 /\ mpc'[p] = "spawning"
  BY DEF Blank, LifeTypeOK, ClientTypeOK
<1>4. \A o \in Procs \ {p} :
        /\ threads_safe_exit'[o] = threads_safe_exit[o] /\ drained'[o] = drained[o]
        /\ mpc'[o] = mpc[o]
  BY DEF Blank, LifeTypeOK, ClientTypeOK
<1> QED
  BY <1>1, <1>2, <1>3, <1>4 DEF ExitTickets

\* A thread that leaves its loop in the orphan posts as it does in the segment.
LEMMA OrphanKeepsExits ==
  ASSUME LifeTypeOK, ExitTickets, NEW c \in Clients, Orphan!ThreadStep(c)
  PROVE  ExitTickets'
<1> USE ClientAssumption DEF LifeTypeOK, ClientTypeOK, Orphan!Goto, Orphan!SemWait,
        Orphan!SemPost, Orphan!processVars
<1>1. ASSUME Orphan!LeaveLoop(c)
      PROVE  ExitTickets'
  <2> DEFINE p == Home[c]
  <2>1. /\ Exited(p)' = Exited(p) \cup {c} /\ c \notin Exited(p)
        /\ \A o \in Procs \ {p} : Exited(o)' = Exited(o)
    BY <1>1 DEF Orphan!LeaveLoop, Exited, ThreadLabels
  <2>2. IsFiniteSet(Exited(p)) /\ Cardinality(Exited(p)) \in Nat
    BY FS_Subset, FS_CardinalityType DEF Exited
  <2>3. Cardinality(Exited(p)') = Cardinality(Exited(p)) + 1
    BY <2>1, <2>2, FS_AddElement
  <2>4. p \in Procs /\ c \in Threads(p)
    BY DEF Threads
  <2>5. mpc[p] \notin {"joined", "finished", "aborted"}
    BY <2>1, <2>4 DEF ExitTickets
  <2>6. /\ threads_safe_exit'[p] + drained'[p] = Cardinality(Exited(p)')
        /\ \A o \in Procs \ {p} : threads_safe_exit'[o] = threads_safe_exit[o]
        /\ drained' = drained /\ mpc' = mpc
    BY <1>1, <2>2, <2>3, <2>4 DEF Orphan!LeaveLoop, ExitTickets
  <2> HIDE DEF p
  <2> QED
    BY <2>1, <2>5, <2>6 DEF ExitTickets
<1>2. ASSUME ~Orphan!LeaveLoop(c)
      PROVE  ExitTickets'
  <2>1. /\ \A o \in Procs : Exited(o)' = Exited(o)
        /\ UNCHANGED <<threads_safe_exit, drained, mpc>>
    BY <1>2 DEF Orphan!ThreadStep, Orphan!CreateRequest, Orphan!WaitRequestSpace,
       Orphan!WriteRequest, Orphan!PostRequest, Orphan!WaitResponse, Orphan!CheckResponse,
       Orphan!RepostResponse, Orphan!ReleaseResponse, Exited, ThreadLabels
  <2> QED
    BY <2>1 DEF ExitTickets
<1> QED
  BY <1>1, <1>2

\* The posts of threads_safe_exit, of all processes wherever they are.
LEMMA StepKeepsExits ==
  ASSUME LifeTypeOK, ExitTickets, [LifeNext]_lifeVars
  PROVE  ExitTickets'
<1>1. ASSUME ClientNext, UNCHANGED serverVars PROVE ExitTickets'
  BY <1>1, ExitTicketsKept DEF LifeTypeOK, TypeOK
<1>2. ASSUME UNCHANGED clientVars PROVE ExitTickets'
  BY <1>2 DEF ExitTickets, Exited
<1>3. ASSUME Boot \/ ServerMain \/ KillServer \/ Unmap \/ ServerActs
      PROVE  UNCHANGED clientVars
  BY <1>3 DEF Boot, ServerMain, Size, InitSem, StartThreads, Fault, Unlink, KillServer,
     Unmap, ServerActs
<1>4. ASSUME NEW p \in Procs, Launch(p) \/ KillClient(p) \/ BusError(p)
      PROVE  ExitTickets'
  BY <1>4, BlankKeepsExits DEF Launch, KillClient, BusError, ClientDies
<1>5. ASSUME NEW p \in Procs, MainActs(p) \/ FirstSigint(p)
      PROVE  ClientNext /\ UNCHANGED serverVars
  BY <1>5 DEF MainActs, FirstSigint, ClientNext
<1>6. ASSUME NEW c \in Clients, ThreadActs(c)
      PROVE  ClientNext /\ UNCHANGED serverVars
  BY <1>6 DEF ThreadActs, ClientNext
<1>7. ASSUME NEW c \in Clients, OrphanActs(c)
      PROVE  ExitTickets'
  BY <1>7, OrphanKeepsExits DEF OrphanActs
<1>8. ASSUME NEW c \in Clients, SecondSigint(c)
      PROVE  UNCHANGED clientVars
  BY <1>8 DEF SecondSigint
<1>9. ASSUME UNCHANGED lifeVars PROVE UNCHANGED clientVars
  BY <1>9
<1> QED
  BY <1>1, <1>2, <1>3, <1>4, <1>5, <1>6, <1>7, <1>8, <1>9 DEF LifeNext

-----------------------------------------------------------------------------
(* The permits of the slots, when client processes come and go.            *)

\* The step brings no thread into the segment, and moves none that is inside a request.
Shrinks ==
  \A c \in Clients : At(c, BusyLabels)' =>
    At(c, BusyLabels) /\ cpc'[c] = cpc[c] /\ creq'[c] = creq[c]

\* It takes no thread away that has a permit or a request on its way.
Stays == \A c \in Clients : At(c, BusyLabels \ {"wait_space"}) => At(c, BusyLabels)'

\* If it does, it has been noted.
Noted == broken' /\ (unrest' <=> unrest \/ ~fresh)

\* What it leaves alone, and that nobody attaches to a segment that has no name.
Elsewhere ==
  /\ UNCHANGED <<shmVars, epc, rpc, sup, inited, segmentVars, disturbed>>
  /\ ~linked => broken' = broken /\ \A p \in Procs : Attached(p)' => Attached(p)

\* The segment survives such a step.
LEMMA ComingAndGoing ==
  ASSUME LifeTypeOK, RequestFilled, SegmentKept, Shrinks, Elsewhere,
         Noted \/ (Stays /\ UNCHANGED <<broken, unrest>>)
  PROVE  RequestFilled' /\ SegmentKept'
<1> USE DEF SegmentKept, Elsewhere
<1>1. /\ \A c \in Clients : InRequestSlot(c)' => InRequestSlot(c)
      /\ \A c \in Clients : InResponseSlot(c)' => InResponseSlot(c)
      /\ \A c \in Clients : At(c, {"post"})' => At(c, {"post"})
      /\ \A c \in Clients : At(c, {"release"})' => At(c, {"release"})
  BY DEF Shrinks, InRequestSlot, InResponseSlot, At, BusyLabels
<1>2. /\ RequestFree' = RequestFree /\ ResponseFree' = ResponseFree
      /\ ServerInRequestSlot' <=> ServerInRequestSlot
      /\ ServerInResponseSlot' <=> ServerInResponseSlot
  BY DEF RequestFree, ResponseFree, ServerInRequestSlot, ServerInResponseSlot
<1>3. (RequestOnce => RequestOnce') /\ (ResponseOnce => ResponseOnce')
  BY <1>1, <1>2 DEF RequestOnce, ResponseOnce
<1>4. ASSUME Stays
      PROVE  /\ \A c \in Clients : InRequestSlot(c) => InRequestSlot(c)'
             /\ \A c \in Clients : InResponseSlot(c) => InResponseSlot(c)'
             /\ \A c \in Clients : At(c, {"wait_response", "check", "repost"}) =>
                  At(c, {"wait_response", "check", "repost"})'
  <2> SUFFICES ASSUME NEW c \in Clients
               PROVE  /\ InRequestSlot(c) => InRequestSlot(c)'
                      /\ InResponseSlot(c) => InResponseSlot(c)'
                      /\ At(c, {"wait_response", "check", "repost"}) =>
                           At(c, {"wait_response", "check", "repost"})'
    OBVIOUS
  <2>1. At(c, BusyLabels \ {"wait_space"}) => Attached(Home[c])' /\ cpc'[c] = cpc[c]
    BY <1>4 DEF Shrinks, Stays, At
  <2> QED
    BY <2>1 DEF InRequestSlot, InResponseSlot, At, BusyLabels
<1>5. Stays => /\ (RequestSomewhere => RequestSomewhere')
              /\ (ResponseSomewhere => ResponseSomewhere')
  BY <1>2, <1>4 DEF RequestSomewhere, ResponseSomewhere
<1>6. NobodyPast => NobodyPast'
  BY DEF Shrinks, NobodyPast, At
<1>7. PermitsOnce'
  BY <1>3 DEF PermitsOnce
<1>8. PermitsThere'
  BY <1>5 DEF PermitsThere, Noted
<1>9. Nameless'
  BY DEF Nameless
<1>10. Sizeless'
  BY <1>6 DEF Sizeless
<1>11. NewSegment'
  <2>1. (fresh /\ ~unrest => ~unrest') /\ (~broken' => ~broken /\ Stays)
    BY DEF Noted
  <2>2. fresh /\ sup = "opened" => ~sized
    BY DEF NewSegment
  <2>3. SUFFICES ASSUME fresh, sup = "sized"
                 PROVE  /\ ~unrest' /\ ~disturbed'
                        /\ inited' <= 1 => RequestFree' = 0 /\ NobodyPast'
                        /\ inited' >= 2 /\ ~broken' => RequestSomewhere'
                        /\ inited' <= 3 => /\ ResponseFree' = 0
                                           /\ \A c \in Clients : ~InResponseSlot(c)'
    BY <2>2 DEF NewSegment
  <2>4. /\ ~unrest /\ ~disturbed
        /\ inited <= 1 => RequestFree = 0 /\ NobodyPast
        /\ inited >= 2 /\ ~broken => RequestSomewhere
        /\ inited <= 3 => ResponseFree = 0 /\ \A c \in Clients : ~InResponseSlot(c)
    BY <2>3 DEF NewSegment
  <2> QED
    BY <1>1, <1>2, <1>5, <1>6, <2>1, <2>3, <2>4
<1>12. Restoring' => Restoring /\ Stays
  BY DEF Restoring, Noted
<1>13. NoneGetsThrough'
  <2> SUFFICES ASSUME Restoring', inited' >= 1, NEW c \in Clients
               PROVE  /\ ~At(c, {"release"})'
                      /\ ResponseWaits' /\ At(c, BusyLabels)' =>
                           creq'[c].requestid # response'.requestid
    BY DEF NoneGetsThrough
  <2>1. ResponseWaits' => ResponseWaits
    BY <1>1 DEF ResponseWaits
  <2>2. At(c, BusyLabels)' => At(c, BusyLabels) /\ creq'[c] = creq[c]
    BY DEF Shrinks
  <2> QED
    BY <1>1, <1>12, <2>1, <2>2 DEF NoneGetsThrough
<1>14. RequestHasClient'
  BY <1>4, <1>12 DEF RequestHasClient
<1>15. Restored'
  BY <1>1, <1>3, <1>5, <1>12 DEF Restored
<1>16. RequestFilled'
  BY <1>1 DEF RequestFilled
<1> QED
  BY <1>7, <1>8, <1>9, <1>10, <1>11, <1>13, <1>14, <1>15, <1>16

\* Launch: the process had nothing in the segment.
LEMMA LaunchComes ==
  ASSUME LifeTypeOK, NEW p \in Procs, Launch(p)
  PROVE  Shrinks /\ Elsewhere /\ Stays /\ UNCHANGED <<broken, unrest>>
<1> USE ClientAssumption DEF LifeTypeOK, ClientTypeOK
<1>1. ~Attached(p) /\ linked
  BY DEF Launch, Attached
<1>2. \A q \in Procs \ {p} : Attached(q)' <=> Attached(q)
  BY DEF Launch, Blank, Attached, Gone
<1>3. \A c \in Clients : Home[c] # p => cpc'[c] = cpc[c] /\ creq'[c] = creq[c]
  BY DEF Launch, Blank
<1>4. \A c \in Clients : Home[c] = p => cpc'[c] = "unborn"
  BY DEF Launch, Blank
<1>5. Shrinks
  BY <1>2, <1>3, <1>4 DEF Shrinks, At, BusyLabels
<1>6. Stays
  BY <1>1, <1>2, <1>3 DEF Stays, At, BusyLabels
<1>7. Elsewhere /\ UNCHANGED <<broken, unrest>>
  BY <1>1 DEF Launch, Elsewhere
<1> QED
  BY <1>5, <1>6, <1>7

\* The main thread of a client: a process that ends leaves no thread in a slot.
LEMMA MainGoes ==
  ASSUME LifeTypeOK, ExitTickets', NEW p \in Procs, MainActs(p) \/ FirstSigint(p)
  PROVE  Shrinks /\ Elsewhere /\ Stays /\ UNCHANGED <<broken, unrest>>
<1> USE ClientAssumption DEF LifeTypeOK, ClientTypeOK
<1>1. \A q \in Procs : Attached(q)' => Attached(q)
  <2>1. \A q \in Procs : Gone(q) => Gone(q)'
    BY DEF MainActs, FirstSigint, MainStep, SpawnThread, JoinThreads, ReturnFromMain,
       DrainOneExit, ExitFromHandler, Sigint, Gone, Threads
  <2>2. where' = where
    BY DEF MainActs, FirstSigint
  <2> QED
    BY <2>1, <2>2 DEF Attached
<1>2. \A c \in Clients : Busy(c) \/ Busy(c)' => cpc'[c] = cpc[c]
  BY DEF MainActs, FirstSigint, MainStep, SpawnThread, JoinThreads, ReturnFromMain,
     DrainOneExit, ExitFromHandler, Sigint, Threads, Busy, BusyLabels
<1>3. creq' = creq
  BY DEF MainActs, FirstSigint, MainStep, SpawnThread, JoinThreads, ReturnFromMain,
     DrainOneExit, ExitFromHandler, Sigint, Threads
<1>4. Shrinks
  BY <1>1, <1>2, <1>3 DEF Shrinks, At, Busy, BusyLabels
<1>5. Stays
  <2> SUFFICES ASSUME NEW c \in Clients, At(c, BusyLabels \ {"wait_space"})
               PROVE  At(c, BusyLabels)'
    BY DEF Stays
  <2>1. Attached(Home[c]) /\ cpc[c] \in BusyLabels /\ cpc'[c] = cpc[c]
    BY <1>2 DEF At, Busy
  <2>2. ~Gone(Home[c])'
    <3>1. Home[c] \in Procs /\ c \in Threads(Home[c]) /\ cpc'[c] # "exited"
      BY <2>1 DEF BusyLabels, Threads
    <3>2. c \notin Exited(Home[c])'
      BY <3>1 DEF Exited
    <3>3. Gone(Home[c])' => Exited(Home[c])' = Threads(Home[c])
      BY <3>1 DEF ExitTickets, Gone, Threads
    <3> QED
      BY <3>1, <3>2, <3>3
  <2>3. where' = where
    BY DEF MainActs, FirstSigint
  <2> QED
    BY <2>1, <2>2, <2>3 DEF At, Attached
<1>6. Elsewhere /\ UNCHANGED <<broken, unrest>>
  BY <1>1 DEF MainActs, FirstSigint, MainStep, SpawnThread, JoinThreads, ReturnFromMain,
     DrainOneExit, ExitFromHandler, Sigint, Threads, Elsewhere
<1> QED
  BY <1>4, <1>5, <1>6

\* A process that dies: what it takes along is noted, unless it takes nothing.
LEMMA DeathGoes ==
  ASSUME LifeTypeOK, SegmentKept, NEW p \in Procs, KillClient(p) \/ BusError(p)
  PROVE  Shrinks /\ Elsewhere /\ (Noted \/ (Stays /\ UNCHANGED <<broken, unrest>>))
<1> USE ClientAssumption DEF LifeTypeOK, ClientTypeOK
<1>1. ClientDies(p)
  BY DEF KillClient, BusError
<1>2. /\ ~Attached(p)'
      /\ \A q \in Procs \ {p} : Attached(q)' <=> Attached(q)
  BY <1>1 DEF ClientDies, Blank, Attached, Gone
<1>3. \A c \in Clients : Home[c] # p => cpc'[c] = cpc[c] /\ creq'[c] = creq[c]
  BY <1>1 DEF ClientDies, Blank
<1>4. Shrinks
  BY <1>2, <1>3 DEF Shrinks, At, BusyLabels
<1>5. (\A c \in Threads(p) : ~At(c, BusyLabels \ {"wait_space"})) => Stays
  BY <1>2, <1>3 DEF Stays, At, BusyLabels, Threads
<1>6. ASSUME BusError(p)
      PROVE  Elsewhere /\ Stays /\ UNCHANGED <<broken, unrest>>
  <2>1. Stays
    BY <1>5, <1>6 DEF BusError, SegmentKept, Sizeless, NobodyPast, Threads
  <2> QED
    BY <1>2, <1>6, <2>1 DEF BusError, ClientDies, Elsewhere
<1>7. ASSUME KillClient(p)
      PROVE  Elsewhere /\ (Noted \/ (Stays /\ UNCHANGED <<broken, unrest>>))
  <2> DEFINE loses == /\ where[p] = "segment"
                      /\ \E c \in Threads(p) : Busy(c) /\ cpc[c] # "wait_space"
  <2>1. /\ broken' = (broken \/ loses)
        /\ unrest' = (unrest \/ (loses /\ ~fresh))
    BY <1>7 DEF KillClient
  <2>2. UNCHANGED <<shmVars, epc, rpc, sup, inited, segmentVars, disturbed>>
    BY <1>1 DEF ClientDies
  <2>3. CASE loses
    <3>1. Noted
      BY <2>1, <2>3 DEF Noted
    <3>2. linked
      BY <1>7, <2>3 DEF KillClient, SegmentKept, Nameless, Attached
    <3> QED
      BY <2>2, <3>1, <3>2 DEF Elsewhere
  <2>4. CASE ~loses
    <3>1. UNCHANGED <<broken, unrest>>
      BY <2>1, <2>4
    <3>2. \A c \in Threads(p) : ~At(c, BusyLabels \ {"wait_space"})
      BY <2>4 DEF At, Attached, Busy, Threads
    <3>3. Stays
      BY <1>5, <3>2
    <3> QED
      BY <1>2, <2>2, <3>1, <3>3 DEF Elsewhere
  <2> QED
    BY <2>3, <2>4
<1> QED
  BY <1>4, <1>6, <1>7

\* What happens in the orphan, or to a thread that gets a second SIGINT, is not seen in
\* the segment.
LEMMA OrphanElsewhere ==
  ASSUME LifeTypeOK, NEW c \in Clients, OrphanActs(c) \/ SecondSigint(c)
  PROVE  Shrinks /\ Elsewhere /\ Stays /\ UNCHANGED <<broken, unrest>>
<1> USE ClientAssumption DEF LifeTypeOK, ClientTypeOK
<1>1. ASSUME OrphanActs(c)
      PROVE  /\ UNCHANGED <<mpc, where>> /\ ~Attached(Home[c])
             /\ \A d \in Clients \ {c} : cpc'[d] = cpc[d] /\ creq'[d] = creq[d]
  BY <1>1 DEF OrphanActs, Attached, Orphan!ThreadStep, Orphan!CreateRequest,
     Orphan!WaitRequestSpace, Orphan!WriteRequest, Orphan!PostRequest,
     Orphan!WaitResponse, Orphan!CheckResponse, Orphan!RepostResponse,
     Orphan!ReleaseResponse, Orphan!LeaveLoop, Orphan!Goto, Orphan!processVars
<1>2. ASSUME SecondSigint(c)
      PROVE  UNCHANGED <<mpc, where, cpc, creq>>
  BY <1>2 DEF SecondSigint
<1>3. \A q \in Procs : Attached(q)' <=> Attached(q)
  BY <1>1, <1>2 DEF Attached, Gone
<1>4. Shrinks /\ Stays
  BY <1>1, <1>2, <1>3 DEF Shrinks, Stays, At, BusyLabels
<1>5. Elsewhere /\ UNCHANGED <<broken, unrest>>
  BY <1>3 DEF OrphanActs, SecondSigint, Elsewhere
<1> QED
  BY <1>4, <1>5
-----------------------------------------------------------------------------
(* The permits of the slots, when a thread of an attached client steps.    *)

\* A permit moves between a semaphore of the slot and whoever is inside it; the others
\* see nothing of that.
Moves(free, freed, inside, insideNext) ==
  \/ freed = free /\ (insideNext <=> inside)
  \/ free >= 1 /\ freed = free - 1 /\ ~inside /\ insideNext
  \/ freed = free + 1 /\ inside /\ ~insideNext

\* What a step of a thread leaves alone.
LEMMA ThreadFrame ==
  ASSUME LifeTypeOK, NEW c \in Clients, ThreadActs(c)
  PROVE  /\ ThreadStep(c) /\ Attached(Home[c])
         /\ \A d \in Clients : Attached(Home[d])' <=> Attached(Home[d])
         /\ \A d \in Clients \ {c} : cpc'[d] = cpc[d] /\ creq'[d] = creq[d]
         /\ UNCHANGED <<response, serverVars, bootVars, unrest, disturbed, broken>>
<1> USE ClientAssumption DEF LifeTypeOK, ClientTypeOK
<1>1. /\ ThreadStep(c) /\ Attached(Home[c])
      /\ UNCHANGED <<where, serverVars, bootVars, unrest, disturbed, broken>>
  BY DEF ThreadActs
<1>2. /\ UNCHANGED <<mpc, response>>
      /\ \A d \in Clients \ {c} : cpc'[d] = cpc[d] /\ creq'[d] = creq[d]
  BY <1>1 DEF ThreadStep, CreateRequest, WaitRequestSpace, WriteRequest, PostRequest,
     WaitResponse, CheckResponse, RepostResponse, ReleaseResponse, LeaveLoop
<1>3. \A d \in Clients : Attached(Home[d])' <=> Attached(Home[d])
  BY <1>1, <1>2 DEF Attached, Gone
<1> QED
  BY <1>1, <1>2, <1>3

\* The permit of the request slot.
LEMMA ThreadMovesRequest ==
  ASSUME LifeTypeOK, NEW c \in Clients, ThreadActs(c)
  PROVE  Moves(RequestFree, RequestFree', InRequestSlot(c), InRequestSlot(c)')
<1>1. /\ ThreadStep(c) /\ sem \in [ShmSems -> Nat] /\ cpc \in [Clients -> ThreadLabels]
      /\ InRequestSlot(c) <=> cpc[c] \in {"write", "post"}
      /\ InRequestSlot(c)' <=> cpc'[c] \in {"write", "post"}
  BY ThreadFrame DEF LifeTypeOK, ShmTypeOK, ClientTypeOK, At, InRequestSlot
<1> DEFINE M == Moves(RequestFree, RequestFree', InRequestSlot(c), InRequestSlot(c)')
<1> USE <1>1 DEF RequestFree, Moves, ShmSems
<1>2. ASSUME CreateRequest(c) \/ CheckResponse(c) \/ LeaveLoop(c) PROVE M
  BY <1>2 DEF CreateRequest, CheckResponse, LeaveLoop
<1>3. ASSUME WaitRequestSpace(c) PROVE M
  BY <1>3 DEF WaitRequestSpace
<1>4. ASSUME WriteRequest(c) PROVE M
  BY <1>4 DEF WriteRequest
<1>5. ASSUME PostRequest(c) PROVE M
  BY <1>5 DEF PostRequest
<1>6. ASSUME WaitResponse(c) PROVE M
  BY <1>6 DEF WaitResponse
<1>7. ASSUME RepostResponse(c) PROVE M
  BY <1>7 DEF RepostResponse
<1>8. ASSUME ReleaseResponse(c) PROVE M
  BY <1>8 DEF ReleaseResponse
<1> HIDE DEF M
<1>9. M
  BY <1>2, <1>3, <1>4, <1>5, <1>6, <1>7, <1>8 DEF ThreadStep
<1> QED
  BY <1>9 DEF M

\* That of the response slot.
LEMMA ThreadMovesResponse ==
  ASSUME LifeTypeOK, NEW c \in Clients, ThreadActs(c)
  PROVE  Moves(ResponseFree, ResponseFree', InResponseSlot(c), InResponseSlot(c)')
<1>1. /\ ThreadStep(c) /\ sem \in [ShmSems -> Nat] /\ cpc \in [Clients -> ThreadLabels]
      /\ InResponseSlot(c) <=> cpc[c] \in {"check", "repost", "release"}
      /\ InResponseSlot(c)' <=> cpc'[c] \in {"check", "repost", "release"}
  BY ThreadFrame DEF LifeTypeOK, ShmTypeOK, ClientTypeOK, At, InResponseSlot
<1> DEFINE M == Moves(ResponseFree, ResponseFree', InResponseSlot(c), InResponseSlot(c)')
<1> USE <1>1 DEF ResponseFree, Moves, ShmSems
<1>2. ASSUME CreateRequest(c) \/ WriteRequest(c) \/ LeaveLoop(c) PROVE M
  BY <1>2 DEF CreateRequest, WriteRequest, LeaveLoop
<1>3. ASSUME WaitRequestSpace(c) PROVE M
  BY <1>3 DEF WaitRequestSpace
<1>4. ASSUME CheckResponse(c) PROVE M
  BY <1>4 DEF CheckResponse
<1>5. ASSUME PostRequest(c) PROVE M
  BY <1>5 DEF PostRequest
<1>6. ASSUME WaitResponse(c) PROVE M
  BY <1>6 DEF WaitResponse
<1>7. ASSUME RepostResponse(c) PROVE M
  BY <1>7 DEF RepostResponse
<1>8. ASSUME ReleaseResponse(c) PROVE M
  BY <1>8 DEF ReleaseResponse
<1> HIDE DEF M
<1>9. M
  BY <1>2, <1>3, <1>4, <1>5, <1>6, <1>7, <1>8 DEF ThreadStep
<1> QED
  BY <1>9 DEF M

\* So neither permit is doubled, or lost.
LEMMA ThreadKeepsPermits ==
  ASSUME LifeTypeOK, NEW c \in Clients, ThreadActs(c)
  PROVE  /\ RequestOnce => RequestOnce'
         /\ RequestSomewhere => RequestSomewhere'
         /\ ResponseOnce => ResponseOnce'
         /\ ResponseSomewhere => ResponseSomewhere'
<1>1. /\ \A d \in Clients \ {c} : InRequestSlot(d)' <=> InRequestSlot(d)
      /\ \A d \in Clients \ {c} : InResponseSlot(d)' <=> InResponseSlot(d)
      /\ ServerInRequestSlot' <=> ServerInRequestSlot
      /\ ServerInResponseSlot' <=> ServerInResponseSlot
  BY ThreadFrame DEF InRequestSlot, InResponseSlot, At, ServerInRequestSlot,
     ServerInResponseSlot
<1>2. RequestFree \in Nat /\ ResponseFree \in Nat
  BY DEF LifeTypeOK, ShmTypeOK, ShmSems, RequestFree, ResponseFree
<1>3. (RequestOnce => RequestOnce') /\ (RequestSomewhere => RequestSomewhere')
  <2>1. CASE RequestFree' = RequestFree /\ (InRequestSlot(c)' <=> InRequestSlot(c))
    BY <1>1, <2>1 DEF RequestOnce, RequestSomewhere
  <2>2. CASE RequestFree >= 1 /\ RequestFree' = RequestFree - 1 /\ InRequestSlot(c)'
    BY <1>1, <1>2, <2>2 DEF RequestOnce, RequestSomewhere
  <2>3. CASE RequestFree' = RequestFree + 1 /\ InRequestSlot(c) /\ ~InRequestSlot(c)'
    BY <1>1, <1>2, <2>3 DEF RequestOnce, RequestSomewhere
  <2> QED
    BY <2>1, <2>2, <2>3, ThreadMovesRequest DEF Moves
<1>4. (ResponseOnce => ResponseOnce') /\ (ResponseSomewhere => ResponseSomewhere')
  <2>1. CASE ResponseFree' = ResponseFree /\ (InResponseSlot(c)' <=> InResponseSlot(c))
    BY <1>1, <2>1 DEF ResponseOnce, ResponseSomewhere
  <2>2. CASE ResponseFree >= 1 /\ ResponseFree' = ResponseFree - 1 /\ InResponseSlot(c)'
    BY <1>1, <1>2, <2>2 DEF ResponseOnce, ResponseSomewhere
  <2>3. CASE ResponseFree' = ResponseFree + 1 /\ InResponseSlot(c) /\ ~InResponseSlot(c)'
    BY <1>1, <1>2, <2>3 DEF ResponseOnce, ResponseSomewhere
  <2> QED
    BY <2>1, <2>2, <2>3, ThreadMovesResponse DEF Moves
<1> QED
  BY <1>3, <1>4

\* A thread that is not past its first wait does not get past it without a permit.
LEMMA StuckWithoutPermit ==
  ASSUME LifeTypeOK, RequestFree = 0, NobodyPast, NEW c \in Clients, ThreadActs(c)
  PROVE  NobodyPast' /\ RequestFree' = 0
<1> USE ClientAssumption, ThreadFrame
<1>1. cpc[c] \in {"wait_space", "unborn", "create", "exited"}
  BY DEF NobodyPast, At, LifeTypeOK, ClientTypeOK, ThreadLabels
<1>2. sem["req_space_available"] = 0
  BY DEF RequestFree, LifeTypeOK, ShmTypeOK, ShmSems
<1>3. CreateRequest(c) \/ LeaveLoop(c)
  BY <1>1, <1>2 DEF ThreadStep, WaitRequestSpace, WriteRequest, PostRequest, WaitResponse,
     CheckResponse, RepostResponse, ReleaseResponse
<1>4. sem' = sem /\ cpc'[c] \in {"wait_space", "exited"}
  BY <1>3 DEF CreateRequest, LeaveLoop, LifeTypeOK, ClientTypeOK
<1>5. \A d \in Clients : cpc'[d] # cpc[d] => cpc'[d] \notin BusyLabels \ {"wait_space"}
  BY <1>4 DEF BusyLabels
<1>6. NobodyPast'
  BY <1>5 DEF NobodyPast, At
<1> QED
  BY <1>4, <1>6 DEF RequestFree

\* What is in the request slot is a request.
LEMMA ThreadKeepsFilled ==
  ASSUME LifeTypeOK, RequestFilled, NEW c \in Clients, ThreadActs(c)
  PROVE  RequestFilled'
<1> USE ClientAssumption, ThreadFrame DEF LifeTypeOK, ClientTypeOK, ShmTypeOK, ShmSems
<1>1. \A d \in Clients \ {c} : At(d, {"post"})' => At(d, {"post"})
  BY DEF At
<1>2. ASSUME WriteRequest(c) PROVE RequestFilled'
  <2>1. request' \in Requests
    BY <1>2 DEF WriteRequest, Busy, BusyLabels
  <2> QED
    BY <2>1 DEF RequestFilled
<1>3. ASSUME PostRequest(c) PROVE RequestFilled'
  <2>1. At(c, {"post"}) /\ request' = request
    BY <1>3 DEF PostRequest, At
  <2>2. request' \in Requests
    BY <2>1 DEF RequestFilled
  <2> QED
    BY <2>2 DEF RequestFilled
<1>4. ASSUME ~WriteRequest(c), ~PostRequest(c) PROVE RequestFilled'
  <2>1. request' = request /\ cpc'[c] # "post"
    BY <1>4 DEF ThreadStep, CreateRequest, WaitRequestSpace, WaitResponse, CheckResponse,
       RepostResponse, ReleaseResponse, LeaveLoop
  <2>2. sem'["req_available"] = sem["req_available"]
    BY <1>4 DEF ThreadStep, CreateRequest, WaitRequestSpace, WaitResponse, CheckResponse,
       RepostResponse, ReleaseResponse, LeaveLoop
  <2>3. At(c, {"post"})' => FALSE
    BY <2>1 DEF At
  <2> QED
    BY <1>1, <2>1, <2>2, <2>3 DEF RequestFilled
<1> QED
  BY <1>2, <1>3, <1>4

\* While an old segment is being set up, what is in its response slot is for nobody who
\* is inside a request: nobody takes it.
LEMMA ThreadDoesNotGetThrough ==
  ASSUME LifeTypeOK, Restoring, inited >= 1, NoneGetsThrough, NEW c \in Clients,
         ThreadActs(c)
  PROVE  /\ NoneGetsThrough'
         /\ ~ReleaseResponse(c)
         /\ CheckResponse(c) => cpc'[c] = "repost"
<1> USE ClientAssumption, ThreadFrame DEF LifeTypeOK, ClientTypeOK, ShmTypeOK, ShmSems
<1>1. \A d \in Clients :
        /\ ~At(d, {"release"})
        /\ ResponseWaits /\ At(d, BusyLabels) => creq[d].requestid # response.requestid
  BY DEF NoneGetsThrough
<1>2. ~ReleaseResponse(c)
  BY <1>1 DEF ReleaseResponse, At
<1>3. CheckResponse(c) => cpc'[c] = "repost"
  <2> SUFFICES ASSUME CheckResponse(c) PROVE cpc'[c] = "repost"
    OBVIOUS
  <2>1. cpc[c] = "check"
    BY DEF CheckResponse
  <2>2. InResponseSlot(c) /\ At(c, BusyLabels)
    BY <2>1 DEF InResponseSlot, At, BusyLabels
  <2>3. response.requestid # creq[c].requestid
    BY <1>1, <2>2 DEF ResponseWaits
  <2> QED
    BY <2>3 DEF CheckResponse
<1>4. cpc'[c] # "release"
  BY <1>2, <1>3 DEF ThreadStep, CreateRequest, WaitRequestSpace, WriteRequest, PostRequest,
     WaitResponse, RepostResponse, LeaveLoop
<1>5. \A d \in Clients : ~At(d, {"release"})'
  BY <1>1, <1>4 DEF At
<1>6. ResponseWaits' => ResponseWaits
  <2>1. InResponseSlot(c)' \/ sem'["res_available"] > 0 =>
          InResponseSlot(c) \/ sem["res_available"] > 0
    BY DEF InResponseSlot, At, ThreadStep, CreateRequest, WaitRequestSpace, WriteRequest,
       PostRequest, WaitResponse, CheckResponse, RepostResponse, ReleaseResponse, LeaveLoop
  <2>2. \A d \in Clients \ {c} : InResponseSlot(d)' => InResponseSlot(d)
    BY DEF InResponseSlot, At
  <2> QED
    BY <2>1, <2>2 DEF ResponseWaits
<1>7. ASSUME ResponseWaits, NEW d \in Clients, At(d, BusyLabels)'
      PROVE  creq'[d].requestid # response.requestid
  <2>1. CASE d # c \/ ~CreateRequest(c)
    <3>1. At(d, BusyLabels) /\ creq'[d] = creq[d]
      BY <1>7, <2>1 DEF At, BusyLabels, ThreadStep, WaitRequestSpace, WriteRequest,
         PostRequest, WaitResponse, CheckResponse, RepostResponse, ReleaseResponse, LeaveLoop
    <3> QED
      BY <1>1, <1>7, <3>1
  <2>2. CASE d = c /\ CreateRequest(c)
    <3>1. cpc[c] = "create" /\ Busy(c)'
      BY <1>7, <2>2 DEF CreateRequest, At, Busy
    <3>2. creq'[c].requestid \notin OnTheWay
      BY <3>1 DEF ThreadActs, FreshDraw
    <3>3. ResponseSlotFull
      BY <1>7 DEF ResponseWaits, ResponseSlotFull, InResponseSlot, At, ClientInResponseSlot
    <3>4. response.requestid \in OnTheWay
      BY <3>3 DEF OnTheWay, Here
    <3> QED
      BY <2>2, <3>2, <3>4
  <2> QED
    BY <2>1, <2>2
<1>8. NoneGetsThrough'
  BY <1>5, <1>6, <1>7 DEF NoneGetsThrough
<1> QED
  BY <1>2, <1>3, <1>8

\* A request in the slot keeps its client, who cannot get through with it.
LEMMA ThreadKeepsRequestClient ==
  ASSUME LifeTypeOK, Restoring, inited >= 1, NoneGetsThrough, RequestHasClient,
         NEW c \in Clients, ThreadActs(c)
  PROVE  RequestHasClient'
<1> USE ClientAssumption, ThreadFrame DEF LifeTypeOK, ClientTypeOK, ShmTypeOK, ShmSems
<1> DEFINE Its(d) == At(d, {"wait_response", "check", "repost"})
<1>1. ASSUME PostRequest(c) PROVE RequestHasClient'
  <2>1. Its(c)'
    BY <1>1 DEF PostRequest, At
  <2> QED
    BY <2>1 DEF RequestHasClient
<1>2. ASSUME ~PostRequest(c), sem'["req_available"] > 0
      PROVE  \E d \in Clients : Its(d)'
  <2>1. sem["req_available"] > 0
    BY <1>2 DEF ThreadStep, CreateRequest, WaitRequestSpace, WriteRequest, WaitResponse,
       CheckResponse, RepostResponse, ReleaseResponse, LeaveLoop
  <2>2. PICK d \in Clients : Its(d)
    BY <2>1 DEF RequestHasClient
  <2>3. CASE d # c
    BY <2>2, <2>3 DEF At
  <2>4. CASE d = c
    <3>1. cpc[c] \in {"wait_response", "check", "repost"}
      BY <2>2, <2>4 DEF At
    <3>2. WaitResponse(c) \/ CheckResponse(c) \/ RepostResponse(c)
      BY <3>1 DEF ThreadStep, CreateRequest, WaitRequestSpace, WriteRequest, PostRequest,
         ReleaseResponse, LeaveLoop
    <3>3. cpc'[c] \in {"wait_response", "check", "repost"}
      BY <3>2, ThreadDoesNotGetThrough DEF WaitResponse, RepostResponse
    <3> QED
      BY <3>3 DEF At
  <2> QED
    BY <2>3, <2>4
<1> QED
  BY <1>1, <1>2 DEF RequestHasClient

\* The parts of the invariant, one by one.
LEMMA ThreadKeepsSegment ==
  ASSUME LifeTypeOK, RequestFilled, SegmentKept, NEW c \in Clients, ThreadActs(c)
  PROVE  RequestFilled' /\ SegmentKept'
<1> USE ClientAssumption, ThreadFrame DEF SegmentKept
<1>1. PermitsOnce' /\ PermitsThere'
  BY ThreadKeepsPermits DEF PermitsOnce, PermitsThere
<1>2. Nameless'
  BY DEF Nameless, LifeTypeOK, ClientTypeOK
<1>3. Sizeless'
  <2> SUFFICES ASSUME ~sized PROVE Sizeless'
    BY DEF Sizeless
  <2>1. /\ \A n \in ShmSems : sem[n] = 0
        /\ NobodyPast /\ inited = 0 /\ ~disturbed /\ sup \in {"down", "opened"}
    BY DEF Sizeless
  <2>2. CreateRequest(c) \/ LeaveLoop(c)
    BY DEF ThreadActs, ThreadStep, WaitRequestSpace, WriteRequest, PostRequest,
       WaitResponse, CheckResponse, RepostResponse, ReleaseResponse, Busy, BusyLabels
  <2>3. sem' = sem
    BY <2>2 DEF CreateRequest, LeaveLoop
  <2>4. RequestFree = 0
    BY <2>1 DEF RequestFree, ShmSems
  <2>5. NobodyPast'
    BY <2>1, <2>4, StuckWithoutPermit
  <2> QED
    BY <2>1, <2>3, <2>5 DEF Sizeless
<1>4. ASSUME ResponseFree = 0, \A d \in Clients : ~InResponseSlot(d)
      PROVE  ResponseFree' = 0 /\ \A d \in Clients : ~InResponseSlot(d)'
  <2>1. ResponseFree' = 0 /\ ~InResponseSlot(c)'
    BY <1>4, ThreadMovesResponse DEF Moves
  <2>2. \A d \in Clients \ {c} : ~InResponseSlot(d)'
    BY <1>4 DEF InResponseSlot, At
  <2> QED
    BY <2>1, <2>2
<1>5. NewSegment'
  BY <1>4, StuckWithoutPermit, ThreadKeepsPermits DEF NewSegment
<1>6. NoneGetsThrough'
  BY ThreadDoesNotGetThrough DEF NoneGetsThrough, Restoring
<1>7. RequestHasClient'
  BY ThreadKeepsRequestClient DEF RequestHasClient, Restoring
<1>8. ASSUME sem["res_available"] = 0, \A d \in Clients : ~InResponseSlot(d)
      PROVE  sem'["res_available"] = 0 /\ \A d \in Clients : ~InResponseSlot(d)'
  <2>1. cpc[c] \notin {"check", "repost", "release"}
    BY <1>8 DEF InResponseSlot, At
  <2>2. \/ CreateRequest(c) \/ WaitRequestSpace(c) \/ WriteRequest(c) \/ PostRequest(c)
        \/ LeaveLoop(c)
    BY <1>8, <2>1 DEF ThreadStep, WaitResponse, CheckResponse, RepostResponse,
       ReleaseResponse
  <2>3. sem'["res_available"] = 0
    BY <1>8, <2>2 DEF LifeTypeOK, ShmTypeOK, ShmSems, CreateRequest, WaitRequestSpace,
       WriteRequest, PostRequest, LeaveLoop
  <2>4. cpc'[c] \notin {"check", "repost", "release"}
    BY <2>2 DEF LifeTypeOK, ClientTypeOK, CreateRequest, WaitRequestSpace,
       WriteRequest, PostRequest, LeaveLoop
  <2>5. \A d \in Clients : ~InResponseSlot(d)'
    BY <1>8, <2>4 DEF InResponseSlot, At
  <2> QED
    BY <2>3, <2>5
<1>9. Restored'
  BY <1>8, ThreadKeepsPermits DEF Restored, Restoring
<1>10. RequestFilled'
  BY ThreadKeepsFilled
<1> QED
  BY <1>1, <1>2, <1>3, <1>5, <1>6, <1>7, <1>9, <1>10

-----------------------------------------------------------------------------
(* The permits of the slots, when a thread of the server steps.            *)

\* What a step of a server thread leaves alone.
LEMMA ServerActsFrame ==
  ASSUME ServerActs
  PROVE  /\ UNCHANGED <<clientVars, bootVars, unrest, disturbed, broken>>
         /\ \A c \in Clients :
              /\ InRequestSlot(c)' <=> InRequestSlot(c)
              /\ InResponseSlot(c)' <=> InResponseSlot(c)
              /\ At(c, {"post"})' <=> At(c, {"post"})
<1>1. UNCHANGED <<clientVars, where, bootVars, unrest, disturbed, broken>>
  BY DEF ServerActs
<1> QED
  BY <1>1 DEF InRequestSlot, InResponseSlot, At, Attached, Gone

\* The request thread moves the permit of the request slot, the response thread that of
\* the response slot, and the workers none.
LEMMA ServerMovesPermits ==
  ASSUME LifeTypeOK, ServerActs
  PROVE  /\ Moves(RequestFree, RequestFree', ServerInRequestSlot, ServerInRequestSlot')
         /\ Moves(ResponseFree, ResponseFree', ServerInResponseSlot, ServerInResponseSlot')
<1> DEFINE M == Moves(RequestFree, RequestFree',
                      ServerInRequestSlot, ServerInRequestSlot')
           R == Moves(ResponseFree, ResponseFree',
                      ServerInResponseSlot, ServerInResponseSlot')
<1>1. sem \in [ShmSems -> Nat]
  BY DEF LifeTypeOK, ShmTypeOK
<1> USE <1>1 DEF Moves, RequestFree, ResponseFree, ServerInRequestSlot,
        ServerInResponseSlot, ShmSems
<1>2. ASSUME WaitRequest PROVE M /\ R
  BY <1>2 DEF WaitRequest
<1>3. ASSUME ReleaseRequestSlot PROVE M /\ R
  BY <1>3 DEF ReleaseRequestSlot
<1>4. ASSUME \/ CopyRequest \/ LockForEnqueue \/ PushRequest \/ UnlockAfterEnqueue
             \/ AnnounceRequest
      PROVE  M /\ R
  BY <1>4 DEF CopyRequest, LockForEnqueue, PushRequest, UnlockAfterEnqueue, AnnounceRequest
<1>5. ASSUME NEW w \in Workers, WorkerStep(w) PROVE M /\ R
  <2>1. UNCHANGED <<sem, epc, rpc>>
    BY <1>5 DEF WorkerStep, TakeTicket, LockForDequeue, PopRequest, UnlockAfterDequeue,
       Process, LockForResponse, PushResponse, UnlockAfterResponse, AnnounceResponse
  <2> QED
    BY <2>1
<1>6. ASSUME WaitResponseSpace PROVE M /\ R
  BY <1>6 DEF WaitResponseSpace
<1>7. ASSUME PostResponse PROVE M /\ R
  BY <1>7 DEF PostResponse
<1>8. ASSUME WaitResult \/ LockForResult \/ PopResult \/ UnlockAfterResult \/ WriteResponse
      PROVE  M /\ R
  BY <1>8 DEF WaitResult, LockForResult, PopResult, UnlockAfterResult, WriteResponse
<1> HIDE DEF M, R
<1>9. M /\ R
  BY <1>2, <1>3, <1>4, <1>5, <1>6, <1>7, <1>8 DEF ServerActs, ServerNext,
     RequestThreadStep, ResponseThreadStep
<1> QED
  BY <1>9 DEF M, R

\* So neither permit is doubled, or lost.
LEMMA ServerKeepsPermits ==
  ASSUME LifeTypeOK, ServerActs
  PROVE  /\ RequestOnce => RequestOnce'
         /\ RequestSomewhere => RequestSomewhere'
         /\ ResponseOnce => ResponseOnce'
         /\ ResponseSomewhere => ResponseSomewhere'
<1>1. RequestFree \in Nat /\ ResponseFree \in Nat
  BY DEF LifeTypeOK, ShmTypeOK, ShmSems, RequestFree, ResponseFree
<1>2. (RequestOnce => RequestOnce') /\ (RequestSomewhere => RequestSomewhere')
  BY <1>1, ServerActsFrame, ServerMovesPermits DEF Moves, RequestOnce, RequestSomewhere
<1>3. (ResponseOnce => ResponseOnce') /\ (ResponseSomewhere => ResponseSomewhere')
  BY <1>1, ServerActsFrame, ServerMovesPermits DEF Moves, ResponseOnce, ResponseSomewhere
<1> QED
  BY <1>2, <1>3

\* A server that is up set up its segment before: what is said of that does not concern
\* its threads.
LEMMA ServerKeepsSegment ==
  ASSUME LifeTypeOK, RequestFilled, SegmentKept, ServerActs
  PROVE  RequestFilled' /\ SegmentKept'
<1> USE ServerActsFrame DEF SegmentKept
<1>1. sup = "up"
  BY DEF ServerActs
<1>2. PermitsOnce' /\ PermitsThere'
  BY ServerKeepsPermits DEF PermitsOnce, PermitsThere
<1>3. Nameless' /\ Sizeless' /\ NewSegment'
  BY <1>1 DEF Nameless, Sizeless, NewSegment
<1>4. NoneGetsThrough' /\ RequestHasClient' /\ Restored'
  BY <1>1 DEF Restoring, NoneGetsThrough, RequestHasClient, Restored
<1>5. RequestFilled'
  <2>1. /\ request' = request
        /\ sem'["req_available"] > 0 => sem["req_available"] > 0
        /\ epc' = "copy" => epc = "copy" \/ sem["req_available"] > 0
    BY DEF ServerActs, ServerNext, RequestThreadStep, ResponseThreadStep, WaitRequest,
       CopyRequest, ReleaseRequestSlot, LockForEnqueue, PushRequest, UnlockAfterEnqueue,
       AnnounceRequest, WorkerStep, TakeTicket, LockForDequeue, PopRequest,
       UnlockAfterDequeue, Process, LockForResponse, PushResponse, UnlockAfterResponse,
       AnnounceResponse, WaitResult, LockForResult, PopResult, UnlockAfterResult,
       WaitResponseSpace, WriteResponse, PostResponse, LifeTypeOK, ShmTypeOK, ShmSems
  <2> QED
    BY <2>1 DEF RequestFilled
<1> QED
  BY <1>2, <1>3, <1>4, <1>5

-----------------------------------------------------------------------------
(* The permits of the slots, when the main thread of the server steps.     *)

\* Only Unlink concerns the clients: it detaches them all.
LEMMA MainFrame ==
  ASSUME LifeTypeOK, Boot \/ Size \/ InitSem \/ StartThreads \/ KillServer \/ Unmap \/ Fault
  PROVE  /\ UNCHANGED <<request, response, clientVars, where>>
         /\ \A p \in Procs : Attached(p)' <=> Attached(p)
         /\ \A c \in Clients :
              /\ InRequestSlot(c)' <=> InRequestSlot(c)
              /\ InResponseSlot(c)' <=> InResponseSlot(c)
              /\ \A labels : At(c, labels)' <=> At(c, labels)
         /\ NobodyPast' <=> NobodyPast
<1>1. UNCHANGED <<request, response, clientVars, where>>
  BY DEF Boot, Size, InitSem, StartThreads, KillServer, Unmap, Fault
<1>2. \A p \in Procs : Attached(p)' <=> Attached(p)
  BY <1>1 DEF Attached, Gone
<1>3. \A c \in Clients : \A labels : At(c, labels)' <=> At(c, labels)
  BY <1>1, <1>2, ClientAssumption DEF At
<1> QED
  BY <1>1, <1>2, <1>3 DEF InRequestSlot, InResponseSlot, NobodyPast

\* A server that is not up is in no slot.
LEMMA ServerNowhere ==
  ASSUME ServerIdle, sup \notin {"up", "unmapped"}
  PROVE  ~ServerInRequestSlot /\ ~ServerInResponseSlot /\ epc = "wait" /\ rpc = "wait"
BY DEF ServerIdle, ServerHolds, ServerInRequestSlot, ServerInResponseSlot

\* shm_open and ftruncate: a new segment is empty, and nobody is inside it.
LEMMA OpeningKeepsSegment ==
  ASSUME LifeTypeOK, RequestFilled, SegmentKept, Boot \/ Size
  PROVE  RequestFilled' /\ SegmentKept'
<1> USE MainFrame DEF SegmentKept
<1>1. UNCHANGED <<shmVars, serverVars, disturbed, broken>>
  BY DEF Boot, Size
<1>2. PermitsOnce'
  BY <1>1 DEF PermitsOnce, RequestOnce, ResponseOnce, RequestFree, ResponseFree,
     ServerInRequestSlot, ServerInResponseSlot
<1>3. PermitsThere'
  BY <1>1, OrderOfInit DEF Boot, Size, PermitsThere, RequestSomewhere, ResponseSomewhere,
     RequestFree, ResponseFree, ServerInRequestSlot, ServerInResponseSlot
<1>4. Nameless' /\ Sizeless'
  BY <1>1 DEF Boot, Size, Nameless, Sizeless
<1>5. NewSegment'
  <2>1. CASE Boot
    BY <2>1 DEF Boot, NewSegment, Nameless
  <2>2. CASE Size
    <3>1. fresh' => ~sized
      BY <2>2 DEF Size, NewSegment
    <3>2. fresh' => ~disturbed /\ NobodyPast /\ \A n \in ShmSems : sem[n] = 0
      BY <3>1 DEF Sizeless
    <3>3. fresh' => RequestFree = 0 /\ ResponseFree = 0
      BY <3>2 DEF RequestFree, ResponseFree, ShmSems
    <3>4. RequestFree' = RequestFree /\ ResponseFree' = ResponseFree
      BY <1>1 DEF RequestFree, ResponseFree
    <3>5. NobodyPast => \A c \in Clients : ~InResponseSlot(c)
      BY DEF NobodyPast, InResponseSlot, At, BusyLabels
    <3>6. sup' = "sized" /\ inited' = 0 /\ ~unrest'
      BY <2>2 DEF Size
    <3> QED
      BY <1>1, <3>2, <3>3, <3>4, <3>5, <3>6 DEF NewSegment
  <2> QED
    BY <2>1, <2>2
<1>6. NoneGetsThrough' /\ RequestHasClient' /\ Restored'
  BY DEF Boot, Size, Restoring, NoneGetsThrough, RequestHasClient, Restored
<1>7. RequestFilled'
  BY <1>1 DEF RequestFilled
<1> QED
  BY <1>2, <1>3, <1>4, <1>5, <1>6, <1>7

\* A server that starts its threads, dies, or takes its mapping away.
LEMMA RunningKeepsSegment ==
  ASSUME LifeTypeOK, RequestFilled, SegmentKept, StartThreads \/ KillServer \/ Unmap \/ Fault
  PROVE  RequestFilled' /\ SegmentKept'
<1> USE MainFrame DEF SegmentKept
<1>1. /\ UNCHANGED <<shmVars, inited, linked, sized, fresh, disturbed>>
      /\ sup' \in {"down", "up", "unmapped"} /\ sup # "down"
      /\ sup = "opened" => sup' = "down"
  BY DEF StartThreads, KillServer, Unmap, Fault, ServerDies, LifeTypeOK
<1>2. /\ epc' = epc /\ rpc' = rpc /\ broken' = broken
      \/ /\ epc' = "wait" /\ rpc' = "wait" /\ (~broken' => ~broken /\ ~ServerHolds)
  BY DEF StartThreads, KillServer, Unmap, Fault, ServerDies
<1>3. /\ ServerInRequestSlot' => ServerInRequestSlot
      /\ ServerInResponseSlot' => ServerInResponseSlot
      /\ epc' = "copy" => epc = "copy"
  BY <1>2 DEF ServerInRequestSlot, ServerInResponseSlot
<1>4. PermitsOnce'
  BY <1>1, <1>3 DEF PermitsOnce, RequestOnce, ResponseOnce, RequestFree, ResponseFree
<1>5. ~broken' => /\ ~broken
                  /\ ServerInRequestSlot => ServerInRequestSlot'
                  /\ ServerInResponseSlot => ServerInResponseSlot'
  BY <1>2 DEF ServerHolds, ServerInRequestSlot, ServerInResponseSlot
<1>6. PermitsThere'
  BY <1>1, <1>5 DEF PermitsThere, RequestSomewhere, ResponseSomewhere, RequestFree,
     ResponseFree
<1>7. Nameless'
  BY <1>1 DEF Nameless
<1>8. Sizeless'
  BY <1>1 DEF Sizeless
<1>9. NewSegment' /\ NoneGetsThrough' /\ RequestHasClient' /\ Restored'
  BY <1>1 DEF NewSegment, Restoring, NoneGetsThrough, RequestHasClient, Restored
<1>10. RequestFilled'
  BY <1>1, <1>3 DEF RequestFilled
<1> QED
  BY <1>4, <1>6, <1>7, <1>8, <1>9, <1>10

\* shm_unlink: nobody is attached to what the name will stand for, and it is empty.
LEMMA UnlinkKeepsSegment ==
  ASSUME LifeTypeOK, Unlink
  PROVE  RequestFilled' /\ SegmentKept'
<1>1. /\ \A p \in Procs : ~Attached(p)'
      /\ \A n \in ShmSems : sem'[n] = 0
      /\ epc' = "wait" /\ rpc' = "wait" /\ sup' = "down" /\ inited' = 0
      /\ linked' = FALSE /\ sized' = FALSE /\ fresh' = FALSE
      /\ disturbed' = FALSE /\ broken' = FALSE
  BY DEF Unlink, ServerDies, Attached, ZeroSems
<1>2. \A c \in Clients : \A labels : ~At(c, labels)'
  BY <1>1, ClientAssumption DEF At
<1>3. RequestFree' = 0 /\ ResponseFree' = 0
  BY <1>1 DEF RequestFree, ResponseFree, ShmSems
<1>4. RequestOnce' /\ ResponseOnce'
  BY <1>1, <1>2, <1>3 DEF RequestOnce, ResponseOnce, InRequestSlot, InResponseSlot,
     ServerInRequestSlot, ServerInResponseSlot
<1>5. PermitsOnce' /\ PermitsThere'
  BY <1>1, <1>4, OrderOfInit DEF PermitsOnce, PermitsThere
<1>6. Nameless' /\ Sizeless' /\ NewSegment'
  BY <1>1, <1>2 DEF Nameless, Sizeless, NewSegment, NobodyPast
<1>7. NoneGetsThrough' /\ RequestHasClient' /\ Restored'
  BY <1>1 DEF Restoring, NoneGetsThrough, RequestHasClient, Restored
<1>8. RequestFilled'
  BY <1>1, <1>2 DEF RequestFilled, ShmSems
<1> QED
  BY <1>5, <1>6, <1>7, <1>8 DEF SegmentKept

\* sem_init in a new segment.  The first of each pair sets what is zero to zero, the
\* second lets the first client in.
LEMMA InitOfNewSegment ==
  ASSUME LifeTypeOK, ServerIdle, SegmentKept, InitSem, fresh
  PROVE  PermitsOnce' /\ PermitsThere' /\ NewSegment'
<1> USE MainFrame, OrderOfInit DEF SegmentKept
<1>1. /\ sup = "sized" /\ sup' = "sized" /\ fresh' = fresh /\ inited \in 0 .. 3
      /\ inited' = inited + 1 /\ epc' = epc /\ rpc' = rpc
  BY DEF InitSem, LifeTypeOK
<1>2. (unrest' <=> unrest) /\ (disturbed' <=> disturbed \/ unrest) /\ (broken' <=> broken)
  BY DEF InitSem, NoteInit
<1>3. /\ ~unrest /\ ~disturbed
      /\ inited <= 1 => RequestFree = 0 /\ NobodyPast
      /\ inited >= 2 /\ ~broken => RequestSomewhere
      /\ inited <= 3 => ResponseFree = 0 /\ \A c \in Clients : ~InResponseSlot(c)
  BY <1>1 DEF NewSegment
<1>4. RequestOnce /\ ResponseOnce
  BY <1>3 DEF PermitsOnce
<1>5. /\ ~ServerInRequestSlot /\ ~ServerInResponseSlot
      /\ ~ServerInRequestSlot' /\ ~ServerInResponseSlot'
  BY <1>1, ServerNowhere DEF ServerInRequestSlot, ServerInResponseSlot
<1>6. sem \in [ShmSems -> Nat]
  BY DEF LifeTypeOK, ShmTypeOK
<1>7. /\ inited = 0 => RequestFree' = RequestFree /\ ResponseFree' = ResponseFree
      /\ inited = 1 => RequestFree' = 1 /\ ResponseFree' = ResponseFree
      /\ inited = 2 => RequestFree' = RequestFree /\ ResponseFree' = ResponseFree
      /\ inited = 3 => RequestFree' = RequestFree /\ ResponseFree' = 1
  BY <1>1, <1>3, <1>6 DEF InitSem, RequestFree, ResponseFree, ShmSems
<1>8. NobodyPast => \A c \in Clients : ~InRequestSlot(c)
  BY DEF NobodyPast, InRequestSlot, At, BusyLabels
<1>9. RequestOnce'
  BY <1>1, <1>3, <1>4, <1>5, <1>7, <1>8 DEF RequestOnce
<1>10. ResponseOnce'
  BY <1>1, <1>3, <1>4, <1>5, <1>7 DEF ResponseOnce
<1>11. inited >= 1 /\ ~broken => RequestSomewhere'
  BY <1>1, <1>3, <1>5, <1>7 DEF RequestSomewhere
<1>12. inited = 3 => ResponseSomewhere'
  BY <1>7 DEF ResponseSomewhere
<1>13. PermitsOnce'
  BY <1>9, <1>10 DEF PermitsOnce
<1>14. PermitsThere'
  BY <1>1, <1>2, <1>11, <1>12 DEF PermitsThere
<1>15. NewSegment'
  BY <1>1, <1>2, <1>3, <1>7, <1>11 DEF NewSegment
<1> QED
  BY <1>13, <1>14, <1>15

\* sem_init in an old segment, when no client is inside a request at any of the four:
\* whatever was lost before, both slots end up with their one permit.
LEMMA InitOfQuietSegment ==
  ASSUME LifeTypeOK, ServerIdle, SegmentKept, InitSem, Restoring,
         \A c \in Clients : ~At(c, BusyLabels)
  PROVE  /\ PermitsOnce' /\ (inited' = 4 => RequestSomewhere' /\ ResponseSomewhere')
         /\ NoneGetsThrough' /\ RequestHasClient' /\ Restored'
<1> USE MainFrame, OrderOfInit DEF SegmentKept
<1>1. /\ sup = "sized" /\ sup' = "sized" /\ fresh' = fresh /\ inited \in 0 .. 3
      /\ inited' = inited + 1 /\ epc' = epc /\ rpc' = rpc
  BY DEF InitSem, LifeTypeOK
<1>2. \A c \in Clients : ~InRequestSlot(c) /\ ~InResponseSlot(c)
  BY DEF InRequestSlot, InResponseSlot, At, BusyLabels
<1>3. /\ ~ServerInRequestSlot /\ ~ServerInResponseSlot
      /\ ~ServerInRequestSlot' /\ ~ServerInResponseSlot'
  BY <1>1, ServerNowhere DEF ServerInRequestSlot, ServerInResponseSlot
<1>4. sem \in [ShmSems -> Nat] /\ RequestFree \in Nat /\ ResponseFree \in Nat
  BY DEF LifeTypeOK, ShmTypeOK, ShmSems, RequestFree, ResponseFree
<1>5. inited >= 1 => sem["req_available"] = 0
  <2>1. \A c \in Clients : ~At(c, {"wait_response", "check", "repost"})
    BY DEF At, BusyLabels
  <2>2. inited >= 1 => ~(sem["req_available"] > 0)
    BY <2>1 DEF RequestHasClient
  <2> QED
    BY <1>4, <2>2 DEF ShmSems
<1>6. inited = 3 => sem["res_available"] = 0
  BY DEF Restored
<1>7. /\ inited = 0 => sem'["req_available"] = 0 /\ RequestFree' <= RequestFree
      /\ inited # 0 => sem'["req_available"] = sem["req_available"]
      /\ inited = 1 => RequestFree' = 1
      /\ inited \in {2, 3} => RequestFree' = RequestFree
  BY <1>1, <1>4, <1>5 DEF InitSem, RequestFree, ShmSems
<1>8. /\ inited \in {0, 1} => ResponseFree' = ResponseFree
      /\ inited = 2 => sem'["res_available"] = 0 /\ ResponseFree' <= ResponseFree
      /\ inited = 3 => ResponseFree' = 1
  BY <1>1, <1>4, <1>6 DEF InitSem, ResponseFree, ShmSems
<1>9. /\ RequestOnce' <=> RequestFree' <= 1
      /\ ResponseOnce' <=> ResponseFree' <= 1
  BY <1>2, <1>3 DEF RequestOnce, ResponseOnce
<1>10. inited >= 1 => RequestOnce' /\ RequestSomewhere'
  <2>1. CASE inited = 1
    BY <1>7, <1>9, <2>1 DEF RequestSomewhere
  <2>2. CASE inited \in {2, 3}
    <3>1. RequestOnce /\ RequestSomewhere
      BY <2>2 DEF Restored
    <3>2. RequestFree = 1
      BY <1>2, <1>3, <1>4, <3>1 DEF RequestOnce, RequestSomewhere
    <3> QED
      BY <1>7, <1>9, <2>2, <3>2 DEF RequestSomewhere
  <2> QED
    BY <1>1, <2>1, <2>2
<1>11. inited = 3 => ResponseOnce' /\ ResponseSomewhere'
  BY <1>8, <1>9 DEF ResponseSomewhere
<1>12. ASSUME ~disturbed, inited # 3
       PROVE  RequestOnce' /\ ResponseOnce'
  <2>1. RequestFree <= 1 /\ ResponseFree <= 1
    BY <1>12 DEF PermitsOnce, RequestOnce, ResponseOnce
  <2>2. RequestFree' \in Nat /\ ResponseFree' \in Nat
    BY <1>1, <1>4 DEF InitSem, ShmSems, RequestFree, ResponseFree
  <2>3. ResponseFree' <= 1
    BY <1>1, <1>4, <1>8, <1>12, <2>1, <2>2
  <2>4. RequestFree' <= 1
    BY <1>1, <1>4, <1>7, <1>12, <2>1, <2>2
  <2> QED
    BY <1>9, <2>3, <2>4
<1>13. PermitsOnce'
  <2>1. inited # 3 => inited + 1 # Len(InitOrder)
    BY <1>1
  <2>2. inited # 3 => (~disturbed' => ~disturbed)
    BY <2>1 DEF InitSem, NoteInit
  <2> QED
    BY <1>1, <1>10, <1>11, <1>12, <2>2 DEF PermitsOnce
<1>14. inited' = 4 => RequestSomewhere' /\ ResponseSomewhere'
  BY <1>1, <1>10, <1>11
<1>15. NoneGetsThrough'
  BY DEF NoneGetsThrough, At, BusyLabels
<1>16. RequestHasClient'
  BY <1>1, <1>5, <1>7 DEF RequestHasClient
<1>17. Restored'
  BY <1>1, <1>2, <1>8, <1>10 DEF Restored
<1> QED
  BY <1>13, <1>14, <1>15, <1>16, <1>17

\* A sem_init under a client inside its request, in an old segment, is the case that is
\* noted as disturbed; the other two are the lemmas above.
LEMMA InitKeepsSegment ==
  ASSUME LifeTypeOK, ServerIdle, RequestFilled, SegmentKept, InitSem
  PROVE  RequestFilled' /\ SegmentKept'
<1> USE MainFrame, OrderOfInit
<1> DEFINE restless == unrest \/ (~fresh /\ \E c \in Clients : At(c, BusyLabels))
<1>1. /\ sup = "sized" /\ sup' = "sized" /\ inited \in 0 .. 3 /\ inited' = inited + 1
      /\ UNCHANGED <<serverVars, linked, sized, fresh, request>>
  BY DEF InitSem, LifeTypeOK
<1>2. /\ unrest' <=> restless
      /\ ~fresh /\ ~disturbed' => ~restless
  <2>1. restless <=>
          unrest \/ (~fresh /\ \E c \in {d \in Clients : Attached(Home[d])} : Busy(c))
    BY DEF At, Busy
  <2> HIDE DEF restless
  <2> QED
    BY <2>1 DEF InitSem, NoteInit
<1>3. Nameless' /\ Sizeless'
  BY <1>1 DEF SegmentKept, Nameless, Sizeless
<1>4. RequestFilled'
  <2>1. sem'["req_available"] > 0 => sem["req_available"] > 0
    BY <1>1 DEF InitSem, LifeTypeOK, ShmTypeOK, ShmSems
  <2> QED
    BY <1>1, <2>1 DEF RequestFilled
<1>5. CASE fresh
  <2>1. NoneGetsThrough' /\ RequestHasClient' /\ Restored'
    BY <1>1, <1>5 DEF Restoring, NoneGetsThrough, RequestHasClient, Restored
  <2> QED
    BY <1>3, <1>4, <1>5, <2>1, InitOfNewSegment DEF SegmentKept
<1>6. CASE ~fresh /\ ~restless
  <2>1. Restoring /\ \A c \in Clients : ~At(c, BusyLabels)
    BY <1>1, <1>6 DEF Restoring
  <2>2. NewSegment'
    BY <1>1, <1>6 DEF NewSegment
  <2>3. PermitsThere'
    BY <2>1, InitOfQuietSegment DEF PermitsThere
  <2> QED
    BY <1>3, <1>4, <2>1, <2>2, <2>3, InitOfQuietSegment DEF SegmentKept
<1>7. CASE ~fresh /\ restless
  <2>1. disturbed' /\ ~Restoring'
    BY <1>2, <1>7 DEF Restoring
  <2>2. PermitsOnce' /\ PermitsThere' /\ NewSegment'
    BY <1>1, <1>7, <2>1 DEF PermitsOnce, PermitsThere, NewSegment
  <2>3. NoneGetsThrough' /\ RequestHasClient' /\ Restored'
    BY <2>1 DEF NoneGetsThrough, RequestHasClient, Restored
  <2> QED
    BY <1>3, <1>4, <2>2, <2>3 DEF SegmentKept
<1> QED
  BY <1>5, <1>6, <1>7

-----------------------------------------------------------------------------
(* The invariant.                                                          *)

\* At first there is no segment, no server and no client.
LEMMA LifeInitEstablishes ==
  ASSUME LifeInit
  PROVE  LifeIInv
<1> USE DEF LifeInit, ClientInit, ServerInit
<1>1. LifeTypeOK
  <2>1. ShmTypeOK
    BY DEF ShmTypeOK, ZeroSems, ShmSems
  <2>2. ClientTypeOK
    BY DEF ClientTypeOK, ThreadLabels, Busy, BusyLabels, MainLabels
  <2>3. ServerTypeOK
    BY EmptySeq DEF ServerTypeOK, QueueSems, EnqLabels, EnqHolds, WorkLabels, WorkHolds,
       WorkDone, DeqLabels, DeqHolds
  <2>4. osem \in [ShmSems -> Nat] /\ inited \in 0 .. Len(InitOrder)
    BY OrderOfInit DEF ZeroSems
  <2> QED
    BY <2>1, <2>2, <2>3, <2>4 DEF LifeTypeOK
<1>2. QueuesKept
  <2>1. RequestQueueLock /\ ResponseQueueLock
    BY DEF RequestQueueLock, ResponseQueueLock, QueueSems, WorkerInRequestQueue,
       EnqInRequestQueue, WorkerInResponseQueue, DeqInResponseQueue
  <2>2. TicketHolders = {} /\ ResponseUnannounced = {}
    BY DEF TicketHolders, ResponseUnannounced
  <2>3. Len(requestQueue) = 0 /\ Len(responseQueue) = 0
    OBVIOUS
  <2>4. RequestTickets /\ ResponseTickets
    BY <2>2, <2>3, FS_EmptySet DEF RequestTickets, ResponseTickets, One, QueueSems,
       RequestUnannounced, ResultTicket
  <2> QED
    BY <2>1, <2>4 DEF QueuesKept
<1>3. ExitTickets
  <2>1. \A p \in Procs : Exited(p) = {}
    BY DEF Exited
  <2>2. \A p \in Procs : Cardinality(Exited(p)) = 0
    BY <2>1, FS_EmptySet
  <2>3. \A p \in Procs : threads_safe_exit[p] + drained[p] = 0 /\ mpc[p] = "spawning"
    OBVIOUS
  <2> QED
    BY <2>2, <2>3 DEF ExitTickets
<1>4. ServerIdle
  BY DEF ServerIdle, ServerHolds
<1>5. /\ \A c \in Clients : \A labels : ~At(c, labels)
      /\ \A p \in Procs : ~Attached(p)
      /\ \A n \in ShmSems : sem[n] = 0
  BY ClientAssumption DEF At, Attached, ZeroSems
<1>6. RequestFilled
  BY <1>5 DEF RequestFilled, ShmSems
<1>7. SegmentKept
  <2>1. RequestFree = 0 /\ ResponseFree = 0
    BY <1>5 DEF RequestFree, ResponseFree, ShmSems
  <2>2. RequestOnce /\ ResponseOnce
    BY <1>5, <2>1 DEF RequestOnce, ResponseOnce, InRequestSlot, InResponseSlot,
       ServerInRequestSlot, ServerInResponseSlot
  <2>3. PermitsOnce /\ PermitsThere
    BY <2>2, OrderOfInit DEF PermitsOnce, PermitsThere
  <2>4. Nameless /\ Sizeless /\ NewSegment
    BY <1>5 DEF Nameless, Sizeless, NewSegment, NobodyPast
  <2>5. NoneGetsThrough /\ RequestHasClient /\ Restored
    BY DEF Restoring, NoneGetsThrough, RequestHasClient, Restored
  <2> QED
    BY <2>3, <2>4, <2>5 DEF SegmentKept
<1> QED
  BY <1>1, <1>2, <1>3, <1>4, <1>6, <1>7 DEF LifeIInv

\* Types, by the kinds of steps.
LEMMA StepKeepsTypes ==
  ASSUME LifeTypeOK, QueuesKept, RequestFilled, [LifeNext]_lifeVars
  PROVE  LifeTypeOK'
<1>1. ASSUME UNCHANGED lifeVars PROVE LifeTypeOK'
  BY <1>1, UntouchedTypes DEF LifeTypeOK
<1> QED
  BY <1>1, ServerMainKeepsTypes, ProcessKeepsTypes, ThreadKeepsTypes, ServerActsKeepTypes
     DEF LifeNext

\* The threads of the server are born when main is done, and die with it.
LEMMA StepKeepsServerIdle ==
  ASSUME ServerIdle, [LifeNext]_lifeVars
  PROVE  ServerIdle'
<1>1. ASSUME ServerDies PROVE ServerIdle'
  BY <1>1, DeathKeepsQueues DEF ServerIdle
<1>2. ASSUME sup' \in {"up", "unmapped"} PROVE ServerIdle'
  BY <1>2 DEF ServerIdle
<1>3. ASSUME UNCHANGED serverVars,
             sup \in {"up", "unmapped"} => sup' \in {"up", "unmapped"}
      PROVE  ServerIdle'
  BY <1>3 DEF ServerIdle, ServerHolds
<1>4. ASSUME Boot \/ Size \/ InitSem
      PROVE  UNCHANGED serverVars /\ sup \notin {"up", "unmapped"}
  BY <1>4 DEF Boot, Size, InitSem
<1>5. ASSUME StartThreads \/ Unmap \/ ServerActs
      PROVE  sup' \in {"up", "unmapped"}
  BY <1>5 DEF StartThreads, Unmap, ServerActs
<1>6. ASSUME KillServer \/ Fault \/ Unlink PROVE ServerDies
  BY <1>6 DEF KillServer, Fault, Unlink
<1>7. ASSUME NEW p \in Procs,
             Launch(p) \/ MainActs(p) \/ FirstSigint(p) \/ KillClient(p) \/ BusError(p)
      PROVE  UNCHANGED serverVars /\ sup' = sup
  BY <1>7 DEF Launch, MainActs, FirstSigint, KillClient, BusError, ClientDies
<1>8. ASSUME NEW c \in Clients, ThreadActs(c) \/ OrphanActs(c) \/ SecondSigint(c)
      PROVE  UNCHANGED serverVars /\ sup' = sup
  BY <1>8 DEF ThreadActs, OrphanActs, SecondSigint
<1>9. ASSUME UNCHANGED lifeVars PROVE UNCHANGED serverVars /\ sup' = sup
  BY <1>9
<1> QED
  BY <1>1, <1>2, <1>3, <1>4, <1>5, <1>6, <1>7, <1>8, <1>9 DEF LifeNext, ServerMain

\* The segment, by the kinds of steps.
LEMMA StepKeepsSegment ==
  ASSUME LifeTypeOK, ServerIdle, RequestFilled, SegmentKept, ExitTickets',
         [LifeNext]_lifeVars
  PROVE  RequestFilled' /\ SegmentKept'
<1> DEFINE Kept == RequestFilled' /\ SegmentKept'
<1>1. ASSUME UNCHANGED lifeVars PROVE Kept
  <2>1. Shrinks /\ Stays /\ Elsewhere /\ UNCHANGED <<broken, unrest>>
    BY <1>1 DEF Shrinks, Stays, Elsewhere, At, Attached, Gone, BusyLabels
  <2> QED
    BY <2>1, ComingAndGoing
<1>2. ASSUME Boot \/ ServerMain \/ KillServer \/ Unmap PROVE Kept
  BY <1>2, OpeningKeepsSegment, InitKeepsSegment, RunningKeepsSegment, UnlinkKeepsSegment
     DEF ServerMain
<1>3. ASSUME NEW p \in Procs,
             Launch(p) \/ MainActs(p) \/ FirstSigint(p) \/ KillClient(p) \/ BusError(p)
      PROVE  Kept
  <2>1. Shrinks /\ Elsewhere /\ (Noted \/ (Stays /\ UNCHANGED <<broken, unrest>>))
    BY <1>3, LaunchComes, MainGoes, DeathGoes
  <2> QED
    BY <2>1, ComingAndGoing
<1>4. ASSUME NEW c \in Clients, OrphanActs(c) \/ SecondSigint(c)
      PROVE  Kept
  BY <1>4, OrphanElsewhere, ComingAndGoing
<1>5. ASSUME NEW c \in Clients, ThreadActs(c)
      PROVE  Kept
  BY <1>5, ThreadKeepsSegment
<1>6. ASSUME ServerActs PROVE Kept
  BY <1>6, ServerKeepsSegment
<1> HIDE DEF Kept
<1>7. Kept
  BY <1>1, <1>2, <1>3, <1>4, <1>5, <1>6 DEF LifeNext
<1> QED
  BY <1>7 DEF Kept

\* The inductive invariant holds of every state, for any sets of clients, processes and
\* workers, and any number of starts and signals.
THEOREM LifeInvariance == LifeSpec => []LifeIInv
<1>1. LifeInit => LifeIInv
  BY LifeInitEstablishes
<1>2. LifeIInv /\ [LifeNext]_lifeVars => LifeIInv'
  <2> SUFFICES ASSUME LifeIInv, [LifeNext]_lifeVars PROVE LifeIInv'
    OBVIOUS
  <2> USE DEF LifeIInv
  <2>1. LifeTypeOK' /\ QueuesKept' /\ ExitTickets' /\ ServerIdle'
    BY StepKeepsTypes, StepKeepsQueues, StepKeepsExits, StepKeepsServerIdle
  <2>2. RequestFilled' /\ SegmentKept'
    BY <2>1, StepKeepsSegment
  <2> QED
    BY <2>1, <2>2
<1> QED
  BY <1>1, <1>2, PTL DEF LifeSpec

\* The variables keep their types, whoever dies and whoever is started again: the
\* request thread never copies the zeros of a new segment.
THEOREM LifeTypeCorrect == LifeSpec => []LifeTypeOK
<1>1. LifeIInv => LifeTypeOK
  BY DEF LifeIInv
<1> QED
  BY <1>1, LifeInvariance, PTL

\* Neither slot is ever in two hands, whoever dies and whoever is started again, unless a
\* server set up the semaphores under a client inside its request.
THEOREM SlotsStayExclusive == LifeSpec => []SlotsExclusive
<1>1. ASSUME LifeIInv, ~disturbed
      PROVE  View!RequestSlotExclusive /\ View!ResponseSlotExclusive
  <2>1. RequestOnce /\ ResponseOnce
    BY <1>1 DEF LifeIInv, SegmentKept, PermitsOnce
  <2>2. \A c \in Clients : /\ View!ClientInRequestSlot(c) <=> InRequestSlot(c)
                           /\ View!ClientInResponseSlot(c) <=> InResponseSlot(c)
    BY DEF View!ClientInRequestSlot, View!ClientInResponseSlot, InRequestSlot,
       InResponseSlot, At
  <2>3. /\ View!ServerInRequestSlot <=> ServerInRequestSlot
        /\ View!ServerInResponseSlot <=> ServerInResponseSlot
    BY DEF View!ServerInRequestSlot, View!ServerInResponseSlot, ServerInRequestSlot,
       ServerInResponseSlot
  <2>4. View!RequestSlotExclusive
    BY <2>1, <2>2, <2>3 DEF View!RequestSlotExclusive, RequestOnce
  <2>5. View!ResponseSlotExclusive
    BY <2>1, <2>2, <2>3 DEF View!ResponseSlotExclusive, ResponseOnce
  <2> QED
    BY <2>4, <2>5
<1>2. LifeIInv => SlotsExclusive
  BY <1>1 DEF SlotsExclusive
<1> QED
  BY <1>2, LifeInvariance, PTL

\* A process that dies between its requests, and a server that dies with nothing to do,
\* take no permit along; and a server that starts when no client is inside a request
\* makes good whatever permit was lost.
THEOREM PermitsComeBack == LifeSpec => []PermitsRestored
<1>1. ASSUME LifeIInv, inited = Len(InitOrder), ~disturbed, ~broken
      PROVE  View!NoPermitLost
  <2>1. RequestOnce /\ ResponseOnce /\ RequestSomewhere /\ ResponseSomewhere
    BY <1>1 DEF LifeIInv, SegmentKept, PermitsOnce, PermitsThere
  <2>2. sem \in [ShmSems -> Nat]
    BY <1>1 DEF LifeIInv, LifeTypeOK, ShmTypeOK
  <2>3. /\ \/ sem["req_space_available"] = 1 \/ sem["req_available"] = 1
           \/ ServerInRequestSlot \/ \E c \in Clients : InRequestSlot(c)
        /\ \/ sem["res_space_available"] = 1 \/ sem["res_available"] = 1
           \/ ServerInResponseSlot \/ \E c \in Clients : InResponseSlot(c)
    BY <2>1, <2>2 DEF RequestOnce, ResponseOnce, RequestSomewhere, ResponseSomewhere,
       RequestFree, ResponseFree, ShmSems
  <2>4. \A c \in Clients : /\ View!ClientInRequestSlot(c) <=> InRequestSlot(c)
                           /\ View!ClientInResponseSlot(c) <=> InResponseSlot(c)
    BY DEF View!ClientInRequestSlot, View!ClientInResponseSlot, InRequestSlot,
       InResponseSlot, At
  <2>5. /\ \/ qsem["req_queue_lock"] = 1
           \/ EnqInRequestQueue \/ \E w \in Workers : WorkerInRequestQueue(w)
        /\ \/ qsem["res_queue_lock"] = 1
           \/ DeqInResponseQueue \/ \E w \in Workers : WorkerInResponseQueue(w)
    BY <1>1 DEF LifeIInv, QueuesKept, RequestQueueLock, ResponseQueueLock
  <2> QED
    BY <2>3, <2>4, <2>5 DEF View!NoPermitLost, View!ServerInRequestSlot,
       View!ServerInResponseSlot, ServerInRequestSlot, ServerInResponseSlot,
       View!EnqInRequestQueue, View!WorkerInRequestQueue, View!DeqInResponseQueue,
       View!WorkerInResponseQueue, EnqInRequestQueue, WorkerInRequestQueue,
       DeqInResponseQueue, WorkerInResponseQueue
<1>2. LifeIInv => PermitsRestored
  BY <1>1 DEF PermitsRestored
<1> QED
  BY <1>2, LifeInvariance, PTL

\* Whoever is killed, a process that ends by itself ends after its threads: in the
\* segment, in one that lost its name, and with threads that never return from a second
\* SIGINT.
THEOREM LifeExitsAfterThreads == LifeSpec => []ExitsOnlyWhenThreadsLeft
<1>1. LifeIInv => ExitsOnlyWhenThreadsLeft
  BY DEF LifeIInv, ExitTickets, ExitsOnlyWhenThreadsLeft, Gone, Exited, Threads
<1> QED
  BY <1>1, LifeInvariance, PTL
=============================================================================
