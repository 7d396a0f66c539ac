----------------------------- MODULE Lifecycle -----------------------------
(***************************************************************************)
(* The processes of module System as they come and go: the server's main   *)
(* step by step (server.cpp), a server that is killed or gets SIGINT and   *)
(* is started again, client processes that start at any moment, are killed *)
(* (the experiment scripts end both programs with timeout), or get SIGINT  *)
(* a second time.                                                          *)
(*                                                                         *)
(* The segment outlives the processes.  A server that finds its name       *)
(* sets up the semaphores of the old segment again, under whatever clients *)
(* are attached to it.  A server that gets SIGINT takes the name away: the *)
(* clients keep the segment, and the next server makes another one.        *)
(***************************************************************************)
EXTENDS System

CONSTANTS
  MaxLaunches,  \* bound: how often a client process is started
  MaxSignals    \* bound: how many signals (SIGINT, SIGTERM, SIGKILL) are sent

ASSUME LifecycleAssumption == MaxLaunches \in Nat /\ MaxSignals \in Nat

VARIABLES
  sup,      \* where main of the server is
  inited,   \* how many semaphores of the segment it has set up
  linked,   \* the name of the segment exists
  sized,    \* ftruncate has given the segment its size
  fresh,    \* the segment was made by the server that runs
  where,    \* what each client process has mapped: the segment or an orphan
  orequest, oresponse, osem,  \* the orphan: the segment that lost its name
  interrupted   \* the request threads that got the second SIGINT

\* History of what may excuse the system, and the counters for the bounds.
VARIABLES
  unrest,     \* a client was inside its request since the server began to set up
  disturbed,  \* semaphores were set up under a client inside its request
  broken,     \* a process died with a permit or a request in its hands
  asleep,     \* the threads that were in a sem_wait during a sem_init
  launches, signals

orphanVars    == <<orequest, oresponse, osem>>
segmentVars   == <<linked, sized, fresh>>
bootVars      == <<sup, inited, segmentVars>>
historyVars   == <<unrest, disturbed, broken, asleep>>
counterVars   == <<launches, signals>>
lifeVars == <<vars, bootVars, where, orphanVars, interrupted, historyVars, counterVars>>

Attached(p) == where[p] = "segment" /\ ~Gone(p)

\* The system as the clients that are attached to the segment make it.
View == INSTANCE System WITH
  cpc <- [c \in Clients |-> IF Attached(Home[c]) THEN cpc[c] ELSE "unborn"]

ZeroSems == [n \in ShmSems |-> 0]

LifeInit ==
  /\ request = ZeroRequest /\ response = ZeroResponse /\ sem = ZeroSems
  /\ orequest = ZeroRequest /\ oresponse = ZeroResponse /\ osem = ZeroSems
  /\ ClientInit /\ ServerInit
  /\ sup = "down" /\ inited = 0
  /\ linked = FALSE /\ sized = FALSE /\ fresh = FALSE
  /\ where = [p \in Procs |-> "none"]
  /\ interrupted = {}
  /\ unrest = FALSE /\ disturbed = FALSE /\ broken = FALSE /\ asleep = {}
  /\ launches = 0 /\ signals = 0

\* A signal is sent to a process.
Signal == signals < MaxSignals /\ signals' = signals + 1

-----------------------------------------------------------------------------
(* The main thread of the server: main and, on SIGINT, cleanup.            *)

\* shm_open with O_CREAT: the segment of an earlier server, or an empty one.
Boot ==
  /\ sup = "down"
  /\ sup' = "opened"
  /\ linked' = TRUE
  /\ fresh' = ~linked
  /\ UNCHANGED <<vars, inited, sized, where, orphanVars, interrupted,
                 historyVars, counterVars>>

\* ftruncate and mmap.
Size ==
  /\ sup = "opened"
  /\ sup' = "sized" /\ sized' = TRUE /\ inited' = 0
  /\ unrest' = FALSE
  /\ UNCHANGED <<vars, linked, fresh, where, orphanVars, interrupted,
                 disturbed, broken, asleep, counterVars>>

\* Mutant: the space is announced before the semaphore of the request is set.
SpaceFirst ==
  <<"req_space_available", "req_available", "res_available", "res_space_available">>

InitOrder ==
  <<"req_available", "req_space_available", "res_available", "res_space_available">>

\* Thread c is in, or about to enter, the wait for the semaphore name.
Waiting(c, name) ==
  \/ cpc[c] = "wait_space" /\ name = "req_space_available"
  \/ cpc[c] = "wait_response" /\ name = "res_available"

\* What becomes of the history when the semaphore name is set up.  In an old segment
\* the clients must keep still from the first sem_init to the last: if they do, all
\* that was lost or disturbed before is made good.
NoteInit(name) ==
  LET attached == {c \in Clients : Attached(Home[c])}
      restless == unrest \/ (~fresh /\ \E c \in attached : Busy(c))
      restored == ~fresh /\ ~restless /\ inited + 1 = Len(InitOrder) IN
  /\ unrest' = restless
  /\ disturbed' = (~restored /\ (disturbed \/ restless))
  /\ broken' = (~restored /\ broken)
  /\ asleep' = asleep \cup {c \in attached : Waiting(c, name)}

\* Mutant: the semaphores of a segment that exists already are left alone.
InitSemOfFresh ==
  /\ sup = "sized" /\ inited < Len(InitOrder)
  /\ LET name == InitOrder[inited + 1] IN
       /\ sem' = IF fresh
                   THEN [sem EXCEPT ![name] =
                           IF name \in {"req_space_available", "res_space_available"}
                             THEN 1 ELSE 0]
                   ELSE sem
       /\ NoteInit(name)
  /\ inited' = inited + 1
  /\ UNCHANGED <<request, response, clientVars, serverVars, sup, segmentVars, where,
                 orphanVars, interrupted, counterVars>>

\* One sem_init of main.
InitSem ==
  /\ sup = "sized" /\ inited < Len(InitOrder)
  /\ LET name == InitOrder[inited + 1] IN
       /\ sem' = [sem EXCEPT ![name] =
                    IF name \in {"req_space_available", "res_space_available"}
                      THEN 1 ELSE 0]
       /\ NoteInit(name)
  /\ inited' = inited + 1
  /\ UNCHANGED <<request, response, clientVars, serverVars, sup, segmentVars, where,
                 orphanVars, interrupted, counterVars>>

\* The private semaphores are set up and the threads are started.
StartThreads ==
  /\ sup = "sized" /\ inited = Len(InitOrder)
  /\ sup' = "up"
  /\ UNCHANGED <<vars, inited, segmentVars, where, orphanVars, interrupted,
                 historyVars, counterVars>>

\* Something of a request is in the memory of the server.
ServerHolds ==
  \/ epc # "wait" \/ rpc # "wait" \/ \E w \in Workers : wpc[w] # "wait"
  \/ requestQueue # <<>> \/ responseQueue # <<>>

\* The process is gone, and everything in its memory with it.
ServerDies ==
  /\ sup' = "down"
  /\ requestQueue' = <<>> /\ responseQueue' = <<>>
  /\ qsem' = [n \in QueueSems |->
                IF n \in {"req_queue_lock", "res_queue_lock"} THEN 1 ELSE 0]
  /\ epc' = "wait" /\ ereq' = ZeroRequest
  /\ wpc' = [w \in Workers |-> "wait"]
  /\ wreq' = [w \in Workers |-> ZeroRequest]
  /\ wres' = [w \in Workers |-> ZeroResponse]
  /\ rpc' = "wait" /\ rres' = ZeroResponse
  /\ store' = [v \in Values |-> 0]

\* SIGTERM or SIGKILL, or SIGINT before the handler is installed.
KillServer ==
  /\ sup # "down"
  /\ Signal
  /\ ServerDies
  /\ broken' = (broken \/ ServerHolds)
  /\ UNCHANGED <<shmVars, clientVars, inited, segmentVars, where, orphanVars,
                 interrupted, unrest, disturbed, asleep, launches>>

\* cleanup: munmap.  The other threads go on.  Bound: one orphan at a time.
Unmap ==
  /\ sup = "up"
  /\ Signal
  /\ \A p \in Procs : where[p] = "orphan" => Gone(p)
  /\ sup' = "unmapped"
  /\ UNCHANGED <<vars, inited, segmentVars, where, orphanVars, interrupted,
                 historyVars, launches>>

\* A thread that is not asleep in a wait reaches the segment before cleanup
\* reaches shm_unlink: the process dies of SIGSEGV, and the name stays.
Fault ==
  /\ sup = "unmapped" /\ ServerHolds
  /\ ServerDies
  /\ broken' = TRUE
  /\ UNCHANGED <<shmVars, clientVars, inited, segmentVars, where, orphanVars,
                 interrupted, unrest, disturbed, asleep, counterVars>>

\* shm_unlink, and exit.  Who has the segment mapped keeps it; what the name
\* will stand for next is empty.
Unlink ==
  /\ sup = "unmapped"
  /\ ServerDies
  /\ linked' = FALSE /\ sized' = FALSE /\ fresh' = FALSE /\ inited' = 0
  /\ where' = [p \in Procs |-> IF Attached(p) THEN "orphan" ELSE "none"]
  /\ orequest' = request /\ oresponse' = response /\ osem' = sem
  /\ request' = ZeroRequest /\ response' = ZeroResponse /\ sem' = ZeroSems
  /\ disturbed' = FALSE /\ broken' = FALSE
  /\ UNCHANGED <<clientVars, interrupted, unrest, asleep, counterVars>>

-----------------------------------------------------------------------------
(* The client processes.                                                   *)

\* A post wakes one waiter.  When the threads gone never return from the wait, the
\* post that woke one of them has woken nobody else.
WokenInVain(gone) ==
  {c \in Clients \ gone : \E d \in gone, name \in {"req_space_available", "res_available"} :
     Waiting(c, name) /\ Waiting(d, name) /\ sem[name] > 0}

\* The memory of process p as a new process finds it.
Blank(p) ==
  LET mine(c) == Home[c] = p IN
  /\ cpc' = [c \in Clients |-> IF mine(c) THEN "unborn" ELSE cpc[c]]
  /\ creq' = [c \in Clients |-> IF mine(c) THEN ZeroRequest ELSE creq[c]]
  /\ num_requests' = [c \in Clients |-> IF mine(c) THEN 0 ELSE num_requests[c]]
  /\ running' = [running EXCEPT ![p] = TRUE]
  /\ threads_safe_exit' = [threads_safe_exit EXCEPT ![p] = 0]
  /\ mpc' = [mpc EXCEPT ![p] = "spawning"]
  /\ drained' = [drained EXCEPT ![p] = 0]
  /\ joinable' = [joinable EXCEPT ![p] = FALSE]
  /\ interrupted' = interrupted \ Threads(p)
  /\ asleep' = (asleep \ Threads(p)) \cup WokenInVain(Threads(p))

\* Mutant: the client sets up the semaphore of the free slot as well.
LaunchAndInit(p) ==
  /\ where[p] = "none" \/ Gone(p)
  /\ linked /\ launches < MaxLaunches
  /\ launches' = launches + 1
  /\ where' = [where EXCEPT ![p] = "segment"]
  /\ Blank(p)
  /\ sem' = [sem EXCEPT !["req_space_available"] = 1]
  /\ UNCHANGED <<request, response, serverVars, bootVars, orphanVars, unrest, disturbed, broken,
                 signals>>

\* main, up to the first thread.  When there is no segment shm_open fails and
\* the program ends, which changes nothing.
Launch(p) ==
  /\ where[p] = "none" \/ Gone(p)
  /\ linked /\ launches < MaxLaunches
  /\ launches' = launches + 1
  /\ where' = [where EXCEPT ![p] = "segment"]
  /\ Blank(p)
  /\ UNCHANGED <<shmVars, serverVars, bootVars, orphanVars, unrest, disturbed, broken,
                 signals>>

\* A request id does not repeat that of anything still on its way.
OnTheWay ==
  UNION {
    Here(request.requestid, RequestSlotFull), Here(response.requestid, ResponseSlotFull),
    Here(oresponse.requestid, osem["res_available"] > 0),
    {ereq.requestid, rres.requestid},
    {wreq[w].requestid : w \in Workers}, {wres[w].requestid : w \in Workers},
    {requestQueue[i].requestid : i \in DOMAIN requestQueue},
    {responseQueue[i].requestid : i \in DOMAIN responseQueue} }

FreshDraw(c) ==
  cpc[c] = "create" /\ Busy(c)' => creq'[c].requestid \notin OnTheWay

\* A step of a request thread.  In a segment without a size there is nothing to
\* wait for (see BusError).
ThreadActs(c) ==
  /\ Attached(Home[c]) /\ c \notin interrupted
  /\ sized \/ ~Busy(c)
  /\ ThreadStep(c)
  /\ FreshDraw(c)
  /\ asleep' = asleep \ {c}
  /\ UNCHANGED <<serverVars, bootVars, where, orphanVars, interrupted,
                 unrest, disturbed, broken, counterVars>>

\* The same in the segment that has lost its name.
Orphan == INSTANCE Client WITH
  request <- orequest, response <- oresponse, sem <- osem

OrphanActs(c) ==
  /\ where[Home[c]] = "orphan" /\ ~Gone(Home[c]) /\ c \notin interrupted
  /\ Orphan!ThreadStep(c)
  /\ FreshDraw(c)
  /\ asleep' = asleep \ {c}
  /\ UNCHANGED <<shmVars, serverVars, bootVars, where, interrupted,
                 unrest, disturbed, broken, counterVars>>

\* The main thread, and the first SIGINT.
MainActs(p) ==
  /\ where[p] # "none"
  /\ MainStep(p)
  /\ UNCHANGED <<serverVars, bootVars, where, orphanVars, interrupted, historyVars,
                 counterVars>>

FirstSigint(p) ==
  /\ where[p] # "none"
  /\ Signal
  /\ Sigint(p)
  /\ UNCHANGED <<serverVars, bootVars, where, orphanVars, interrupted, historyVars,
                 launches>>

\* Mutant: the handler that finds running down already exits at once.
SecondSigintExits(c) ==
  /\ where[Home[c]] # "none" /\ mpc[Home[c]] = "draining"
  /\ cpc[c] \notin {"unborn", "exited"} /\ c \notin interrupted
  /\ Signal
  /\ mpc' = [mpc EXCEPT ![Home[c]] = "aborted"]
  /\ UNCHANGED <<shmVars, serverVars, threadVars, running, threads_safe_exit, drained,
                 joinable, bootVars, where, orphanVars, interrupted, historyVars, launches>>

\* While main is in the handler its SIGINT is blocked: the next one goes to a
\* request thread, which never comes back from the handler: it waits for a post of
\* every thread, its own among them.  (The posts of others that it takes are not
\* modelled: main, which waits for as many, is not to exit even with them.)
SecondSigint(c) ==
  /\ where[Home[c]] # "none" /\ mpc[Home[c]] = "draining"
  /\ cpc[c] \notin {"unborn", "exited"} /\ c \notin interrupted
  /\ Signal
  /\ interrupted' = interrupted \cup {c}
  /\ asleep' = (asleep \ {c}) \cup WokenInVain({c})
  /\ UNCHANGED <<vars, bootVars, where, orphanVars, unrest, disturbed, broken, launches>>

ClientDies(p) ==
  /\ where' = [where EXCEPT ![p] = "none"]
  /\ Blank(p)
  /\ UNCHANGED <<shmVars, serverVars, bootVars, orphanVars, disturbed, launches>>

\* SIGTERM or SIGKILL.
KillClient(p) ==
  /\ where[p] # "none" /\ ~Gone(p)
  /\ Signal
  /\ ClientDies(p)
  /\ LET loses == /\ where[p] = "segment"
                  /\ \E c \in Threads(p) : Busy(c) /\ cpc[c] # "wait_space" IN
       /\ broken' = (broken \/ loses)
       /\ unrest' = (unrest \/ (loses /\ ~fresh))

\* A thread touches the segment before ftruncate: SIGBUS.
BusError(p) ==
  /\ Attached(p) /\ ~sized
  /\ \E c \in Threads(p) : Busy(c)
  /\ ClientDies(p)
  /\ UNCHANGED <<unrest, broken, signals>>

-----------------------------------------------------------------------------
ServerActs ==
  /\ sup = "up"
  /\ ServerNext
  /\ UNCHANGED <<clientVars, bootVars, where, orphanVars, interrupted, historyVars,
                 counterVars>>

ServerMain == Size \/ InitSem \/ StartThreads \/ Fault \/ Unlink

LifeNext ==
  \/ Boot \/ ServerMain \/ KillServer \/ Unmap
  \/ ServerActs
  \/ \E p \in Procs :
       Launch(p) \/ MainActs(p) \/ FirstSigint(p) \/ KillClient(p) \/ BusError(p)
  \/ \E c \in Clients :
       ThreadActs(c) \/ OrphanActs(c) \/ SecondSigint(c)

LifeSpec == LifeInit /\ [][LifeNext]_lifeVars

\* Every thread that can run runs, and a server that was started goes on to set up
\* the segment.  (That is enough for client processes of one thread, of which no two
\* run at once.)  Whether a server or a client is started or gets a signal is
\* nobody's duty, and a thread that slept through a sem_init owes nothing.
LifeFairness ==
  /\ WF_lifeVars(ServerMain)
  /\ WF_lifeVars(ServerActs /\ RequestThreadStep)
  /\ \A w \in Workers : WF_lifeVars(ServerActs /\ WorkerStep(w))
  /\ WF_lifeVars(ServerActs /\ ResponseThreadStep)
  /\ \A p \in Procs : WF_lifeVars(MainActs(p))
  /\ \A c \in Clients : WF_lifeVars(c \notin asleep /\ ThreadActs(c))

LifeFairSpec == LifeSpec /\ LifeFairness

-----------------------------------------------------------------------------
(* Safety.  View applies what module System says of the slots, the permits *)
(* and the copies of a request to the clients attached to the segment.     *)

LifeTypeOK ==
  /\ ShmTypeOK /\ ClientTypeOK /\ ServerTypeOK
  /\ sup \in {"down", "opened", "sized", "up", "unmapped"}
  /\ inited \in 0 .. Len(InitOrder)
  /\ {linked, sized, fresh, unrest, disturbed, broken} \subseteq BOOLEAN
  /\ where \in [Procs -> {"none", "segment", "orphan"}]
  /\ orequest \in Requests \cup {ZeroRequest}
  /\ oresponse \in Responses \cup {ZeroResponse}
  /\ osem \in [ShmSems -> Nat]
  /\ interrupted \subseteq Clients /\ asleep \subseteq Clients

\* Whoever dies, and whoever is started again, neither slot is ever in two hands,
\* unless a server set up the semaphores under a client inside its request.
SlotsExclusive ==
  ~disturbed => View!RequestSlotExclusive /\ View!ResponseSlotExclusive

\* With the same exception no request is ever duplicated, so the server never
\* applies one twice; and it is lost only when a process dies with something in its
\* hands.  A client that starts before the semaphores are set up loses nothing:
\* main sets up req_available before req_space_available.
RequestsKept ==
  ~disturbed => \A c \in Clients : View!Busy(c) =>
    Cardinality(View!RequestPlaces(c)) + Cardinality(View!ResponsesTo(c))
      \in (IF broken THEN {0, 1} ELSE {1})

\* A process that dies between its requests, and a server that dies with nothing to
\* do, take no permit along.  A server that starts when no client is inside a
\* request makes good whatever permit was lost before.
PermitsRestored ==
  (inited = Len(InitOrder) /\ ~disturbed /\ ~broken) => View!NoPermitLost

-----------------------------------------------------------------------------
(* Liveness, from the moment nothing dies any more.                        *)

Whole ==
  /\ sup = "up" /\ ~disturbed /\ ~broken
  /\ \A c \in Clients : Attached(Home[c]) =>
       c \notin asleep /\ (c \in interrupted => ~Busy(c))

\* Whatever died before: if a server is up that started with no client inside a
\* request, and nothing dies any more, then every request is answered.
ServedOnceWhole ==
  \A c \in Clients :
    <>[](Whole /\ Attached(Home[c]) /\ c \notin interrupted) => []<>~Busy(c)

\* Then a process that gets one SIGINT after its threads are born ends, too.
SigintEndsOnceWhole ==
  \A p \in Procs :
    ~<>[](/\ Whole /\ Attached(p) /\ mpc[p] = "draining"
          /\ \A c \in Threads(p) : cpc[c] # "unborn" /\ c \notin interrupted)
=============================================================================
