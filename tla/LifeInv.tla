------------------------------ MODULE LifeInv -------------------------------
(***************************************************************************)
(* The inductive invariant of module Lifecycle.  What module SystemInv     *)
(* says of a permit, that it is always in one place, is here true of some  *)
(* states only: a permit may die with a process, a server may set up a     *)
(* semaphore under those who use it, and while it sets up a segment the    *)
(* permits appear one after the other.                                     *)
(***************************************************************************)
EXTENDS Lifecycle, SystemInv

\* Thread c belongs to a client that is attached to the segment, and is at one of
\* the labels.
At(c, labels) == Attached(Home[c]) /\ cpc[c] \in labels

InRequestSlot(c)  == At(c, {"write", "post"})
InResponseSlot(c) == At(c, {"check", "repost", "release"})

RequestFree  == sem["req_available"] + sem["req_space_available"]
ResponseFree == sem["res_available"] + sem["res_space_available"]

\* There are never two permits of a slot.
RequestOnce ==
  /\ RequestFree <= 1
  /\ RequestFree = 1 => ~ServerInRequestSlot /\ \A c \in Clients : ~InRequestSlot(c)
  /\ ServerInRequestSlot => \A c \in Clients : ~InRequestSlot(c)
  /\ \A c, d \in Clients : InRequestSlot(c) /\ InRequestSlot(d) => c = d

ResponseOnce ==
  /\ ResponseFree <= 1
  /\ ResponseFree = 1 => ~ServerInResponseSlot /\ \A c \in Clients : ~InResponseSlot(c)
  /\ ServerInResponseSlot => \A c \in Clients : ~InResponseSlot(c)
  /\ \A c, d \in Clients : InResponseSlot(c) /\ InResponseSlot(d) => c = d

\* The permit of a slot is there.
RequestSomewhere ==
  \/ RequestFree >= 1 \/ ServerInRequestSlot
  \/ \E c \in Clients : InRequestSlot(c)

ResponseSomewhere ==
  \/ ResponseFree >= 1 \/ ServerInResponseSlot
  \/ \E c \in Clients : InResponseSlot(c)

PermitsOnce == ~disturbed => RequestOnce /\ ResponseOnce

PermitsThere ==
  (inited = Len(InitOrder) /\ ~disturbed /\ ~broken) => RequestSomewhere /\ ResponseSomewhere

-----------------------------------------------------------------------------
(* The segment before and while its semaphores are set up.                 *)

\* An attached client that is inside its request got no further than its first wait.
NobodyPast == \A c \in Clients : ~At(c, BusyLabels \ {"wait_space"})

\* Without a name nobody can have attached to what the name will stand for.
Nameless ==
  ~linked => ~sized /\ sup = "down" /\ ~broken /\ \A p \in Procs : ~Attached(p)

\* Without a size it is all zeros.
Sizeless ==
  ~sized =>
    /\ \A n \in ShmSems : sem[n] = 0
    /\ NobodyPast
    /\ inited = 0 /\ ~disturbed /\ sup \in {"down", "opened"}

\* A new segment gets the permit of the request slot with its second semaphore and
\* that of the response slot with its fourth.
NewSegment ==
  /\ fresh /\ sup = "opened" => ~sized
  /\ fresh /\ sup = "sized" =>
       /\ ~unrest /\ ~disturbed
       /\ inited <= 1 => RequestFree = 0 /\ NobodyPast
       /\ inited >= 2 /\ ~broken => RequestSomewhere
       /\ inited <= 3 => ResponseFree = 0 /\ \A c \in Clients : ~InResponseSlot(c)

\* An old segment is being set up, and no client was inside its request at any
\* sem_init so far.
Restoring == sup = "sized" /\ ~fresh /\ ~unrest

\* Some attached client is in the response slot, or res_available lets one in.
ResponseWaits ==
  sem["res_available"] > 0 \/ \E c \in Clients : InResponseSlot(c)

\* Then a client that made a request between two sem_init cannot get through with
\* it: no server runs, and what an earlier one left in the response slot is for
\* somebody else.  So it is still there at the next sem_init.
NoneGetsThrough ==
  Restoring /\ inited >= 1 =>
    \A c \in Clients :
      /\ ~At(c, {"release"})
      /\ ResponseWaits /\ At(c, BusyLabels) => creq[c].requestid # response.requestid

\* A request in the slot has its client, as long as none dies.
RequestHasClient ==
  Restoring /\ inited >= 1 /\ sem["req_available"] > 0 =>
    \E c \in Clients : At(c, {"wait_response", "check", "repost"})

\* From its second semaphore on the request slot has its permit again.
Restored ==
  /\ Restoring /\ inited >= 2 => RequestOnce /\ RequestSomewhere
  /\ Restoring /\ inited = 3 =>
       sem["res_available"] = 0 /\ \A c \in Clients : ~InResponseSlot(c)

-----------------------------------------------------------------------------
(* The server, and what it reads.                                          *)

\* The threads of the server are born when main is done, and die with it.
ServerIdle == sup \notin {"up", "unmapped"} => ~ServerHolds

\* The request thread copies a request, and not the zeros of a new segment.
RequestFilled ==
  /\ sem["req_available"] > 0 => request \in Requests
  /\ epc = "copy" => request \in Requests
  /\ \A c \in Clients : At(c, {"post"}) => request \in Requests

QueuesKept ==
  RequestQueueLock /\ ResponseQueueLock /\ RequestTickets /\ ResponseTickets

SegmentKept ==
  /\ PermitsOnce /\ PermitsThere
  /\ Nameless /\ Sizeless /\ NewSegment
  /\ NoneGetsThrough /\ RequestHasClient /\ Restored

LifeIInv ==
  /\ LifeTypeOK
  /\ QueuesKept /\ ExitTickets
  /\ ServerIdle /\ RequestFilled
  /\ SegmentKept

-----------------------------------------------------------------------------
(* The copies of requests and responses, when ids do not collide.          *)

\* The threads as the segment sees them: those of the clients attached to it.
seen == [c \in Clients |-> IF Attached(Home[c]) THEN cpc[c] ELSE "unborn"]

Seen == INSTANCE SystemInv WITH cpc <- seen

\* There is at most one copy of each request, and a client that is about to free the
\* response slot has its own response in it.  Only a process that dies leaves a client
\* without a copy.  Copies that nobody waits for may be there, which is why a new id
\* has to differ from theirs.
CopiesKept ==
  ~disturbed =>
    /\ Seen!OneCopyOfEach
    /\ \A c \in Clients : At(c, {"release"}) => response.requestid = creq[c].requestid
    /\ ~broken => Seen!ClientsServed

\* Ids stay distinct, and with them the copies are kept: no start, kill or interrupt of
\* a process brings a second copy of a request or of a response.
LifeCopyInv == DistinctIds /\ CopiesKept
=============================================================================
