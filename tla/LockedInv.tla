----------------------------- MODULE LockedInv ------------------------------
(***************************************************************************)
(* The inductive invariant of the programs of trial/.  It differs from     *)
(* that of module SystemInv in what a wait that fails may do: a permit or  *)
(* a lock may be lost, so most parts say only that there are never two of  *)
(* them; which program keeps the one there is stands apart, as "some-      *)
(* where".                                                                 *)
(***************************************************************************)
EXTENDS LockedSystem

LockTypes ==
  /\ trial \in 1 .. 5
  /\ bsem \in [{"req_buffer_lock", "res_buffer_lock"} -> Nat]

ClientTypes ==
  /\ LockedClientTypeOK
  /\ creq \in [Clients -> Requests \cup {ZeroRequest}]

QueueTypes ==
  /\ requestQueue \in Seq(Requests) /\ responseQueue \in Seq(Responses)
  /\ qsem \in [QueueSems -> Nat]

EnqTypes ==
  /\ epc \in EnqLabels \cup {"unborn", "timed_wait", "lock_buffer", "unlock_buffer", "exited"}
  /\ epc \in EnqHolds \cup {"unlock_buffer"} => ereq \in Requests

WorkTypes ==
  /\ wpc \in [Workers -> WorkLabels \cup
                {"unborn", "ticket", "lock_anyway", "give_back", "exited"}]
  /\ wreq \in [Workers -> Requests \cup {ZeroRequest}]
  /\ wres \in [Workers -> Responses \cup {ZeroResponse}]
  /\ \A w \in Workers : wpc[w] \in WorkHolds => wreq[w] \in Requests
  /\ \A w \in Workers : wpc[w] \in WorkDone => wres[w] \in Responses
  /\ store \in [Values -> Nat]

DeqTypes ==
  /\ rpc \in DeqLabels \cup
       {"unborn", "ticket", "lock_anyway", "give_back", "lock_buffer",
        "unlock_buffer", "lock_in_vain", "return_space", "exited"}
  /\ rpc \in DeqHolds \cup {"lock_buffer", "unlock_buffer", "return_space"} => rres \in Responses

ServerMainTypes ==
  /\ spc \in {"spawning", "joining", "draining", "finished"}
  /\ all_threads_exited \in Nat /\ sdrained \in Nat

ServerTypes == QueueTypes /\ EnqTypes /\ WorkTypes /\ DeqTypes /\ ServerMainTypes

LockedTypes == ShmTypeOK /\ LockTypes /\ ClientTypes /\ ServerTypes

\* What the request thread copies is a request, and not the zeros of a fresh
\* segment.
RequestSlotFilled ==
  /\ sem["req_available"] > 0 => request \in Requests
  /\ epc \in {"lock_buffer", "copy"} => request \in Requests
  /\ \A c \in Clients : cpc[c] \in {"unlock_request", "post"} => request \in Requests

-----------------------------------------------------------------------------
(* The permits of the two slots.                                           *)

RequestPermitFree  == sem["req_available"] + sem["req_space_available"]
ResponsePermitFree == sem["res_available"] + sem["res_space_available"]

RequestPermitOnce ==
  /\ RequestPermitFree <= 1
  /\ RequestPermitFree = 1 =>
       ~ServerHasRequestPermit /\ \A c \in Clients : ~HasRequestPermit(c)
  /\ ServerHasRequestPermit => \A c \in Clients : ~HasRequestPermit(c)
  /\ \A c, d \in Clients : HasRequestPermit(c) /\ HasRequestPermit(d) => c = d

RequestPermitSomewhere ==
  NobodyCutOff =>
    \/ RequestPermitFree >= 1 \/ ServerHasRequestPermit
    \/ \E c \in Clients : HasRequestPermit(c)

ResponsePermitOnce ==
  trial \in {3, 4, 5} =>
    /\ ResponsePermitFree <= 1
    /\ ResponsePermitFree = 1 =>
         ~ServerHasResponsePermit /\ \A c \in Clients : ~HasResponsePermit(c)
    /\ ServerHasResponsePermit => \A c \in Clients : ~HasResponsePermit(c)
    /\ \A c, d \in Clients : HasResponsePermit(c) /\ HasResponsePermit(d) => c = d

ResponsePermitSomewhere ==
  trial \in {1, 2, 5} /\ NobodyCutOff =>
    \/ ResponsePermitFree >= 1 \/ ServerHasResponsePermit
    \/ \E c \in Clients : HasResponsePermit(c)

-----------------------------------------------------------------------------
(* The lock of the request slot, in the pairs 2 and 3.                     *)

\* Between its wait for the lock and its post of it.
ClientHasRequestLock(c) == cpc[c] \in {"write", "unlock_request"}
ServerHasRequestLock    == epc \in {"copy", "unlock_buffer"}

\* The lock is taken by a thread with the permit only, and is free while the
\* permit is anywhere else.
RequestLockFollows ==
  trial \in {2, 3} =>
    /\ bsem["req_buffer_lock"] \in {0, 1}
    /\ (ServerHasRequestLock \/ \E c \in Clients : ClientHasRequestLock(c))
         => bsem["req_buffer_lock"] = 0
    /\ RequestPermitFree = 1 => bsem["req_buffer_lock"] = 1
    /\ ServerHasRequestPermit /\ ~ServerHasRequestLock => bsem["req_buffer_lock"] = 1
    /\ \A c \in Clients :
         HasRequestPermit(c) /\ ~ClientHasRequestLock(c) => bsem["req_buffer_lock"] = 1

-----------------------------------------------------------------------------
(* The server.                                                             *)

\* A lock of a queue is never in two hands; a thread that missed its ticket may
\* have taken it and be gone.
RequestQueueLockOnce ==
  /\ qsem["req_queue_lock"] \in {0, 1}
  /\ qsem["req_queue_lock"] = 1 =>
       ~EnqInRequestQueue /\ \A w \in Workers : ~WorkerInRequestQueue(w)
  /\ EnqInRequestQueue => \A w \in Workers : ~WorkerInRequestQueue(w)
  /\ \A w, u \in Workers : WorkerInRequestQueue(w) /\ WorkerInRequestQueue(u) => w = u

ResponseQueueLockOnce ==
  /\ qsem["res_queue_lock"] \in {0, 1}
  /\ qsem["res_queue_lock"] = 1 =>
       ~DeqInResponseQueue /\ \A w \in Workers : ~WorkerInResponseQueue(w)
  /\ DeqInResponseQueue => \A w \in Workers : ~WorkerInResponseQueue(w)
  /\ \A w, u \in Workers : WorkerInResponseQueue(w) /\ WorkerInResponseQueue(u) => w = u

\* The two halves of TicketsCounted.
RequestTicketsCounted ==
  /\ RequestTicketsOut <= Len(requestQueue)
  /\ trial # 3 /\ NobodyCutOff => RequestTicketsOut = Len(requestQueue)
ResultTicketsCounted ==
  /\ ResultTicketsOut <= Len(responseQueue)
  /\ trial # 3 /\ NobodyCutOff => ResultTicketsOut = Len(responseQueue)

\* The handler of server.cpp and server3 has collected, or can still collect, one
\* post of each thread that has left.
WorkersLeft == {w \in Workers : wpc[w] = "exited"}
ThreadsLeft == Cardinality(WorkersLeft) + One(epc = "exited") + One(rpc = "exited")
ExitsPosted == trial \in {1, 3} => sdrained + all_threads_exited = ThreadsLeft

LockedIInv ==
  /\ LockedTypes /\ RequestSlotFilled
  /\ RequestPermitOnce /\ RequestPermitSomewhere
  /\ ResponsePermitOnce /\ ResponsePermitSomewhere
  /\ RequestLockFollows
  /\ RequestQueueLockOnce /\ ResponseQueueLockOnce
  /\ RequestTicketsCounted /\ ResultTicketsCounted
  /\ ExitsPosted /\ ServerExitsLast
=============================================================================
