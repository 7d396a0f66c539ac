---------------------------- MODULE LockedSystem ----------------------------
(***************************************************************************)
(* The pairs of programs of trial/ together.  Each of them tries another   *)
(* answer to the same questions: are the buffer locks needed (the TODO of  *)
(* client2.cpp to client5.cpp), what may a thread that gives up keep, and  *)
(* how does a process end while its threads wait for another one.          *)
(***************************************************************************)
EXTENDS TimedSystem, LockedClient, LockedServer

lockedVars == <<timedVars, lockVars>>

LockedInit == TimedInit /\ BufferLocksInit

LockedNext ==
  \/ LockedClientNext /\ UNCHANGED timedServerVars
  \/ LockedServerNext /\ UNCHANGED clientVars

LockedSpec == LockedInit /\ [][LockedNext]_lockedVars

\* Every thread that can run runs.  A thread of the clients 1, 3 and 5 whose deadline
\* res_ts is past gives up the next time it is at the top of its inner loop: time
\* passes, so a thread that is there again and again does give up.
LockedFairness ==
  /\ \A c \in Clients :
       /\ WF_lockedVars(LockedThreadStep(c) /\ UNCHANGED timedServerVars)
       /\ SF_lockedVars(/\ trial \in {1, 3, 5} /\ GiveUpResponse(c)
                        /\ NoLock /\ UNCHANGED timedServerVars)
  /\ \A p \in Procs : WF_lockedVars(LockedMainStep(p) /\ UNCHANGED timedServerVars)
  /\ WF_lockedVars(LockedRequestThreadStep /\ UNCHANGED clientVars)
  /\ \A w \in Workers : WF_lockedVars(LockedWorkerStep(w) /\ UNCHANGED clientVars)
  /\ WF_lockedVars(LockedResponseThreadStep /\ UNCHANGED clientVars)
  /\ WF_lockedVars(LockedServerMainStep /\ UNCHANGED clientVars)

LockedFairSpec == LockedSpec /\ LockedFairness

LockedTypeOK ==
  /\ ShmTypeOK /\ LockedClientTypeOK /\ LockedServerTypeOK
  /\ trial \in 1 .. 5
  /\ bsem \in [{"req_buffer_lock", "res_buffer_lock"} -> Nat]
  /\ qsem \in [QueueSems -> Nat]

-----------------------------------------------------------------------------
(* Who has a permit of a slot in hand.                                     *)

HasRequestPermit(c) ==
  cpc[c] \in {"lock_request", "write", "unlock_request", "post", "return_space"}
HasResponsePermit(c) ==
  cpc[c] \in {"lock_response", "check", "found", "unlock_other", "repost",
              "unlock_mine", "release", "return_permit"}

ServerHasRequestPermit  == epc \in {"lock_buffer", "copy", "unlock_buffer", "release"}
ServerHasResponsePermit ==
  rpc \in {"lock_buffer", "write", "unlock_buffer", "post", "return_space"}

RequestPermits ==
  sem["req_available"] + sem["req_space_available"]
    + Cardinality({c \in Clients : HasRequestPermit(c)})
    + One(ServerHasRequestPermit)

ResponsePermits ==
  sem["res_available"] + sem["res_space_available"]
    + Cardinality({c \in Clients : HasResponsePermit(c)})
    + One(ServerHasResponsePermit)

\* No process has ended with threads of its own at work.
NobodyCutOff ==
  /\ trial \in {2, 4, 5} => spc # "finished"
  /\ trial = 2 => \A p \in Procs : mpc[p] # "finished"

-----------------------------------------------------------------------------
(* Safety.                                                                 *)

\* Whatever waits fail and whatever is given up, no pair of programs ever has two
\* permits for the request slot, so never two threads in it; and none of them
\* loses the one there is, unless a process is cut off.
RequestPermitKept ==
  /\ RequestPermits <= 1
  /\ NobodyCutOff => RequestPermits = 1

\* The permit of the response slot: the timed pair and pair 2 write without it,
\* and multiply it; pairs 3 and 4 may lose it, and never have two; pair 5, which
\* gives everything back, keeps exactly one.
ResponsePermitKept ==
  /\ trial \in {1, 2} /\ NobodyCutOff => ResponsePermits >= 1
  /\ trial \in {3, 4, 5} => ResponsePermits <= 1
  /\ trial = 5 /\ NobodyCutOff => ResponsePermits = 1

\* "TODO: Do we need req_buffer_lock": in pairs 2 and 3 a thread that has the permit
\* of the request slot finds its lock free, always.  The lock excludes nobody whom
\* the permit does not exclude, and the branches of client3 and server3 that lose
\* a permit for want of it are never taken.
RequestLockFree ==
  /\ trial \in {2, 3}
  /\ epc = "lock_buffer" \/ \E c \in Clients : cpc[c] = "lock_request"
  => bsem["req_buffer_lock"] = 1

\* Who has a ticket for an element in hand.
RequestTicketHolders == {w \in Workers : wpc[w] \in {"lock", "pop", "give_back"}}
HoldsResultTicket    == rpc \in {"lock", "pop", "give_back"}

RequestTicketsOut ==
  qsem["req_queue_size"] + Cardinality(RequestTicketHolders) + One(RequestUnannounced)
ResultTicketsOut ==
  qsem["res_queue_size"] + Cardinality(ResponseUnannounced) + One(HoldsResultTicket)

\* A ticket taken in vain is given back, or was never taken, in all servers but
\* server3: each element of a queue has its ticket in the size semaphore, with a
\* thread, or still to be posted.  In server3 there are never more tickets than
\* elements.
TicketsCounted ==
  /\ RequestTicketsOut <= Len(requestQueue) /\ ResultTicketsOut <= Len(responseQueue)
  /\ trial # 3 /\ NobodyCutOff =>
       /\ RequestTicketsOut = Len(requestQueue)
       /\ ResultTicketsOut = Len(responseQueue)
=============================================================================
