---------------------------- MODULE LockedClient ---------------------------
(***************************************************************************)
(* The clients with buffer locks (trial/client2.cpp to client5.cpp).  Each *)
(* of them is one relation, ClientNStep, of the steps below and of those   *)
(* of modules Client and TimedClient that it shares.                       *)
(*                                                                         *)
(* The deadline req_ts of client3.cpp is complete: a wait for it fails     *)
(* only when the semaphore is zero.  Of all other deadlines tv_sec alone   *)
(* is set, and a wait for them may fail at any moment (module TimedClient).*)
(***************************************************************************)
EXTENDS TimedClient, BufferLocks

\* A step of thread c that touches its label and nothing else but the locks.
Walk(c, here, there) ==
  /\ Goto(c, here, there)
  /\ UNCHANGED <<shmVars, creq, num_requests, processVars>>

-----------------------------------------------------------------------------
(* Sending: the free slot, then its lock.                                  *)

\* Mutant: the lock is taken before there is space.
LockRequestEarly(c) ==
  /\ Goto(c, "wait_space", "lock_request")
  /\ UNCHANGED <<shmVars, creq, num_requests, processVars>> /\ NoLock

TakeSpace(c) ==
  /\ Goto(c, "wait_space", "lock_request")
  /\ SemWait(sem, "req_space_available")
  /\ UNCHANGED <<request, response, creq, num_requests, processVars>> /\ NoLock

LockRequest(c) == Walk(c, "lock_request", "write") /\ Lock("req_buffer_lock")

WriteLocked(c) ==
  /\ Goto(c, "write", "unlock_request")
  /\ request' = creq[c]
  /\ UNCHANGED <<response, sem, creq, num_requests, processVars>> /\ NoLock

UnlockRequest(c) == Walk(c, "unlock_request", "post") /\ Unlock("req_buffer_lock")

SendLocked(c) ==
  \/ DrawRequest(c) /\ NoLock
  \/ TakeSpace(c) \/ LockRequest(c) \/ WriteLocked(c) \/ UnlockRequest(c)
  \/ PostRequest(c) /\ NoLock

\* client3: either wait may miss, and the second then keeps what the first got.
MissSpaceOrLock(c) ==
  /\ \/ cpc[c] = "wait_space" /\ sem["req_space_available"] = 0
     \/ cpc[c] = "lock_request" /\ bsem["req_buffer_lock"] = 0
  /\ Walk(c, cpc[c], "create") /\ NoLock

\* client4, client5: the lock is waited for even when there was no space, and is
\* then not given back; the space is, when there was no lock.
MissSpaceGoOn(c) == Walk(c, "wait_space", "lock_in_vain") /\ NoLock
LockRequestAndForget(c) == Walk(c, "lock_in_vain", "create") /\ Lock("req_buffer_lock")
MissSpaceAndLock(c) == Walk(c, "lock_in_vain", "create") /\ NoLock
MissLockOnly(c) == Walk(c, "lock_request", "return_space") /\ NoLock

\* Mutant: the space is not given back.
KeepSpace(c) == Walk(c, "return_space", "create") /\ NoLock

ReturnSpace(c) ==
  /\ Goto(c, "return_space", "create")
  /\ SemPost(sem, "req_space_available")
  /\ UNCHANGED <<request, response, creq, num_requests, processVars>> /\ NoLock

SendOrReturnSpace(c) ==
  \/ SendLocked(c)
  \/ MissSpaceGoOn(c) \/ LockRequestAndForget(c) \/ MissSpaceAndLock(c)
  \/ MissLockOnly(c) \/ ReturnSpace(c)

-----------------------------------------------------------------------------
(* Receiving: the full slot, then its lock.                                *)

TakePermit(c) ==
  /\ Goto(c, "poll", "lock_response")
  /\ SemWait(sem, "res_available")
  /\ UNCHANGED <<request, response, creq, num_requests, processVars>> /\ NoLock

LockResponse(c) == Walk(c, "lock_response", "check") /\ Lock("res_buffer_lock")

\* A thread leaves the inner loop with the slot and the lock in its hands.
CheckLocked(c) ==
  /\ Walk(c, "check", IF response.requestid = creq[c].requestid
                        THEN "found" ELSE "unlock_other")
  /\ NoLock

UnlockOther(c) == Walk(c, "unlock_other", "repost") /\ Unlock("res_buffer_lock")
KeepFound(c)   == Walk(c, "found", "unlock_mine") /\ NoLock
UnlockMine(c)  == Walk(c, "unlock_mine", "release") /\ Unlock("res_buffer_lock")

ReceiveLocked(c) ==
  \/ PollAgain(c) /\ NoLock
  \/ TakePermit(c) \/ LockResponse(c) \/ CheckLocked(c)
  \/ UnlockOther(c) \/ UnlockMine(c)
  \/ (RepostResponse(c) \/ ReleaseResponse(c)) /\ NoLock

\* client3, client4: running is looked at before the response is released; a
\* thread that is to end keeps both the slot and the lock.
KeepFoundIfRunning(c) == running[Home[c]] /\ KeepFound(c)
AbandonFound(c) ==
  /\ ~running[Home[c]]
  /\ Walk(c, "found", "create") /\ NoLock

\* client3: the lock is missed, and the permit for the full slot is not put back.
LosePermit(c) == Walk(c, "lock_response", "wait_response") /\ NoLock

\* client5: the lock is waited for even when there was no response, and is then
\* not given back; the permit is, when there was no lock.
MissResponseGoOn(c) == Walk(c, "poll", "lock_res_in_vain") /\ NoLock
LockResponseAndForget(c) ==
  Walk(c, "lock_res_in_vain", "wait_response") /\ Lock("res_buffer_lock")
MissResponseAndLock(c) == Walk(c, "lock_res_in_vain", "wait_response") /\ NoLock
MissResponseLock(c) == Walk(c, "lock_response", "return_permit") /\ NoLock

ReturnPermit(c) ==
  /\ Goto(c, "return_permit", "wait_response")
  /\ SemPost(sem, "res_available")
  /\ UNCHANGED <<request, response, creq, num_requests, processVars>> /\ NoLock

-----------------------------------------------------------------------------
(* The four programs.                                                      *)

\* Every wait is untimed, and there is no flag.
Client2Step(c) == SendLocked(c) \/ ReceiveLocked(c) \/ KeepFound(c)

Client3Step(c) ==
  \/ SendLocked(c) \/ MissSpaceOrLock(c)
  \/ ReceiveLocked(c)
  \/ (MissResponse(c) \/ GiveUpResponse(c)) /\ NoLock
  \/ LosePermit(c) \/ KeepFoundIfRunning(c) \/ AbandonFound(c)
  \/ LeaveLoop(c) /\ NoLock

\* The timed waits for the response are commented out: a thread that waits for
\* one does not see that it is to end.
Client4Step(c) ==
  \/ SendOrReturnSpace(c)
  \/ ReceiveLocked(c)
  \/ ~running[Home[c]] /\ GiveUpResponse(c) /\ NoLock
  \/ KeepFoundIfRunning(c) \/ AbandonFound(c)
  \/ LeaveLoop(c) /\ NoLock

\* running is looked at after the response is released.
Client5Step(c) ==
  \/ SendOrReturnSpace(c)
  \/ ReceiveLocked(c)
  \/ GiveUpResponse(c) /\ NoLock
  \/ MissResponseGoOn(c) \/ LockResponseAndForget(c) \/ MissResponseAndLock(c)
  \/ MissResponseLock(c) \/ ReturnPermit(c)
  \/ KeepFound(c)
  \/ LeaveLoop(c) /\ NoLock

\* SIGINT in client2: the handler unmaps the segment and exits, and the threads
\* are gone, wherever they are.
ExitAtOnce(p) ==
  /\ mpc[p] \in {"spawning", "joining"}
  /\ mpc' = [mpc EXCEPT ![p] = "finished"]
  /\ cpc' = [c \in Clients |-> IF Home[c] = p THEN "exited" ELSE cpc[c]]
  /\ UNCHANGED <<shmVars, creq, num_requests, running, threads_safe_exit,
                 drained, joinable>>
  /\ NoLock

LockedThreadStep(c) ==
  \/ trial = 1 /\ TimedThreadStep(c) /\ NoLock
  \/ trial = 2 /\ Client2Step(c)
  \/ trial = 3 /\ Client3Step(c)
  \/ trial = 4 /\ Client4Step(c)
  \/ trial = 5 /\ Client5Step(c)

\* The main threads of client3, client4 and client5 are that of client.cpp.
LockedMainStep(p) ==
  \/ \E c \in Threads(p) : SpawnThread(c) /\ NoLock
  \/ trial # 2 /\ TimedMainStep(p) /\ NoLock

LockedClientNext ==
  \/ \E c \in Clients : LockedThreadStep(c)
  \/ \E p \in Procs :
       \/ LockedMainStep(p)
       \/ trial # 2 /\ Sigint(p) /\ NoLock
       \/ trial = 2 /\ ExitAtOnce(p)

LockedLabels ==
  {"poll", "lock_request", "unlock_request", "lock_in_vain", "return_space",
   "lock_response", "found", "unlock_other", "unlock_mine", "lock_res_in_vain",
   "return_permit"}

LockedClientTypeOK ==
  /\ cpc \in [Clients -> ThreadLabels \cup LockedLabels]
  /\ \A c \in Clients : cpc[c] \notin {"unborn", "create", "exited"} => creq[c] \in Requests
  /\ num_requests \in [Clients -> 0 .. MaxDraws]
  /\ mpc \in [Procs -> MainLabels \ {"aborted"}]
=============================================================================
