---------------------------- MODULE BufferLocks ----------------------------
(***************************************************************************)
(* The numbered programs of trial/ use two more semaphores of the segment, *)
(* req_buffer_lock and res_buffer_lock, one for each slot (datatypes.hpp   *)
(* has both commented out today, so these programs wait for it to have     *)
(* them again).  A slot is then taken in two waits: the semaphore that     *)
(* says it is free, or full, and the lock.                                 *)
(*                                                                         *)
(* The modules LockedClient and LockedServer hold the four clients and the *)
(* three servers.  The variable trial says which pair of them is running;  *)
(* it is chosen once, and never changes:                                   *)
(*   1  client.cpp with server.cpp: TimedClient and TimedServer, no locks; *)
(*   2  client2.cpp with server2.cpp;   3  client3.cpp with server3.cpp;   *)
(*   4  client4.cpp with server5.cpp;   5  client5.cpp with server5.cpp.   *)
(***************************************************************************)
EXTENDS SharedMemory

CONSTANT Trials   \* the pairs a run looks at

ASSUME TrialsAssumption == Trials \subseteq 1 .. 5

VARIABLES
  trial,  \* the pair of programs that is running
  bsem    \* the two buffer locks of the segment, by name

lockVars == <<trial, bsem>>

BufferLocksInit ==
  /\ trial \in Trials
  /\ bsem = [req_buffer_lock |-> 1, res_buffer_lock |-> 1]

Lock(name)   == SemWait(bsem, name) /\ UNCHANGED trial
Unlock(name) == SemPost(bsem, name) /\ UNCHANGED trial
NoLock       == UNCHANGED lockVars
=============================================================================
