---------------------------- MODULE SharedMemory ----------------------------
(***************************************************************************)
(* The POSIX shared-memory segment through which clients and server talk   *)
(* (datatypes.hpp, struct SharedMemory): one request slot, one response    *)
(* slot, and for each slot a pair of semaphores, "available" (the slot is  *)
(* full) and "space_available" (the slot may be written).  The two buffer  *)
(* locks of the struct are commented out in the source, so there are none. *)
(***************************************************************************)
EXTENDS Semaphores, TableOps

CONSTANTS
  Ids,     \* the request ids a client can draw (1..UINT64_MAX in the code)
  Values   \* the strings a client can draw (one to six letters, never "")

\* 0 and "" are the id and the string of a zero-filled slot, never drawn.
ASSUME DataAssumption == 0 \notin Ids /\ "" \notin Values

VARIABLES
  request,   \* SharedMemory.request
  response,  \* SharedMemory.response
  sem        \* the four semaphores of the segment, by name

shmVars == <<request, response, sem>>

ShmSems == {"req_available", "req_space_available",
            "res_available", "res_space_available"}

Requests    == [requestid: Ids, operation: Ops, value: Values]
ReturnTypes == {"SUCCESS", "FAILURE"}
Responses   == [requestid: Ids, returntype: ReturnTypes, result: BOOLEAN]

\* The bytes of a fresh segment are zero (ftruncate).
ZeroRequest  == [requestid |-> 0, operation |-> "INSERT", value |-> ""]
ZeroResponse == [requestid |-> 0, returntype |-> "SUCCESS", result |-> FALSE]

\* Mutant: the semaphore of the free request slot starts one too high.
ShmInitTwoSpaces ==
  /\ request = ZeroRequest
  /\ response = ZeroResponse
  /\ sem = [n \in ShmSems |-> CASE n = "req_space_available" -> 2
                                [] n = "res_space_available" -> 1
                                [] OTHER                     -> 0]

\* main of the server: the segment is created and its semaphores are set.
ShmInit ==
  /\ request = ZeroRequest
  /\ response = ZeroResponse
  /\ sem = [n \in ShmSems |->
              IF n \in {"req_space_available", "res_space_available"}
                THEN 1 ELSE 0]

ShmTypeOK ==
  /\ request \in Requests \cup {ZeroRequest}
  /\ response \in Responses \cup {ZeroResponse}
  /\ sem \in [ShmSems -> Nat]
=============================================================================
