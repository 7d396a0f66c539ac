------------------------------ MODULE Service -------------------------------
(***************************************************************************)
(* A table that is used atomically.  Each caller makes one request at a    *)
(* time; the request takes effect on the table exactly once, in one step,  *)
(* between the moment it is made and the moment its answer is received;    *)
(* and the answer received is the one its own effect produced.             *)
(*                                                                         *)
(* This is the promise at two levels of the program: the hash table makes  *)
(* it to the threads that call it (module HashTable, where there are       *)
(* chains and locks), and the whole system makes it to the client threads  *)
(* (module System, where there are shared memory, queues and threads).     *)
(***************************************************************************)
EXTENDS TableOps

CONSTANTS Callers, Values

VARIABLES
  bag,     \* the contents of the table
  phase,   \* of each caller: "idle", "waiting" or "answered"
  call,    \* the operation and the string it has asked for
  answer   \* the result its request produced

vars == <<bag, phase, call, answer>>

NoCall == [operation |-> "NONE", value |-> ""]
Calls  == [operation: Ops, value: Values]

Init ==
  /\ bag = [v \in Values |-> 0]
  /\ phase = [c \in Callers |-> "idle"]
  /\ call = [c \in Callers |-> NoCall]
  /\ answer = [c \in Callers |-> FALSE]

Ask(c) ==
  /\ phase[c] = "idle"
  /\ phase' = [phase EXCEPT ![c] = "waiting"]
  /\ \E q \in Calls : call' = [call EXCEPT ![c] = q]
  /\ UNCHANGED <<bag, answer>>

\* The result of a read is whether the string is there; that of the two other
\* operations is always true.
TakeEffect(c) ==
  LET q == call[c] IN
  /\ phase[c] = "waiting"
  /\ phase' = [phase EXCEPT ![c] = "answered"]
  /\ bag' = After(bag, q.operation, q.value)
  /\ answer' = [answer EXCEPT ![c] =
                  (q.operation = "READ") => Present(bag, q.value)]
  /\ UNCHANGED call

Receive(c) ==
  /\ phase[c] = "answered"
  /\ phase' = [phase EXCEPT ![c] = "idle"]
  /\ call' = [call EXCEPT ![c] = NoCall]
  /\ answer' = [answer EXCEPT ![c] = FALSE]
  /\ UNCHANGED bag

Next == \E c \in Callers : Ask(c) \/ TakeEffect(c) \/ Receive(c)

Spec == Init /\ [][Next]_vars
=============================================================================
