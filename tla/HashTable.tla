----------------------------- MODULE HashTable ------------------------------
(***************************************************************************)
(* The hash table (hash.cpp), used by several threads: a vector of         *)
(* buckets, each a chain of strings and a readers-writer lock.  insert     *)
(* appends under the unique lock, read walks the chain under the shared    *)
(* lock, remove walks it and erases under the unique lock.  Each step over *)
(* a chain is a step of its own, so that the walks of several threads      *)
(* interleave as far as the locks let them.  shared_mutex lets a thread in *)
(* as soon as nobody excludes it: no waiter has precedence.                *)
(***************************************************************************)
EXTENDS TableOps, Sequences, SequencesExt, FiniteSets

CONSTANTS
  Threads,    \* the threads that call the table
  Values,     \* the strings
  TableSize,  \* the number of buckets, tableSize
  Hash,       \* std::hash of each string
  MaxChain    \* bound: no chain is made longer than this

ASSUME TableAssumption ==
  /\ "" \notin Values
  /\ TableSize \in Nat \ {0}
  /\ Hash \in [Values -> Nat]
  /\ MaxChain \in Nat

VARIABLES
  items,    \* of each bucket: its chain
  owner,    \* of each bucket: the threads that hold its lock uniquely
  sharers,  \* of each bucket: the threads that hold its lock shared
  pc,       \* where each thread is in its call
  call,     \* the method it has called and the string
  iter,     \* its iterator: a position in the chain, Len + 1 is end()
  result    \* what its call returns (true for the two void methods)

lockVars == <<owner, sharers>>
vars     == <<items, owner, sharers, pc, call, iter, result>>

Buckets == 0 .. TableSize - 1
hashFunction(s) == Hash[s] % TableSize

NoCall == [operation |-> "NONE", value |-> ""]
Calls  == [operation: Ops, value: Values]

\* The bucket and the chain that thread t works on.
Index(t) == hashFunction(call[t].value)
Chain(t) == items[Index(t)]
AtEnd(t) == iter[t] > Len(Chain(t))
Hit(t)   == ~AtEnd(t) /\ Chain(t)[iter[t]] = call[t].value

Init ==
  /\ items = [b \in Buckets |-> <<>>]
  /\ owner = [b \in Buckets |-> {}]
  /\ sharers = [b \in Buckets |-> {}]
  /\ pc = [t \in Threads |-> "idle"]
  /\ call = [t \in Threads |-> NoCall]
  /\ iter = [t \in Threads |-> 1]
  /\ result = [t \in Threads |-> FALSE]

-----------------------------------------------------------------------------
Goto(t, here, there) ==
  /\ pc[t] = here
  /\ pc' = [pc EXCEPT ![t] = there]

\* The inserts under way into bucket b.
Inserting(b) ==
  {t \in Threads : /\ pc[t] \in {"lock", "emplace"}
                   /\ call[t].operation = "INSERT"
                   /\ Index(t) = b}

HasRoom(b) == Len(items[b]) + Cardinality(Inserting(b)) < MaxChain

Call(t) ==
  /\ Goto(t, "idle", "lock")
  /\ \E q \in Calls :
       /\ q.operation = "INSERT" => HasRoom(hashFunction(q.value))
       /\ call' = [call EXCEPT ![t] = q]
  /\ iter' = [iter EXCEPT ![t] = 1]
  /\ UNCHANGED <<items, lockVars, result>>

\* Mutant: the unique lock does not wait for the readers to leave.
LockUniqueAmongReaders(t) ==
  /\ call[t].operation \in {"INSERT", "DELETE"}
  /\ Goto(t, "lock", IF call[t].operation = "INSERT" THEN "emplace" ELSE "find")
  /\ owner[Index(t)] = {}
  /\ owner' = [owner EXCEPT ![Index(t)] = {t}]
  /\ UNCHANGED <<items, sharers, call, iter, result>>

\* std::unique_lock, in insert and remove.
LockUnique(t) ==
  /\ call[t].operation \in {"INSERT", "DELETE"}
  /\ Goto(t, "lock", IF call[t].operation = "INSERT" THEN "emplace" ELSE "find")
  /\ owner[Index(t)] = {} /\ sharers[Index(t)] = {}
  /\ owner' = [owner EXCEPT ![Index(t)] = {t}]
  /\ UNCHANGED <<items, sharers, call, iter, result>>

\* Mutant: read takes no notice of a writer.
LockSharedAmongWriters(t) ==
  /\ call[t].operation = "READ"
  /\ Goto(t, "lock", "scan")
  /\ sharers' = [sharers EXCEPT ![Index(t)] = @ \cup {t}]
  /\ UNCHANGED <<items, owner, call, iter, result>>

\* std::shared_lock, in read.
LockShared(t) ==
  /\ call[t].operation = "READ"
  /\ Goto(t, "lock", "scan")
  /\ owner[Index(t)] = {}
  /\ sharers' = [sharers EXCEPT ![Index(t)] = @ \cup {t}]
  /\ UNCHANGED <<items, owner, call, iter, result>>

\* Mutant: insert computes another index than read and remove do.
EmplaceElsewhere(t) ==
  /\ Goto(t, "emplace", "unlock")
  /\ items' = [items EXCEPT ![(Hash[call[t].value] + 1) % TableSize] =
                 Append(@, call[t].value)]
  /\ result' = [result EXCEPT ![t] = TRUE]
  /\ UNCHANGED <<lockVars, call, iter>>

\* insert
Emplace(t) ==
  /\ Goto(t, "emplace", "unlock")
  /\ items' = [items EXCEPT ![Index(t)] = Append(@, call[t].value)]
  /\ result' = [result EXCEPT ![t] = TRUE]
  /\ UNCHANGED <<lockVars, call, iter>>

\* read: one turn of the loop, and its two ends.
ScanNext(t) ==
  /\ pc[t] = "scan" /\ ~AtEnd(t) /\ ~Hit(t)
  /\ iter' = [iter EXCEPT ![t] = @ + 1]
  /\ UNCHANGED <<items, lockVars, pc, call, result>>

ScanEnd(t) ==
  /\ Goto(t, "scan", "unlock")
  /\ AtEnd(t) \/ Hit(t)
  /\ result' = [result EXCEPT ![t] = Hit(t)]
  /\ UNCHANGED <<items, lockVars, call, iter>>

\* remove: std::find, then erase of what it found.
FindNext(t) ==
  /\ pc[t] = "find" /\ ~AtEnd(t) /\ ~Hit(t)
  /\ iter' = [iter EXCEPT ![t] = @ + 1]
  /\ UNCHANGED <<items, lockVars, pc, call, result>>

FindEnd(t) ==
  /\ Goto(t, "find", "erase")
  /\ AtEnd(t) \/ Hit(t)
  /\ UNCHANGED <<items, lockVars, call, iter, result>>

\* Mutant: remove erases every copy, as std::list::remove would.
EraseEvery(t) ==
  /\ Goto(t, "erase", "unlock")
  /\ items' = [items EXCEPT ![Index(t)] =
                 SelectSeq(@, LAMBDA s : s # call[t].value)]
  /\ result' = [result EXCEPT ![t] = TRUE]
  /\ UNCHANGED <<lockVars, call, iter>>

Erase(t) ==
  /\ Goto(t, "erase", "unlock")
  /\ items' = IF AtEnd(t) THEN items
                          ELSE [items EXCEPT ![Index(t)] = RemoveAt(@, iter[t])]
  /\ result' = [result EXCEPT ![t] = TRUE]
  /\ UNCHANGED <<lockVars, call, iter>>

\* The lock object goes out of scope.
Unlock(t) ==
  /\ Goto(t, "unlock", "done")
  /\ owner' = [owner EXCEPT ![Index(t)] = @ \ {t}]
  /\ sharers' = [sharers EXCEPT ![Index(t)] = @ \ {t}]
  /\ UNCHANGED <<items, call, iter, result>>

Return(t) ==
  /\ Goto(t, "done", "idle")
  /\ call' = [call EXCEPT ![t] = NoCall]
  /\ iter' = [iter EXCEPT ![t] = 1]
  /\ result' = [result EXCEPT ![t] = FALSE]
  /\ UNCHANGED <<items, lockVars>>

\* The steps of a call once it is made.
Step(t) ==
  \/ LockUnique(t) \/ LockShared(t)
  \/ Emplace(t)
  \/ ScanNext(t) \/ ScanEnd(t)
  \/ FindNext(t) \/ FindEnd(t) \/ Erase(t)
  \/ Unlock(t) \/ Return(t)

Next == \E t \in Threads : Call(t) \/ Step(t)

Spec == Init /\ [][Next]_vars

-----------------------------------------------------------------------------
Labels == {"idle", "lock", "emplace", "scan", "find", "erase", "unlock", "done"}

\* The labels at which the lock is held.
Locked == {"emplace", "scan", "find", "erase", "unlock"}
Writes(t) == pc[t] \in Locked /\ call[t].operation \in {"INSERT", "DELETE"}
Reads(t)  == pc[t] \in Locked /\ call[t].operation = "READ"

TypeOK ==
  /\ items \in [Buckets -> Seq(Values)]
  /\ \A b \in Buckets : \A i \in DOMAIN items[b] : hashFunction(items[b][i]) = b
  /\ owner \in [Buckets -> SUBSET Threads]
  /\ sharers \in [Buckets -> SUBSET Threads]
  /\ pc \in [Threads -> Labels]
  /\ call \in [Threads -> Calls \cup {NoCall}]
  /\ \A t \in Threads : pc[t] # "idle" => call[t] \in Calls
  /\ iter \in [Threads -> Nat \ {0}]
  /\ result \in [Threads -> BOOLEAN]

\* A thread between emplace_back, find and erase is alone in its bucket: no
\* other thread is reading or changing the same chain (hash.cpp, the unique
\* locks of insert and remove against the shared lock of read).
WriterAlone ==
  \A t, u \in Threads :
    (Writes(t) /\ (Writes(u) \/ Reads(u)) /\ Index(t) = Index(u)) => t = u

\* The iterator of a walk is still good after whatever other threads did since
\* it was taken: it is inside the chain or at its end, the walk has passed no
\* copy of its string, and erase finds its string where find left it.
IteratorValid ==
  \A t \in Threads : pc[t] \in {"scan", "find", "erase"} =>
    /\ iter[t] <= Len(Chain(t)) + 1
    /\ \A i \in 1 .. iter[t] - 1 : Chain(t)[i] # call[t].value
    /\ pc[t] = "erase" => AtEnd(t) \/ Hit(t)

-----------------------------------------------------------------------------
(* The hash table implements the atomic table.                             *)

Copies(chain, s) == Cardinality({i \in DOMAIN chain : chain[i] = s})

ServicePhase(t) ==
  CASE pc[t] = "idle"               -> "idle"
    [] pc[t] \in {"unlock", "done"} -> "answered"
    [] OTHER                        -> "waiting"

Promise == INSTANCE Service WITH
  Callers <- Threads,
  bag     <- [s \in Values |-> Copies(items[hashFunction(s)], s)],
  phase   <- [t \in Threads |-> ServicePhase(t)],
  call    <- call,
  answer  <- result

\* Every call of insert, read and remove takes effect in one step between its
\* call and its return, and read returns what that step saw, although the walks
\* of several threads interleave: the table is linearizable.
ImplementsService == Promise!Spec
=============================================================================
