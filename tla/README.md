# A verification of the concurrent hash-table server

TLA+ models of the program in `src/`, TLC runs that check them on small instances, and TLAPS proofs
of the properties that matter most, for every number of threads.

## 1. Inventory: the system and its parts

| part | source | state | operations |
|---|---|---|---|
| hash table | `hash.cpp` | per bucket a chain (`std::list`) and a `shared_mutex` | `insert`, `read`, `remove`, called by the processing threads |
| shared memory | `datatypes.hpp` | a request slot, a response slot, four semaphores | `sem_wait`, `sem_post`, plain reads and writes of the slots |
| client | `client.cpp` | per thread the request it made; per process `running`, `threads_safe_exit`, `threads` | request loop, `main` (spawn, join), SIGINT handler |
| server | `server.cpp` | `requestQueue`, `responseQueue`, four private semaphores, locals of the threads | `enqueueRequests`, `processRequests` (several threads), `dequeueResponses`, `main`, SIGINT handler |
| experiments | `expt-1`, `expt-2`, `expt-4` | as client and server; `num_requests` | the same programs, other thread counts, a bounded request loop, time stamps |
| timed trials | `trial/client.cpp`, `trial/server.cpp` | as client and server; in the server also `running` and `all_threads_exited` | redesigns with `sem_timedwait` and an exit that waits for all threads; not built by the Makefile |
| other trials | `trial/client2..5.cpp`, `server2,3,5.cpp` | as the timed trials, and two buffer locks in the segment | four clients and three servers that take a slot in two waits; `datatypes.hpp` has their locks commented out, and they compile when it has them again |
| scripts, plots, test | `expt-*/*.sh`, `*.py`, `test_hash.cpp` | none | no protocol of their own |

How they interact. A client thread puts a request in the one request slot (wait
`req_space_available`, write, post `req_available`); the server's request thread takes it out (wait
`req_available`, copy, post `req_space_available`) and pushes it on `requestQueue` under a lock;
a processing thread takes a ticket from `req_queue_size`, pops under the lock, applies the operation
to the table, and pushes a response on `responseQueue` under another lock; the response thread pops
it and puts it in the one response slot (wait `res_space_available`, write, post `res_available`).
All client threads of all processes poll that slot: one waits for `res_available`, compares the id
with its own, and either posts `res_available` again or frees the slot.

What is hard about it:

* *interleavings*: nothing but the semaphores keeps two threads out of one slot or one queue (the two
  buffer locks are commented out, and `client.cpp:35` asks whether they are needed);
* *ordering*: responses are in another order than requests, and meet the wrong threads first;
* *liveness*: put-back-and-wait-again polling, and locks without an order of service;
* *the end of a process*: a SIGINT handler that waits for other threads, inside a thread that was
  interrupted anywhere; a permit of the shared semaphores that a dying process takes with it;
* *timeouts*: in the timed trials every wait may fail, and what was taken before must be given back;
* *restart*: a segment and semaphores that outlive the server, and are set up again under clients that
  wait on them or hold them.

What makes each part correct: of the hash table, that it is linearizable and no iterator is used
after another thread invalidated it; of the segment, that a slot is in one hand at a time and its
permit is never lost; of client and server together, that each request is served exactly once, that
the response a thread accepts is the answer to its own request, that every request is answered, and
that a process asked to end does end, without harm to the others. The hazards, each at its line, are
in `PROJECT.json`.

## 2. Modules

| module | models | extends / instantiates |
|---|---|---|
| `Semaphores` | `sem_wait`, `sem_post` | |
| `TableOps` | what one operation does to a bag of strings, alone | |
| `Service` | the promise: a table used atomically by callers | `TableOps` |
| `HashTable` | `hash.cpp`, step by step, with its locks | `TableOps`; implements `Service` |
| `SharedMemory` | `struct SharedMemory` | `Semaphores`, `TableOps` |
| `Client` | `client.cpp` and the bounded clients of the experiments | `SharedMemory` |
| `Server` | the threads of `server.cpp` | `SharedMemory` |
| `System` | clients and server together, the properties | `Client`, `Server`; implements `Service` |
| `SystemInv` | the inductive invariant, and where the copies of requests and responses are | `System` |
| `SystemProofs`, `AnswerProofs`, `CopyProofs` | the proofs about the system | `SystemInv` |
| `HashTableProofs` | the proofs about the hash table | `HashTable` |
| `TimedClient` | `trial/client.cpp` | `Client` |
| `TimedServer` | `trial/server.cpp`, its main thread and SIGINT handler too | `Server` |
| `TimedSystem` | the two timed programs together | `SystemInv`, `TimedClient`, `TimedServer` |
| `Lifecycle` | `main` and `cleanup` of `server.cpp`, processes that start, die and start again | `System`; instantiates `System` and `Client` |
| `BufferLocks` | the two buffer locks, and which pair of trial programs runs | `SharedMemory` |
| `LockedClient` | `trial/client2.cpp` to `client5.cpp` | `TimedClient`, `BufferLocks` |
| `LockedServer` | `trial/server2.cpp`, `server3.cpp`, `server5.cpp` | `TimedServer`, `BufferLocks` |
| `LockedSystem` | all programs of `trial/` in pairs | `TimedSystem`, `LockedClient`, `LockedServer` |
| `LockedInv` | the inductive invariant of the programs of `trial/` | `LockedSystem` |
| `LockedProofs` | the proofs about the programs of `trial/` | `LockedInv` |
| `LifeInv` | the inductive invariants of processes that come and go | `Lifecycle`, `SystemInv`; instantiates `SystemInv` |
| `LifeProofs` | the proofs about them | `LifeInv`, `SystemProofs` |
| `LifeCopyProofs` | the proof that they lose and duplicate no request | `LifeProofs`; instantiates `CopyProofs` |
| `MCSystem`, `MCHashTable`, `MCTimedSystem`, `MCLifecycle`, `MCLockedSystem` | constants for TLC | `SystemInv`, `HashTable`, `TimedSystem`, `LifeInv`, `LockedInv` |

### State and code

A thread is a program counter (`cpc` client threads, `mpc` main threads of client processes, `epc`
the request thread, `wpc` the processing threads, `rpc` the response thread) and its local variables
(`creq`, `num_requests`; `ereq`; `wreq`, `wres`; `rres`). One action is one `sem_wait`, one
`sem_post`, or one access to a slot or to a queue between them, because other threads can run there;
`PROJECT.json` gives the line of each. A label names the call that comes next. A `sem_wait` is the
step in which it returns. Locals are reset at the end of the scope they belong to. The table is a
bag (`store`) in `Server`, where `Process` applies one operation in one step; this is justified by
`HashTable`, which shows that the locked, step-by-step operations are atomic to their callers.

In `HashTable`, `owner[b]` and `sharers[b]` are the holders of the `shared_mutex` of bucket `b`, and
`iter[t]` is the iterator of a walk, moved by one element in one step.

A client process has at most one SIGINT, handled by its main thread wherever it is (`Sigint`); the
handler collects one post per thread (`DrainOneExit`) and exits. `joinable` says whether the global
vector still holds a thread that was not joined: if so, `exit` ends in `std::terminate`, which the
model calls `"aborted"`.

The timed programs do the same between their waits, so `TimedClient` and `TimedServer` take those
actions over from `Client` and `Server` and replace the waits, the loop conditions and the exits. A
`sem_timedwait` is two actions, one for each result. When the second may happen depends on the
deadline. Most deadlines have `tv_sec` set and `tv_nsec` left as the stack had it, which may be no
number of nanoseconds: such a wait may fail at any moment, also when the semaphore is above zero.
`curr_ts` is complete and already past when it is used: a wait for it fails when the semaphore is
zero, and only then. `TimedProcess` answers a DELETE with FAILURE, as the doubled test of
`trial/server.cpp:130` does. In the timed handlers main is inside `join` when the handler joins the same
thread; the C library lets both return, and the program exits.

The programs with buffer locks take over what they share with these in the same way. The variable
`trial` is the pair of programs that runs: 1 is `client` with `server` (no locks), 2 `client2` with
`server2`, 3 `client3` with `server3`, 4 `client4` with `server5`, 5 `client5` with `server5`; `bsem`
holds the two locks. A slot takes two waits, and they differ in what a program does when the second
fails, or when the first did: keep going (`server2`), keep what it has (`client3`, `server3`), wait for
the lock anyway and forget it (`client4`, `client5`, `server3`, `server5`), give everything back
(`client5`, `server5`). The deadlines of `server2`, `server5`, of the waits of `server3` and of the
request in `client3` are complete: those waits fail only when the semaphore is zero.

#### Lifecycle

`Lifecycle` runs `System` inside processes that come and go. `sup` is where `main` of the server is:
`"down"`, `"opened"` (`shm_open`), `"sized"` (`ftruncate`, then one `sem_init` at a time, counted by
`inited`), `"up"`, and `"unmapped"` (in `cleanup`). The segment has a name (`linked`), a size (`sized`),
and is either new to its server or left by an earlier one (`fresh`). `where[p]` is what process `p` has
mapped: the segment, or the orphan, the old segment after `shm_unlink`, which its clients keep and no
server serves. The threads in the segment act by the actions of `Client`, those in the orphan by the
same actions of the instance `Orphan`, with the slots and semaphores of the orphan. `View` is the
instance of `System` that sees only the clients attached to the segment, so that the invariants of
`System` can be asked of it. A process can be killed at any step (`KillServer`, `KillClient`), get
SIGINT in the server (`Unmap`, then `Unlink`, or `Fault` if a thread touches the unmapped segment
first), get a second SIGINT in a client (`SecondSigint`: main has the signal blocked, so a request thread
takes it and never returns), or touch a segment without a size (`BusError`).

Four variables are history, and say what excuses the system. `disturbed`: semaphores of an old segment
were set up while a client was inside its request. `broken`: a process died with a permit or a request
in its hands. `unrest`: a client was inside its request at some moment since this set-up began; if not,
the set-up makes `disturbed` and `broken` false again. `asleep`: the threads that slept through a
`sem_init`, or whose wake-up went to a thread that died; the program promises them nothing.

What is mapped. A definition is mapped to the program of `src/` itself (`client.cpp`, `server.cpp`,
`hash.cpp`). The copies in the experiments are the same code but for output, and are not mapped again;
what they add, the count of requests, is (`KeepsGoing`, `ReleaseResponse`, `ThreadStep`). `server5.cpp`
takes its request thread and its workers from `server2.cpp`: pair 5 of the model uses `Server2Request` and
`Server2Work`, and these are mapped to its text, while the steps they are made of are mapped to `server2.cpp`.

### Abstractions

* An id, a string is a model value; the draw of 64-bit ids repeats none in flight unless
  `CollidingIds` says so. The theorems hold for both.
* `DrawnOps` is the set of operations a client draws: all three in the safety runs. In the liveness
  runs it leaves out INSERT, so that the number of copies in the table stays finite; no control
  depends on the operation.
* `Bounded` and `NumRequests` are the bounded loop of the experiment clients, and bound the safety
  runs; `MaxDraws` bounds the requests of a thread of the timed client, whose loop has no bound, by a
  guard of `DrawRequest`; `MaxChain` bounds the chains of `HashTable` (guard `HasRoom`). `MaxLaunches`
  bounds how often a client process is started, `MaxSignals` how many signals are sent, and there is one
  orphan at a time (guard of `Unmap`). `Trials` is the set of pairs a run looks at.
* A server is started when the one before is gone. A request thread that waits inside the handler takes
  no post of the others: main waits for as many, and an exit without them would only come later.
* A SIGINT that exits at once (`client2`, `server2`, `server5`) is one step (`ExitAtOnce`,
  `ServerExitsAtOnce`). The start-up of the trial programs is left out: they begin with the segment set up.
* Output, time stamps and the letters of the strings are left out.

## 3. Runs

| run | instance | shows |
|---|---|---|
| `system_safety` | 2 client threads of one process, 2 requests each, 2 workers, 2 ids, 1 string | every safety invariant, `IInv`, and `ImplementsService` |
| `system_fair` | 2 client threads without a bound, 2 ids that may collide, `FairSpec` | `RequestsAnsweredThoughColliding`, `SigintEndsThoughColliding` |
| `hash_table` | 3 threads, 3 strings in 2 buckets, chains up to 2 | `WriterAlone`, `IteratorValid`, `ImplementsService` |
| `lifecycle_safety` | 2 client processes of a thread, 1 request each, 1 worker, 2 launches, 3 signals | `LifeIInv`, `LifeCopyInv`, `SlotsExclusive`, `RequestsKept`, `PermitsRestored`, `ExitsOnlyWhenThreadsLeft` |
| `lifecycle_live` | 1 client process of a thread, without a bound, 2 workers, 2 launches, 2 signals, `LifeFairSpec` | `ServedOnceWhole`, `SigintEndsOnceWhole` |
| `trials_safety` | the pairs 1 to 5, 2 client processes of a thread, 1 worker, one SIGINT | `LockedIInv`, `QueuesExclusive`, `NoPopFromEmptyQueue`, `RequestPermitKept`, `ResponsePermitKept`, `RequestLockFree`, `TicketsCounted`, `ServerExitsLast` |
| `trials_live` | the pairs 1, 3 and 5, 1 client thread, 1 request, `LockedFairSpec` | `ServerEnds`, `ClientEnds`, `RequestsSettled` |
| `system_space` | as `system_safety`, 1 request each | violated: `SpaceMeansProcessed` |
| `system_abort` | the same | violated: `SigintExitsSafely` |
| `system_early_sigint` | 2 threads of one process | violated: `SigintAlwaysEnds` |
| `system_starved` | 2 threads, `WeakSpec` | violated: `ResponseChecked` |
| `timed_locks` | the timed programs, 1 client thread, 1 request | violated: `RequestQueueLockKept` |

Why the bounds are enough. Two client threads are the least that compete for a slot and meet each
other's responses; two workers are the least that reorder requests and compete for both locks; two
requests each let a thread come back while what it left behind (in the slot, in a queue) is still
there. A slot has one permit, so a third thread waits as the second does. In the hash table, three
threads give two readers and a writer; two strings share a chain and one does not. `system_fair` draws
from two ids, which collide and cease to collide; the same properties hold of two processes.

`lifecycle_safety`: two processes are the least of which one dies and the other suffers. Two launches are
two processes once, or one process twice. Three signals reach what takes the most: a process dies with
a permit, the server dies, and after the next server's set-up something dies again. The exceptions in
the properties were found by TLC, by stating them without: every one of `disturbed`, `broken`, `unrest`
and `asleep` is needed. `lifecycle_live` keeps one process of one thread, as the client is built, but
without a bound on requests.

`trials_safety` bounds with the state constraint `FewSteps`: one process gets SIGINT; in pair 1 one
client process is started and draws two requests, or one if there is a SIGINT (the request it gave up is
still in the server when it sends the next, and with forced writes the permits of the response slot
multiply), in the others both are started and draw one each (their hazard is one thread that holds what
another waits for).
One processing thread meets the request thread at the request queue and the response thread at the
response queue.

Symmetry (of ids, workers, strings, threads) is used in the safety runs only.

`CHECK_DEADLOCK FALSE` in the system runs: client threads end, and the server then waits for ever,
as it does in the program; in the runs of the trials both programs may have ended, or wait for a lock
that is lost; in those of `Lifecycle` every process may be gone and no more be started. `hash_table`
checks deadlock.

### What the runs answer

*Restart and death* (`lifecycle_safety`). Whoever dies, the slots stay exclusive, and no request is ever
served twice, as long as no server sets up the semaphores of an old segment under a client inside its
request. A request or a permit is lost only with a process that dies with it in hand; a lost permit of
the segment is made good by the next server that is started in a moment when no client is inside a
request. A client that starts during the server's set-up loses nothing, because `req_available` is
set up before `req_space_available` (`server.cpp:147-148`): in the other order (mutant `SpaceFirst`) the
post of a request can be wiped out. A second SIGINT stops the client's exit for ever, and never makes
it early.

*Ids* (`system_fair`). Two threads with the same id each may take the other's answer, and a thread
whose answer was taken gets another one. Only if ids collide for ever can one thread take the answers of
the other time and again; so the premise `<>[]DistinctIds`, which random 64-bit draws meet with
probability near one, and which is all that liveness needs of the ids.

*The buffer locks* (`trials_safety`). `client2.cpp:32` asks "Do we need req_buffer_lock and
res_buffer_lock?". In the pairs 2 and 3, whoever has the permit of the request slot finds its lock free
in every state (`RequestLockFree`): the lock excludes nobody. In the pairs 4 and 5 it is not free, but
only because a thread without the permit took it and forgot it. No pair ever has two permits for the
request slot, or loses the one there is while its processes run (`RequestPermitKept`). The response
slot is where the designs differ (`ResponsePermitKept`): pairs 1 and 2, which write after a timeout,
never lose its permit but multiply it; pairs 3 and 4, which drop what they hold, never multiply it but
lose it; pair 5, which gives back whatever it took, keeps exactly one. Tickets of the queues are lost
in `server3` only (`TicketsCounted`).

*The safe exit* (`trials_live`). Server 1 and 3 and clients 1, 3 and 5 do end after SIGINT, whatever the
other program does and whatever locks are lost by then. Client 4 does not have to: its waits for the
response have no timeout any more (`trial/client4.cpp:144`).

### Fairness

`WeakFairness`: the scheduler runs every thread that can run. `SemaphoreFairness` adds strong
fairness for the waits in which a thread competes with others that come back: the two waits of a
client thread on the shared semaphores and the two waits of a worker on the queue locks. Neither
POSIX semaphores nor the code promise it; `system_starved` shows that it is needed, `lifecycle_live`
that the client as it is built (one thread in a process, one process) does without. The request thread and the response thread need weak
fairness only: while one of them waits, what the others can do runs out. SIGINT is never
fair: it may or may not come. Nothing is said of liveness in `HashTable`: `shared_mutex` promises no
order of service.

`LifeFairness` is weak fairness of every thread and of the server's `main` once it is started. Launches,
signals and the start of a server are never fair, and a thread in `asleep` is owed no step.

`LockedFairness` is weak fairness of every thread, and strong fairness of `GiveUpResponse` in the clients
1, 3 and 5: a thread that is again and again at the top of its inner loop finds `res_ts` past at last,
because time passes. It asks nothing of the semaphores. That is the point of `ServerEnds` and
`ClientEnds`: the exit does not depend on a wait ever succeeding, nor on the other program, nor on the
queue locks and buffer locks, which are lost.

### Findings

1. `system_space`: the space is signalled when the request is copied, not when it is processed
   (`server.cpp:82` against `README.md:56-57`).
2. `system_abort`: after its wait the SIGINT handler of the client aborts (`client.cpp:32`, `21`).
3. `system_early_sigint`: a SIGINT before all threads are spawned is never served (`client.cpp:28`).
4. `system_starved`: a thread can hold up another's response for ever (`client.cpp:73`).
5. `timed_locks`: a worker of the timed server that misses its ticket takes the lock of the request queue
   all the same and keeps it (`trial/server.cpp:97`), so that after one turn on an empty queue no request
   is ever queued again (`README.md:68`, `74`). The response thread has the same lines for the lock of
   the response queue (`trial/server.cpp:185`); the run looks at the workers.

### Mutants

A definition whose comment begins with "Mutant" is not part of the model. It is the definition below
it with a plausible mistake, and each property of each passing run fails when one of them is put in
place of the original; `PROJECT.json` lists which. (`ProcessNoDelete` is a
mutant of `Server` only: the timed server really has that slip.)

## 4. Proofs

`SystemProofs` proves `Spec => []IInv`, and from it seven of the invariants that `system_safety`
checks, for every finite set of client threads and of workers, every set of processes, every
assignment of threads to processes, with or without colliding ids, bounded or not. The assumptions
are `DataAssumption` (0 and "" are never drawn), `ClientAssumption` and `ServerAssumption`.

The properties speak of who is where, and that alone is not inductive: that two clients are never in
the request slot follows from the semaphore, not from their labels. `IInv` therefore says where each
permit is (`RequestPermit`, `ResponsePermit`, `RequestQueueLock`, `ResponseQueueLock`: in a semaphore
or in exactly one thread), what the size semaphores count (`RequestTickets`, `ResponseTickets`: the
length of a queue is the value of its semaphore, plus the tickets taken and not used, plus the
elements pushed and not announced), that a slot is filled before it is announced (`SlotsFilled`), and
what the exit semaphore counts (`ExitTickets`). Type correctness needs the others: a pop is typed
because the queue is not empty, a copy because the slot is full. For each part there is a lemma for
the client's steps and one for the server's, with a step for each action that can disturb it.

`AnswerProofs` adds `ReleasesOwnResponse`. Its invariant is `IInv` with two more parts: every response on
its way says SUCCESS (`AllSucceed`), and a client that is about to free the response slot has its own id in
front of it (`OwnId`), because the slot was in its hand alone since it compared. It holds with colliding
ids too: the response is then one to that id, which may be another thread's.

`CopyProofs` proves `OneCopyInFlight` and `ImplementsService`, from the assumption `~CollidingIds`: no id is
drawn while it is in flight. Its invariant `CopyInv` (in `SystemInv`) speaks of the set of copies on their
way, each with its place: no two have the same id, each belongs to a waiting client, and each waiting client has one. Moving a
copy must not depend on where it moves, so there is one lemma for each kind of step: it moves one copy
(`WriteRequestMoves` and its kin), shifts a queue (`PopKeeps`), turns a request into its response
(`ProcessAnswers`), adds a request (`CreateRequestAdds`) or takes a response away (`ReleaseResponseTakes`);
`StepKinds` says that there are no others. They need no
more of `IInv` than `Orderly` (types, no empty pop, exclusive slots, and a slot whose semaphore is posted
is in no hand), which holds after processes have died too; so they serve in `LifeCopyProofs` again. For the refinement, a client is answered when a response with its
id is on its way. Then `Process` is `TakeEffect` of the client that owns the request, `CreateRequest` is `Ask`,
`ReleaseResponse` is `Receive`, and no other step changes what a client sees. `RequestsSeen` and
`ResponsesSeen` relate the set of copies to the places that `System` counts. With colliding ids neither
property holds: two clients may then have one id, and one may take the response to the other.

`HashTableProofs` proves everything that the run `hash_table` checks, for any number of threads, strings
and buckets, any hash function and any bound on the chains, from `TableAssumption` (`std::hash` yields
naturals, the table has a bucket). The inductive invariant is `TableInv`: the types; `LocksHeld` (the
owner of a bucket's lock is the thread that writes there, its sharers are those that read there, and an
owner is alone), which is what makes `WriterAlone` inductive; `LabelsFit` (each method has its own
labels, and a walk starts at the first string); and `IteratorValid`, which needs the exclusion, because
a step of another thread changes a chain only when it has the bucket to itself
(`StepLeavesOthersAlone`). `TableImplementsService` is the refinement: `Emplace`, `ScanEnd` and `Erase` are
the steps that take effect (`EffectIsServiceEffect`), all others but `Call` and `Return` change nothing that
a caller sees. It rests on what `emplace_back` and `erase` do to the number of copies of a string
(`CopiesAfterAppend`, `CopiesAfterRemoveAt`, by a bijection between the positions before and after), and on
`WalkDecides`: where a walk stops there is a copy of its string, or none at all.

`LockedProofs` proves every invariant that the run `trials_safety` checks, for the five pairs of
programs of `trial/` at once and for any number of client threads, processes, workers and requests. The
assumptions are `ClientAssumption`, `ServerAssumption`, `TimedClientAssumption` (the loop of these clients
counts no requests) and `TrialsAssumption` (there are five pairs). The difference to `System` is that a wait may fail, and that what a program then does with the
permits and locks it has is not always right. So the invariant, `LockedIInv`, is in two halves: the parts
called "once" (`RequestPermitOnce`, `RequestQueueLockOnce` and their kin) say that there are never two of
a permit or a lock, and the parts called "somewhere" say which pairs keep the one there is, as long as
no process has ended with threads of its own at work (`NobodyCutOff`). What holds them up:

* `RequestLockFollows`. In the pairs 2 and 3 a client or the server that has the permit of the request
  slot and misses its lock would lose the permit. It never misses it: the lock is taken only with the
  permit in hand and goes back before the permit does, so it is free while the permit is anywhere else.
  This is `RequestLockNeverBlocks`, the answer to the TODO of `client2.cpp:32`, and `OneRequestPermit`
  rests on it.
* `RequestTicketsCounted`, `ResultTicketsCounted`. A ticket too few loses a request; one too many pops an
  empty queue. What is proved of all pairs is `<=`, which is what types need; equality is proved of the
  programs that give back a ticket they could not use.
* `RequestSlotFilled`. What is copied is a request, although the response slot may be read after a forced
  write.
* `ExitsPosted`. The handler that counts posts has collected, or can still collect, one post of each
  thread that has left: so it ends after all of them (`ServerEndsAfterItsThreads`).

There is one lemma for each part and each program (client, request thread, processing thread, response
thread, the main threads), and one step for each action that can disturb the part. An action that
cannot is put aside by what it leaves alone (`RequestLockStays`, `RequestSlotStays`).

`LifeProofs` proves of `LifeSpec` the invariants `LifeTypeOK`, `SlotsExclusive`, `PermitsRestored` and `ExitsOnlyWhenThreadsLeft`, for any client processes, threads and
workers, and any number of starts, kills and signals; the assumptions are `DataAssumption`,
`ClientAssumption` and `ServerAssumption`. Here a permit is not always in one place. So `LifeIInv` says
when it is, of the clients that are attached to the segment (`At`):

* `PermitsOnce`: unless `disturbed`, there are never two permits of a slot. `PermitsThere`: once the
  segment is set up, and unless `disturbed` or `broken`, there is one.
* What makes that inductive is what is known before and during the set-up. `Nameless` and `Sizeless`: to
  what a new name will stand for nobody can have attached, and a segment without a size is all zeros.
  `NewSegment`: with a new segment a client that came early is stuck at its first wait until the second
  `sem_init`, because `main` sets up `req_available` before `req_space_available`; so `sem_init` runs
  under nobody who has a permit.
* In an old segment the claim is that four calls, at each of which no client is inside a request, restore
  both slots, although clients may run between the calls (`Restoring`). A client that puts a request in
  the slot between two of them is still inside it at the next: no server runs, and what is left in the
  response slot carries another id (`NoneGetsThrough`). So at the second `sem_init` there is no request
  in the slot (`RequestHasClient`), from then on its permit is in one place, and from the third on the
  response slot is empty (`Restored`). `InitOfQuietSegment` is the step.
* `ServerIdle`: a server sets up a segment with nothing of an earlier life in its hands. `RequestFilled`:
  what the request thread copies is a request, in a disturbed segment too. `QueuesKept` and `ExitTickets`
  are parts of `IInv`, and the lemmas of `SystemProofs` about the threads' steps serve again.

The steps are taken in four kinds: client processes that come and go (`ComingAndGoing` says under which
conditions such a step keeps the segment, and `LaunchComes`, `MainGoes`, `DeathGoes`, `OrphanElsewhere`
that each of them does), threads of attached clients, threads of the server, and its `main`.

`LifeCopyProofs` proves the last invariant of `lifecycle_safety`, `RequestsKept`, from `~CollidingIds`: no
id is drawn that a waiting client has (the run sets `CollidingIds = FALSE`). `Lifecycle` itself adds, for
copies that nobody waits for, that no id is drawn that is in a slot, in a queue or in the hand of a
thread of the server (`FreshDraw`, `OnTheWay`). The invariant is
`LifeCopyInv`, which TLC checks too. It speaks of the system as the segment sees it, in which the threads of
a process that is not attached are not there (`seen`):

* There is at most one copy of each request or response (`OneCopyOfEach`), and a client that is about to
  free the response slot has its own response in it; both unless `disturbed`. Unless `broken` too, every
  client that waits has a copy (`ClientsServed`).
* `CopiesOwned`, the other half of `CopyInv`, is not true here: a copy may outlive its client, in the slot
  or in the server, and then nobody waits for it. This is why a new id must differ from what is on its way
  and not from the ids of clients alone.

The threads' steps are those of the system as it is seen, so the lemmas of `CopyProofs` are used through
the instance `Steps`, and `LifeIInv` gives them what they need (`SeenOrderly`). The other steps only take
copies away: a process that attaches or dies brings none (`ComingKeepsCopies`), what a server had in its
hands dies with it (`DeathKeepsCopies`), a segment that loses its name has no client left that is seen
(`UnlinkKeepsCopies`), `sem_init` of a new segment finds the two semaphores that announce something at
zero, and in an old one the calls empty the slots while nobody waits, or the clients are noted as disturbed
(`InitKeepsCopies`). That a client loses its copy only when the step sets `broken` or `disturbed` is the
point of each of them.

Every safety invariant of every passing run is thus proved, and so are the two refinements of `Service`.
Only model-checked is everything about liveness (`system_fair`, `lifecycle_live`, `trials_live`), which the
prover does not reach.

## 5. Not modelled, and the plan

Planned next:

* `System` with `HashTable` in place of the atomic `Process`, which today is justified by the two
  refinements of `Service`, both of them proved.

Not modelled, and why:

* two servers at once, and a second SIGINT to the server: the program is run with one server, and the
  handler has nothing left to protect once it has unmapped;
* the posts that a request thread takes when it runs the SIGINT handler itself: main waits for as many
  posts in its own handler, so the process ends no earlier (see "Abstractions");
* the start-up of the trial programs, which sets up the same semaphores as `server.cpp`;
* the scripts and plots, and `test_hash.cpp`, which is sequential;
* a table size that is not positive (`server.cpp:130`): the program fails at its first operation;
* progress of a writer of the hash table (`hash.cpp:45`): `shared_mutex` promises no order of service,
  and with readers that keep coming a writer may wait for ever;
* the exit of client 4 (`trial/client4.cpp:144`), which has no bound on its last wait: nothing is claimed.
