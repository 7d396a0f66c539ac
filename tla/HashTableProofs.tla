--------------------------- MODULE HashTableProofs --------------------------
(***************************************************************************)
(* Proofs about the hash table, for any number of threads, strings and     *)
(* buckets and any hash function: types, exclusion of writers, iterators   *)
(* that stay valid, and that the table implements the atomic service.      *)
(***************************************************************************)
EXTENDS HashTable, SequenceTheorems, FiniteSetTheorems, TLAPS

USE DEF Goto

\* The holders of a bucket's lock, and what they do with it: the thread that
\* owns it writes, the threads that share it read, and a lock that is owned is
\* owned once and not shared.
LocksHeld ==
  /\ \A b \in Buckets, t \in Threads :
       /\ t \in owner[b]   <=> Writes(t) /\ Index(t) = b
       /\ t \in sharers[b] <=> Reads(t) /\ Index(t) = b
  /\ \A b \in Buckets, t, u \in Threads : t \in owner[b] /\ u \in owner[b] => t = u
  /\ \A b \in Buckets, t, u \in Threads : ~(t \in owner[b] /\ u \in sharers[b])

\* Each method has its own labels, and a walk starts at the first string.
LabelsFit ==
  \A t \in Threads :
    /\ pc[t] = "lock"             => iter[t] = 1
    /\ pc[t] = "emplace"          => call[t].operation = "INSERT"
    /\ pc[t] = "scan"             => call[t].operation = "READ"
    /\ pc[t] \in {"find", "erase"} => call[t].operation = "DELETE"

TableInv == TypeOK /\ LocksHeld /\ LabelsFit /\ IteratorValid

-----------------------------------------------------------------------------
(* Sequences: what emplace_back and erase do to a chain.                   *)

\* The index of a string is a bucket.
LEMMA HashInRange ==
  ASSUME NEW s \in Values
  PROVE  hashFunction(s) \in Buckets
<1>1. Hash[s] \in Nat /\ TableSize \in Nat \ {0}
  BY TableAssumption
<1>2. \A m \in Nat, n \in Nat \ {0} : m % n \in 0 .. n - 1
  BY SMT
<1> QED
  BY <1>1, <1>2 DEF hashFunction, Buckets

\* Erasing position k moves every later element down by one.
LEMMA RemoveAtElements ==
  ASSUME NEW S, NEW s \in Seq(S), NEW k \in 1 .. Len(s)
  PROVE  /\ RemoveAt(s, k) \in Seq(S)
         /\ Len(RemoveAt(s, k)) = Len(s) - 1
         /\ \A i \in 1 .. Len(s) - 1 : RemoveAt(s, k)[i] = s[IF i < k THEN i ELSE i + 1]
<1> DEFINE low  == SubSeq(s, 1, k - 1)
           high == SubSeq(s, k + 1, Len(s))
<1>0. Len(s) \in Nat /\ k \in Nat /\ 1 <= k /\ k <= Len(s)
  BY LenProperties
<1>1. /\ low \in Seq(S) /\ Len(low) = k - 1
      /\ \A i \in 1 .. k - 1 : low[i] = s[i]
  <2>1. \A i \in 1 .. k - 1 : s[i] \in S
    BY <1>0, ElementOfSeq
  <2>2. /\ low \in Seq(S)
        /\ Len(low) = IF 1 <= k - 1 THEN (k - 1) - 1 + 1 ELSE 0
        /\ \A i \in 1 .. (k - 1) - 1 + 1 : low[i] = s[1 + i - 1]
    BY <1>0, <2>1, SubSeqProperties
  <2> QED
    BY <1>0, <2>2
<1>2. /\ high \in Seq(S) /\ Len(high) = Len(s) - k
      /\ \A i \in 1 .. Len(s) - k : high[i] = s[k + i]
  <2>1. \A i \in k + 1 .. Len(s) : s[i] \in S
    BY <1>0, ElementOfSeq
  <2>2. /\ high \in Seq(S)
        /\ Len(high) = IF k + 1 <= Len(s) THEN Len(s) - (k + 1) + 1 ELSE 0
        /\ \A i \in 1 .. Len(s) - (k + 1) + 1 : high[i] = s[(k + 1) + i - 1]
    BY <1>0, <2>1, SubSeqProperties
  <2> QED
    BY <1>0, <2>2
<1>3. RemoveAt(s, k) = low \o high
  BY DEF RemoveAt
<1>4. /\ low \o high \in Seq(S)
      /\ Len(low \o high) = Len(low) + Len(high)
      /\ \A i \in 1 .. Len(low) + Len(high) :
           (low \o high)[i] = IF i <= Len(low) THEN low[i] ELSE high[i - Len(low)]
  BY <1>1, <1>2, ConcatProperties
<1> HIDE DEF low, high
<1> QED
  BY <1>0, <1>1, <1>2, <1>3, <1>4

\* The positions of a string in a chain.
Places(chain, s) == {i \in DOMAIN chain : chain[i] = s}

\* The copies of a string in a chain are finitely many, and there is one exactly
\* when some position holds the string.
LEMMA CopiesOfChain ==
  ASSUME NEW chain \in Seq(Values), NEW s
  PROVE  /\ IsFiniteSet(Places(chain, s))
         /\ Copies(chain, s) = Cardinality(Places(chain, s))
         /\ Copies(chain, s) \in Nat
         /\ Copies(chain, s) > 0 <=> \E i \in 1 .. Len(chain) : chain[i] = s
<1>1. Len(chain) \in Nat /\ DOMAIN chain = 1 .. Len(chain)
  BY LenProperties
<1>2. IsFiniteSet(1 .. Len(chain))
  BY <1>1, FS_Interval
<1>3. IsFiniteSet(Places(chain, s))
  BY <1>1, <1>2, FS_Subset DEF Places
<1>4. Cardinality(Places(chain, s)) \in Nat
  BY <1>3, FS_CardinalityType
<1>5. Cardinality(Places(chain, s)) = 0 <=> Places(chain, s) = {}
  BY <1>3, FS_EmptySet
<1>6. Copies(chain, s) = Cardinality(Places(chain, s))
  BY DEF Copies, Places
<1>7. Places(chain, s) # {} <=> \E i \in 1 .. Len(chain) : chain[i] = s
  BY <1>1 DEF Places
<1> QED
  BY <1>3, <1>4, <1>5, <1>6, <1>7

\* emplace_back adds one copy of its string and leaves the others alone.
LEMMA CopiesAfterAppend ==
  ASSUME NEW chain \in Seq(Values), NEW v \in Values, NEW s \in Values
  PROVE  Copies(Append(chain, v), s) = IF s = v THEN Copies(chain, s) + 1 ELSE Copies(chain, s)
<1> DEFINE longer == Append(chain, v)
<1>1. /\ longer \in Seq(Values) /\ Len(longer) = Len(chain) + 1
      /\ \A i \in 1 .. Len(chain) : longer[i] = chain[i]
      /\ longer[Len(chain) + 1] = v
  BY AppendProperties
<1>2. /\ Len(chain) \in Nat /\ DOMAIN chain = 1 .. Len(chain)
      /\ DOMAIN longer = 1 .. Len(longer)
  BY <1>1, LenProperties
<1>3. IsFiniteSet(Places(chain, s)) /\ Copies(chain, s) = Cardinality(Places(chain, s))
  BY CopiesOfChain
<1>4. Copies(longer, s) = Cardinality(Places(longer, s))
  BY <1>1, CopiesOfChain
<1> HIDE DEF longer
<1>5. CASE s = v
  <2>1. Places(longer, s) = Places(chain, s) \cup {Len(chain) + 1}
    BY <1>1, <1>2, <1>5 DEF Places
  <2>2. Len(chain) + 1 \notin Places(chain, s)
    BY <1>2 DEF Places
  <2>3. Cardinality(Places(longer, s)) = Cardinality(Places(chain, s)) + 1
    BY <1>3, <2>1, <2>2, FS_AddElement
  <2> QED
    BY <1>3, <1>4, <1>5, <2>3 DEF longer
<1>6. CASE s # v
  <2>1. Places(longer, s) = Places(chain, s)
    BY <1>1, <1>2, <1>6 DEF Places
  <2> QED
    BY <1>3, <1>4, <1>6, <2>1 DEF longer
<1> QED
  BY <1>5, <1>6

\* erase takes away the copy at its position and leaves the others alone.
LEMMA CopiesAfterRemoveAt ==
  ASSUME NEW chain \in Seq(Values), NEW k \in 1 .. Len(chain), NEW s \in Values
  PROVE  Copies(RemoveAt(chain, k), s) =
           IF s = chain[k] THEN Copies(chain, s) - 1 ELSE Copies(chain, s)
<1> DEFINE shorter == RemoveAt(chain, k)
           old(i)  == IF i < k THEN i ELSE i + 1
           left    == Places(chain, s) \ {k}
           f       == [i \in Places(shorter, s) |-> old(i)]
<1>1. /\ shorter \in Seq(Values) /\ Len(shorter) = Len(chain) - 1
      /\ \A i \in 1 .. Len(chain) - 1 : shorter[i] = chain[old(i)]
  BY RemoveAtElements
<1>2. /\ Len(chain) \in Nat /\ DOMAIN chain = 1 .. Len(chain)
      /\ DOMAIN shorter = 1 .. Len(shorter)
  BY <1>1, LenProperties
<1>3. /\ IsFiniteSet(Places(chain, s))
      /\ Copies(chain, s) = Cardinality(Places(chain, s))
  BY CopiesOfChain
<1>4. /\ IsFiniteSet(Places(shorter, s))
      /\ Copies(shorter, s) = Cardinality(Places(shorter, s))
  BY <1>1, CopiesOfChain
<1> HIDE DEF shorter
<1>5. f \in Bijection(Places(shorter, s), left)
  <2>1. \A i \in Places(shorter, s) : i \in 1 .. Len(chain) - 1 /\ chain[old(i)] = s
    BY <1>1, <1>2 DEF Places
  <2>2. f \in [Places(shorter, s) -> left]
    BY <1>2, <2>1 DEF Places
  <2>3. \A i, j \in Places(shorter, s) : f[i] = f[j] => i = j
    BY <2>1
  <2>4. ASSUME NEW j \in left
        PROVE  \E i \in Places(shorter, s) : f[i] = j
    <3>1. j \in 1 .. Len(chain) /\ j # k /\ chain[j] = s
      BY <1>2 DEF Places
    <3>2. CASE j < k
      <4>1. j \in Places(shorter, s)
        BY <1>1, <1>2, <3>1, <3>2 DEF Places
      <4> QED
        BY <3>2, <4>1
    <3>3. CASE j > k
      <4>1. j - 1 \in Places(shorter, s)
        BY <1>1, <1>2, <3>1, <3>3 DEF Places
      <4>2. f[j - 1] = j
        BY <3>1, <3>3, <4>1
      <4> QED
        BY <4>1, <4>2
    <3> QED
      BY <3>1, <3>2, <3>3
  <2> QED
    BY <2>2, <2>3, <2>4 DEF Bijection, Injection, Surjection, IsInjective
<1>6. Cardinality(Places(shorter, s)) = Cardinality(left)
  BY <1>4, <1>5, FS_Bijection DEF ExistsBijection
<1>7. Cardinality(left) = IF k \in Places(chain, s) THEN Cardinality(Places(chain, s)) - 1
                                                   ELSE Cardinality(Places(chain, s))
  BY <1>3, FS_RemoveElement
<1>8. k \in Places(chain, s) <=> s = chain[k]
  BY <1>2 DEF Places
<1> QED
  BY <1>3, <1>4, <1>6, <1>7, <1>8 DEF shorter

-----------------------------------------------------------------------------
(* The invariant.                                                          *)

\* The empty table that the constructor makes satisfies the invariant.
LEMMA InitEstablishesTableInv ==
  ASSUME Init
  PROVE  TableInv
<1> USE DEF Init
<1>1. TypeOK
  BY EmptySeq DEF TypeOK, Labels, hashFunction
<1>2. LocksHeld /\ LabelsFit /\ IteratorValid
  BY DEF LocksHeld, LabelsFit, IteratorValid, Writes, Reads, Locked
<1> QED
  BY <1>1, <1>2 DEF TableInv

\* What thread t works on, once it has called.
LEMMA CallsHaveBuckets ==
  ASSUME TypeOK, NEW t \in Threads, pc[t] # "idle"
  PROVE  /\ call[t] \in Calls /\ call[t].operation \in Ops /\ call[t].value \in Values
         /\ Index(t) \in Buckets
         /\ Chain(t) \in Seq(Values)
         /\ iter[t] \in Nat \ {0}
         /\ hashFunction(call[t].value) = Index(t)
<1>1. call[t] \in Calls /\ iter[t] \in Nat \ {0}
  BY DEF TypeOK
<1>2. call[t].operation \in Ops /\ call[t].value \in Values
  BY <1>1 DEF Calls
<1>3. Index(t) \in Buckets /\ hashFunction(call[t].value) = Index(t)
  BY <1>2, HashInRange DEF Index
<1>4. Chain(t) \in Seq(Values)
  BY <1>3 DEF TypeOK, Chain
<1> QED
  BY <1>1, <1>2, <1>3, <1>4

\* Types: an insert and a remove change one chain, and keep every string in the
\* bucket of its hash.
LEMMA StepKeepsTypes ==
  ASSUME TypeOK, NEW t \in Threads, Call(t) \/ Step(t)
  PROVE  TypeOK'
<1> USE DEF TypeOK, Labels
<1>1. CASE Call(t)
  BY <1>1 DEF Call, lockVars, hashFunction
<1>2. CASE LockUnique(t)
  BY <1>2 DEF LockUnique, hashFunction
<1>3. CASE LockShared(t)
  BY <1>3 DEF LockShared, hashFunction
<1>4. CASE Emplace(t)
  <2>1. /\ call[t].value \in Values /\ Index(t) \in Buckets /\ Chain(t) \in Seq(Values)
        /\ hashFunction(call[t].value) = Index(t)
    BY <1>4, CallsHaveBuckets DEF Emplace
  <2> DEFINE longer == Append(Chain(t), call[t].value)
  <2>2. /\ longer \in Seq(Values) /\ Len(longer) = Len(Chain(t)) + 1
        /\ \A i \in 1 .. Len(Chain(t)) : longer[i] = Chain(t)[i]
        /\ longer[Len(Chain(t)) + 1] = call[t].value
    BY <2>1, AppendProperties
  <2>3. items' = [items EXCEPT ![Index(t)] = longer]
    BY <1>4 DEF Emplace, Chain
  <2>4. /\ Len(Chain(t)) \in Nat /\ DOMAIN Chain(t) = 1 .. Len(Chain(t))
        /\ DOMAIN longer = 1 .. Len(longer)
    BY <2>1, <2>2, LenProperties
  <2>5. \A i \in DOMAIN longer : hashFunction(longer[i]) = Index(t)
    BY <2>1, <2>2, <2>4 DEF Chain
  <2> HIDE DEF longer
  <2>6. items' \in [Buckets -> Seq(Values)]
    BY <2>1, <2>2, <2>3
  <2>7. \A b \in Buckets : \A i \in DOMAIN items'[b] : hashFunction(items'[b][i]) = b
    BY <2>1, <2>3, <2>5
  <2>8. \A s : hashFunction(s)' = hashFunction(s)
    BY DEF hashFunction
  <2> QED
    BY <1>4, <2>6, <2>7, <2>8 DEF Emplace, lockVars
<1>5. CASE ScanNext(t)
  BY <1>5 DEF ScanNext, lockVars, hashFunction
<1>6. CASE ScanEnd(t)
  BY <1>6 DEF ScanEnd, Hit, lockVars, hashFunction
<1>7. CASE FindNext(t)
  BY <1>7 DEF FindNext, lockVars, hashFunction
<1>8. CASE FindEnd(t)
  BY <1>8 DEF FindEnd, lockVars, hashFunction
<1>9. CASE Erase(t)
  <2>1. /\ Index(t) \in Buckets /\ Chain(t) \in Seq(Values) /\ iter[t] \in Nat \ {0}
    BY <1>9, CallsHaveBuckets DEF Erase
  <2>2. CASE AtEnd(t)
    BY <1>9, <2>2 DEF Erase, lockVars, hashFunction
  <2>3. CASE ~AtEnd(t)
    <3>1. /\ iter[t] \in 1 .. Len(Chain(t))
          /\ Len(Chain(t)) \in Nat /\ DOMAIN Chain(t) = 1 .. Len(Chain(t))
      BY <2>1, <2>3, LenProperties DEF AtEnd
    <3> DEFINE shorter == RemoveAt(Chain(t), iter[t])
    <3>2. /\ shorter \in Seq(Values) /\ Len(shorter) = Len(Chain(t)) - 1
          /\ \A i \in 1 .. Len(Chain(t)) - 1 :
               shorter[i] = Chain(t)[IF i < iter[t] THEN i ELSE i + 1]
      BY <2>1, <3>1, RemoveAtElements
    <3>3. DOMAIN shorter = 1 .. Len(shorter)
      BY <3>2, LenProperties
    <3>4. items' = [items EXCEPT ![Index(t)] = shorter]
      BY <1>9, <2>3 DEF Erase, Chain
    <3> HIDE DEF shorter
    <3>5. \A i \in DOMAIN shorter : hashFunction(shorter[i]) = Index(t)
      <4>1. \A j \in 1 .. Len(Chain(t)) : hashFunction(Chain(t)[j]) = Index(t)
        BY <2>1, <3>1 DEF Chain
      <4> SUFFICES ASSUME NEW i \in 1 .. Len(Chain(t)) - 1
                   PROVE  hashFunction(shorter[i]) = Index(t)
        BY <3>2, <3>3
      <4>2. CASE i < iter[t]
        BY <3>1, <3>2, <4>1, <4>2
      <4>3. CASE ~(i < iter[t])
        <5>1. shorter[i] = Chain(t)[i + 1] /\ i + 1 \in 1 .. Len(Chain(t))
          BY <3>1, <3>2, <4>3
        <5> QED
          BY <4>1, <5>1
      <4> QED
        BY <4>2, <4>3
    <3>6. items' \in [Buckets -> Seq(Values)]
      BY <2>1, <3>2, <3>4
    <3>7. \A b \in Buckets : \A i \in DOMAIN items'[b] : hashFunction(items'[b][i]) = b
      BY <2>1, <3>4, <3>5
    <3>8. \A s : hashFunction(s)' = hashFunction(s)
      BY DEF hashFunction
    <3> QED
      BY <1>9, <3>6, <3>7, <3>8 DEF Erase, lockVars
  <2> QED
    BY <2>2, <2>3
<1>10. CASE Unlock(t)
  BY <1>10 DEF Unlock, hashFunction
<1>11. CASE Return(t)
  BY <1>11 DEF Return, lockVars, hashFunction
<1> QED
  BY <1>1, <1>2, <1>3, <1>4, <1>5, <1>6, <1>7, <1>8, <1>9, <1>10, <1>11 DEF Step

\* The lock: a writer comes in when nobody is there, a reader when no writer is.
LEMMA StepKeepsLocks ==
  ASSUME TypeOK, LocksHeld, LabelsFit, NEW t \in Threads, Call(t) \/ Step(t)
  PROVE  LocksHeld' /\ LabelsFit'
<1> USE DEF LocksHeld, LabelsFit, Writes, Reads, Locked, Index
<1>0. /\ pc \in [Threads -> Labels] /\ call \in [Threads -> Calls \cup {NoCall}]
      /\ iter \in [Threads -> Nat \ {0}]
  BY DEF TypeOK
<1>1. CASE Call(t)
  BY <1>0, <1>1 DEF Call, lockVars
<1>2. CASE LockUnique(t)
  <2>1. Index(t) \in Buckets
    BY <1>2, CallsHaveBuckets DEF LockUnique
  <2> QED
    BY <1>0, <1>2, <2>1 DEF LockUnique, TypeOK
<1>3. CASE LockShared(t)
  <2>1. Index(t) \in Buckets
    BY <1>3, CallsHaveBuckets DEF LockShared
  <2> QED
    BY <1>0, <1>3, <2>1 DEF LockShared, TypeOK
<1>4. CASE Emplace(t)
  BY <1>0, <1>4 DEF Emplace, lockVars
<1>5. CASE ScanNext(t)
  BY <1>0, <1>5 DEF ScanNext, lockVars
<1>6. CASE ScanEnd(t)
  BY <1>0, <1>6 DEF ScanEnd, lockVars
<1>7. CASE FindNext(t)
  BY <1>0, <1>7 DEF FindNext, lockVars
<1>8. CASE FindEnd(t)
  BY <1>0, <1>8 DEF FindEnd, lockVars
<1>9. CASE Erase(t)
  BY <1>0, <1>9 DEF Erase, lockVars
<1>10. CASE Unlock(t)
  <2>1. Index(t) \in Buckets
    BY <1>10, CallsHaveBuckets DEF Unlock
  <2> QED
    BY <1>0, <1>10, <2>1 DEF Unlock, TypeOK
<1>11. CASE Return(t)
  BY <1>0, <1>11 DEF Return, lockVars
<1> QED
  BY <1>1, <1>2, <1>3, <1>4, <1>5, <1>6, <1>7, <1>8, <1>9, <1>10, <1>11 DEF Step

\* Whoever holds a bucket for writing is alone in it.
LEMMA LocksExclude ==
  ASSUME TypeOK, LocksHeld
  PROVE  WriterAlone
<1> SUFFICES ASSUME NEW t \in Threads, NEW u \in Threads,
                    Writes(t), Writes(u) \/ Reads(u), Index(t) = Index(u)
             PROVE  t = u
  BY DEF WriterAlone
<1>1. Index(t) \in Buckets
  BY CallsHaveBuckets DEF Writes, Locked
<1>2. t \in owner[Index(t)]
  BY <1>1 DEF LocksHeld
<1>3. u \in owner[Index(t)] \/ u \in sharers[Index(t)]
  BY <1>1 DEF LocksHeld
<1> QED
  BY <1>1, <1>2, <1>3 DEF LocksHeld

\* What an iterator promises while its thread walks the chain.
WalkGood(t) ==
  pc[t] \in {"scan", "find", "erase"} =>
    /\ iter[t] <= Len(Chain(t)) + 1
    /\ \A i \in 1 .. iter[t] - 1 : Chain(t)[i] # call[t].value
    /\ pc[t] = "erase" => AtEnd(t) \/ Hit(t)

\* A step of one thread leaves the chain that another one walks alone: only an
\* insert or a remove changes a chain, and it has the bucket to itself.
LEMMA StepLeavesOthersAlone ==
  ASSUME TypeOK, LocksHeld, LabelsFit, NEW t \in Threads, Call(t) \/ Step(t),
         NEW u \in Threads, u # t, pc[u] \in {"scan", "find", "erase"}
  PROVE  /\ pc'[u] = pc[u] /\ call'[u] = call[u] /\ iter'[u] = iter[u]
         /\ items'[Index(u)] = items[Index(u)]
<1>1. /\ pc'[u] = pc[u] /\ call'[u] = call[u] /\ iter'[u] = iter[u]
  BY DEF TypeOK, Call, Step, LockUnique, LockShared, Emplace, ScanNext, ScanEnd,
         FindNext, FindEnd, Erase, Unlock, Return, lockVars
<1>2. CASE items' = items
  BY <1>1, <1>2
<1>3. CASE items' # items
  <2>1. /\ pc[t] \in {"emplace", "erase"}
        /\ \E chain : items' = [items EXCEPT ![Index(t)] = chain]
    <3>1. CASE Emplace(t)
      BY <3>1 DEF Emplace
    <3>2. CASE Erase(t)
      BY <1>3, <3>2 DEF Erase
    <3> QED
      BY <1>3, <3>1, <3>2 DEF Call, Step, LockUnique, LockShared, ScanNext, ScanEnd,
         FindNext, FindEnd, Unlock, Return, lockVars
  <2>2. Writes(t)
    BY <2>1 DEF Writes, Locked, LabelsFit
  <2>3. Writes(u) \/ Reads(u)
    BY DEF Writes, Reads, Locked, LabelsFit
  <2>4. Index(t) # Index(u)
    BY <2>2, <2>3, LocksExclude DEF WriterAlone
  <2>5. Index(t) \in Buckets /\ Index(u) \in Buckets
    BY <2>1, CallsHaveBuckets
  <2> QED
    BY <1>1, <2>1, <2>4, <2>5 DEF TypeOK
<1> QED
  BY <1>2, <1>3

\* Iterators stay valid.
LEMMA StepKeepsIterators ==
  ASSUME TypeOK, LocksHeld, LabelsFit, IteratorValid, NEW t \in Threads, Call(t) \/ Step(t)
  PROVE  IteratorValid'
<1> SUFFICES ASSUME NEW u \in Threads
             PROVE  WalkGood(u)'
  BY DEF IteratorValid, WalkGood
<1>1. WalkGood(u)
  BY DEF IteratorValid, WalkGood
<1>2. CASE u # t /\ pc'[u] \in {"scan", "find", "erase"}
  <2>1. pc[u] \in {"scan", "find", "erase"}
    BY <1>2 DEF TypeOK, Call, Step, LockUnique, LockShared, Emplace, ScanNext, ScanEnd,
         FindNext, FindEnd, Erase, Unlock, Return, lockVars
  <2>2. /\ pc'[u] = pc[u] /\ call'[u] = call[u] /\ iter'[u] = iter[u]
        /\ items'[Index(u)] = items[Index(u)]
    BY <1>2, <2>1, StepLeavesOthersAlone
  <2>3. Index(u)' = Index(u) /\ Chain(u)' = Chain(u)
    BY <2>2 DEF Index, Chain, hashFunction
  <2> QED
    BY <1>1, <2>1, <2>2, <2>3 DEF WalkGood, AtEnd, Hit
<1>3. CASE u = t /\ pc'[t] \in {"scan", "find", "erase"}
  <2>1. /\ pc \in [Threads -> Labels] /\ iter \in [Threads -> Nat \ {0}]
        /\ pc[t] # "idle"
    BY <1>3 DEF TypeOK, Call, Step, LockUnique, LockShared, Emplace, ScanNext, ScanEnd,
         FindNext, FindEnd, Erase, Unlock, Return
  <2>2. Chain(t) \in Seq(Values) /\ Len(Chain(t)) \in Nat
    BY <2>1, CallsHaveBuckets, LenProperties
  <2>3. call' = call /\ items' = items
    BY <1>3, <2>1 DEF Call, Step, LockUnique, LockShared, Emplace, ScanNext, ScanEnd,
         FindNext, FindEnd, Erase, Unlock, Return, lockVars
  <2>4. Index(t)' = Index(t) /\ Chain(t)' = Chain(t)
    BY <2>3 DEF Index, Chain, hashFunction
  <2>5. CASE LockUnique(t) \/ LockShared(t)
    <3>1. iter'[t] = 1 /\ pc'[t] # "erase"
      BY <2>1, <2>5 DEF LockUnique, LockShared, LabelsFit
    <3> QED
      BY <1>3, <2>2, <2>4, <3>1 DEF WalkGood
  <2>6. CASE ScanNext(t) \/ FindNext(t)
    <3>1. /\ iter'[t] = iter[t] + 1 /\ pc'[t] = pc[t]
          /\ pc[t] \in {"scan", "find"}
          /\ iter[t] <= Len(Chain(t)) /\ Chain(t)[iter[t]] # call[t].value
      BY <2>1, <2>2, <2>6 DEF ScanNext, FindNext, AtEnd, Hit
    <3>2. \A i \in 1 .. iter[t] - 1 : Chain(t)[i] # call[t].value
      BY <1>1, <1>3, <3>1 DEF WalkGood
    <3>3. \A i \in 1 .. iter'[t] - 1 : Chain(t)[i] # call[t].value
      BY <2>1, <3>1, <3>2
    <3> QED
      BY <1>3, <2>1, <2>2, <2>3, <2>4, <3>1, <3>3 DEF WalkGood
  <2>7. CASE FindEnd(t)
    <3>1. /\ pc[t] = "find" /\ pc'[t] = "erase" /\ iter' = iter
          /\ AtEnd(t) \/ Hit(t)
      BY <2>1, <2>7 DEF FindEnd
    <3>2. AtEnd(t)' = AtEnd(t) /\ Hit(t)' = Hit(t)
      BY <2>3, <2>4, <3>1 DEF AtEnd, Hit
    <3> QED
      BY <1>1, <1>3, <2>3, <2>4, <3>1, <3>2 DEF WalkGood
  <2> QED
    BY <1>3, <2>1, <2>5, <2>6, <2>7 DEF Call, Step, Emplace, ScanEnd, Erase, Unlock, Return
<1> QED
  BY <1>2, <1>3 DEF WalkGood

-----------------------------------------------------------------------------
(* The theorems.                                                           *)

\* The inductive invariant: it holds of every state, whatever the threads call.
THEOREM TableInvariance == Spec => []TableInv
<1>1. Init => TableInv
  BY InitEstablishesTableInv
<1>2. TableInv /\ [Next]_vars => TableInv'
  <2> SUFFICES ASSUME TableInv, [Next]_vars
               PROVE  TableInv'
    OBVIOUS
  <2>1. CASE Next
    <3>1. PICK t \in Threads : Call(t) \/ Step(t)
      BY <2>1 DEF Next
    <3> QED
      BY <3>1, StepKeepsTypes, StepKeepsLocks, StepKeepsIterators DEF TableInv
  <2>2. CASE UNCHANGED vars
    BY <2>2 DEF vars, TableInv, TypeOK, LocksHeld, LabelsFit, IteratorValid, Writes, Reads,
         Index, Chain, AtEnd, Hit, hashFunction
  <2> QED
    BY <2>1, <2>2
<1> QED
  BY <1>1, <1>2, PTL DEF Spec

\* The variables keep their types, and every string is in the bucket of its hash.
THEOREM TableTypeCorrect == Spec => []TypeOK
  BY TableInvariance, PTL DEF TableInv

\* A thread that inserts into a bucket or removes from it is alone there.
THEOREM WritersAreAlone == Spec => []WriterAlone
<1>1. TableInv => WriterAlone
  BY LocksExclude DEF TableInv
<1> QED
  BY <1>1, TableInvariance, PTL

\* What remove erases is what it found, and no walk skips a copy of its string.
THEOREM IteratorsStayValid == Spec => []IteratorValid
<1>1. TableInv => IteratorValid
  BY DEF TableInv
<1> QED
  BY <1>1, TableInvariance, PTL

-----------------------------------------------------------------------------
(* The table implements the atomic service: what a caller of the service   *)
(* sees of a state, and the one step of a call that takes effect.          *)

Bag   == [s \in Values |-> Copies(items[hashFunction(s)], s)]
Phase == [t \in Threads |-> ServicePhase(t)]

\* The phase that a label stands for.
PhaseAt(label) ==
  IF label = "idle" THEN "idle"
  ELSE IF label \in {"unlock", "done"} THEN "answered" ELSE "waiting"

\* The phase of a thread is that of its label.
LEMMA PhaseOfLabel == Phase = [t \in Threads |-> PhaseAt(pc[t])]
  BY DEF Phase, ServicePhase, PhaseAt

\* A thread that moves to another label moves to the phase of that label.
LEMMA PhaseMoves ==
  ASSUME TypeOK, NEW t \in Threads, NEW there, pc' = [pc EXCEPT ![t] = there]
  PROVE  /\ Phase[t] = PhaseAt(pc[t])
         /\ Phase' = [Phase EXCEPT ![t] = PhaseAt(there)]
<1>1. pc \in [Threads -> Labels]
  BY DEF TypeOK
<1>2. Phase' = [u \in Threads |-> PhaseAt(pc'[u])]
  BY PhaseOfLabel DEF Phase, ServicePhase, PhaseAt
<1> QED
  BY <1>1, <1>2, PhaseOfLabel

\* The string that a thread works on has a copy where its walk stops, or none.
LEMMA WalkDecides ==
  ASSUME TypeOK, IteratorValid, NEW t \in Threads,
         pc[t] \in {"scan", "find", "erase"}, AtEnd(t) \/ Hit(t)
  PROVE  /\ Bag[call[t].value] = Copies(Chain(t), call[t].value)
         /\ Bag[call[t].value] \in Nat
         /\ AtEnd(t) => Bag[call[t].value] = 0
         /\ Hit(t)   => Bag[call[t].value] > 0
<1>1. /\ call[t].value \in Values /\ Chain(t) \in Seq(Values) /\ iter[t] \in Nat \ {0}
      /\ Chain(t) = items[hashFunction(call[t].value)]
  BY CallsHaveBuckets DEF Chain, Index
<1>2. /\ Copies(Chain(t), call[t].value) \in Nat
      /\ Copies(Chain(t), call[t].value) > 0 <=>
           \E i \in 1 .. Len(Chain(t)) : Chain(t)[i] = call[t].value
  BY <1>1, CopiesOfChain
<1>3. Len(Chain(t)) \in Nat
  BY <1>1, LenProperties
<1>4. \A i \in 1 .. iter[t] - 1 : Chain(t)[i] # call[t].value
  BY DEF IteratorValid
<1>5. AtEnd(t) => ~ \E i \in 1 .. Len(Chain(t)) : Chain(t)[i] = call[t].value
  BY <1>1, <1>3, <1>4 DEF AtEnd
<1>6. Hit(t) => \E i \in 1 .. Len(Chain(t)) : Chain(t)[i] = call[t].value
  <2> SUFFICES ASSUME Hit(t)
               PROVE  iter[t] \in 1 .. Len(Chain(t)) /\ Chain(t)[iter[t]] = call[t].value
    OBVIOUS
  <2> QED
    BY <1>1, <1>3 DEF AtEnd, Hit
<1>7. Bag[call[t].value] = Copies(Chain(t), call[t].value)
  BY <1>1 DEF Bag
<1> QED
  BY <1>2, <1>5, <1>6, <1>7

\* insert puts one more copy of its string into the table.
LEMMA EmplaceAddsOne ==
  ASSUME TypeOK, NEW t \in Threads, Emplace(t)
  PROVE  Bag' = [Bag EXCEPT ![call[t].value] = @ + 1]
<1>1. /\ call[t].value \in Values /\ Index(t) \in Buckets /\ Chain(t) \in Seq(Values)
      /\ hashFunction(call[t].value) = Index(t)
  BY CallsHaveBuckets DEF Emplace
<1>2. items' = [items EXCEPT ![Index(t)] = Append(Chain(t), call[t].value)]
  BY DEF Emplace, Chain
<1>3. items \in [Buckets -> Seq(Values)]
  BY DEF TypeOK
<1>4. ASSUME NEW s \in Values
      PROVE  Copies(items'[hashFunction(s)], s) =
               IF s = call[t].value THEN Bag[s] + 1 ELSE Bag[s]
  <2>1. hashFunction(s) \in Buckets /\ Bag[s] = Copies(items[hashFunction(s)], s)
    BY HashInRange DEF Bag
  <2>2. CASE hashFunction(s) = Index(t)
    <3>1. items'[hashFunction(s)] = Append(Chain(t), call[t].value)
      BY <1>1, <1>2, <1>3, <2>2
    <3>2. Bag[s] = Copies(Chain(t), s)
      BY <2>1, <2>2 DEF Chain
    <3> QED
      BY <1>1, <3>1, <3>2, CopiesAfterAppend
  <2>3. CASE hashFunction(s) # Index(t)
    BY <1>1, <1>2, <1>3, <2>1, <2>3
  <2> QED
    BY <2>2, <2>3
<1>5. Bag' = [s \in Values |-> Copies(items'[hashFunction(s)], s)]
  BY DEF Bag, hashFunction, Copies
<1>6. Bag = [s \in Values |-> Bag[s]]
  BY DEF Bag
<1> QED
  BY <1>1, <1>4, <1>5, <1>6

\* remove takes one copy of its string out of the table when there is one.
LEMMA EraseTakesOne ==
  ASSUME TypeOK, IteratorValid, NEW t \in Threads, Erase(t)
  PROVE  Bag' = [Bag EXCEPT ![call[t].value] = IF @ > 0 THEN @ - 1 ELSE 0]
<1>1. /\ call[t].value \in Values /\ Index(t) \in Buckets /\ Chain(t) \in Seq(Values)
      /\ hashFunction(call[t].value) = Index(t)
      /\ iter[t] \in Nat \ {0}
  BY CallsHaveBuckets DEF Erase
<1>2. items \in [Buckets -> Seq(Values)]
  BY DEF TypeOK
<1>3. pc[t] = "erase" /\ (AtEnd(t) \/ Hit(t))
  BY DEF Erase, IteratorValid
<1>4. /\ Bag[call[t].value] \in Nat
      /\ AtEnd(t) => Bag[call[t].value] = 0
      /\ Hit(t)   => Bag[call[t].value] > 0
  BY <1>3, WalkDecides
<1>5. Bag = [s \in Values |-> Bag[s]]
  BY DEF Bag
<1>6. CASE AtEnd(t)
  <2>1. items' = items
    BY <1>6 DEF Erase
  <2>2. Bag' = Bag
    BY <2>1 DEF Bag, hashFunction
  <2> QED
    BY <1>1, <1>4, <1>5, <1>6, <2>2
<1>7. CASE ~AtEnd(t)
  <2>1. /\ iter[t] \in 1 .. Len(Chain(t)) /\ Chain(t)[iter[t]] = call[t].value
    BY <1>1, <1>3, <1>7, LenProperties DEF AtEnd, Hit
  <2>2. items' = [items EXCEPT ![Index(t)] = RemoveAt(Chain(t), iter[t])]
    BY <1>7 DEF Erase, Chain
  <2>3. ASSUME NEW s \in Values
        PROVE  Copies(items'[hashFunction(s)], s) =
                 IF s = call[t].value THEN Bag[s] - 1 ELSE Bag[s]
    <3>1. hashFunction(s) \in Buckets /\ Bag[s] = Copies(items[hashFunction(s)], s)
      BY HashInRange DEF Bag
    <3>2. CASE hashFunction(s) = Index(t)
      <4>1. items'[hashFunction(s)] = RemoveAt(Chain(t), iter[t])
        BY <1>1, <1>2, <2>2, <3>2
      <4>2. Bag[s] = Copies(Chain(t), s)
        BY <3>1, <3>2 DEF Chain
      <4> QED
        BY <1>1, <2>1, <4>1, <4>2, CopiesAfterRemoveAt
    <3>3. CASE hashFunction(s) # Index(t)
      BY <1>1, <1>2, <2>2, <3>1, <3>3
    <3> QED
      BY <3>2, <3>3
  <2>4. Bag' = [s \in Values |-> Copies(items'[hashFunction(s)], s)]
    BY DEF Bag, hashFunction, Copies
  <2>5. Bag' = [Bag EXCEPT ![call[t].value] = @ - 1]
    BY <1>1, <1>5, <2>3, <2>4
  <2> QED
    BY <1>3, <1>4, <1>7, <2>5
<1> QED
  BY <1>6, <1>7

\* The empty table is the service's initial state.
LEMMA InitIsServiceInit ==
  ASSUME Init
  PROVE  Promise!Init
<1>1. ASSUME NEW s
      PROVE  Copies(<<>>, s) = 0
  <2>1. {i \in DOMAIN <<>> : <<>>[i] = s} = {}
    OBVIOUS
  <2> QED
    BY <2>1, FS_EmptySet DEF Copies
<1>2. \A s \in Values : items[hashFunction(s)] = <<>>
  BY HashInRange DEF Init
<1>3. Bag = [s \in Values |-> 0]
  BY <1>1, <1>2 DEF Bag
<1>4. Phase = [t \in Threads |-> "idle"]
  BY PhaseOfLabel DEF Init, PhaseAt
<1> QED
  BY <1>3, <1>4 DEF Init, Promise!Init, Bag, Phase, NoCall, Promise!NoCall

\* The three steps that take effect: the one that appends, the one that ends a
\* read and the one that erases.
LEMMA EffectIsServiceEffect ==
  ASSUME TypeOK, LabelsFit, IteratorValid, NEW t \in Threads,
         Emplace(t) \/ ScanEnd(t) \/ Erase(t)
  PROVE  Promise!TakeEffect(t)
<1>1. /\ pc[t] \in {"emplace", "scan", "erase"}
      /\ pc' = [pc EXCEPT ![t] = "unlock"]
      /\ call' = call
  BY DEF Emplace, ScanEnd, Erase
<1>2. Phase[t] = "waiting" /\ Phase' = [Phase EXCEPT ![t] = "answered"]
  BY <1>1, PhaseMoves DEF PhaseAt
<1>3. CASE Emplace(t)
  <2>1. call[t].operation = "INSERT"
    BY <1>3 DEF Emplace, LabelsFit
  <2>2. Bag' = [Bag EXCEPT ![call[t].value] = @ + 1]
    BY <1>3, EmplaceAddsOne
  <2>3. result' = [result EXCEPT ![t] = TRUE]
    BY <1>3 DEF Emplace
  <2> QED
    BY <1>1, <1>2, <2>1, <2>2, <2>3
       DEF Promise!TakeEffect, Promise!After, Promise!Present, Bag, Phase
<1>4. CASE ScanEnd(t)
  <2>1. call[t].operation = "READ" /\ pc[t] = "scan" /\ (AtEnd(t) \/ Hit(t))
    BY <1>4 DEF ScanEnd, LabelsFit
  <2>2. Bag' = Bag
    BY <1>4 DEF ScanEnd, Bag, hashFunction
  <2>3. Hit(t) = (Bag[call[t].value] > 0)
    <3>1. Hit(t) <=> Bag[call[t].value] > 0
      BY <2>1, WalkDecides
    <3>2. Hit(t) \in BOOLEAN
      BY DEF Hit
    <3> QED
      BY <3>1, <3>2
  <2>4. result' = [result EXCEPT ![t] = (Bag[call[t].value] > 0)]
    BY <1>4, <2>3 DEF ScanEnd
  <2> QED
    BY <1>1, <1>2, <2>1, <2>2, <2>4
       DEF Promise!TakeEffect, Promise!After, Promise!Present, Bag, Phase
<1>5. CASE Erase(t)
  <2>1. call[t].operation = "DELETE"
    BY <1>5 DEF Erase, LabelsFit
  <2>2. Bag' = [Bag EXCEPT ![call[t].value] = IF @ > 0 THEN @ - 1 ELSE 0]
    BY <1>5, EraseTakesOne
  <2>3. result' = [result EXCEPT ![t] = TRUE]
    BY <1>5 DEF Erase
  <2> QED
    BY <1>1, <1>2, <2>1, <2>2, <2>3
       DEF Promise!TakeEffect, Promise!After, Promise!Present, Bag, Phase
<1> QED
  BY <1>3, <1>4, <1>5

\* Every step of the table is a step of the service, or none.
LEMMA StepIsServiceStep ==
  ASSUME TypeOK, LabelsFit, IteratorValid, NEW t \in Threads, Call(t) \/ Step(t)
  PROVE  Promise!Ask(t) \/ Promise!TakeEffect(t) \/ Promise!Receive(t) \/ UNCHANGED Promise!vars
<1>1. CASE Call(t)
  <2>0. pc[t] = "idle" /\ pc' = [pc EXCEPT ![t] = "lock"]
    BY <1>1 DEF Call
  <2>1. Phase[t] = "idle" /\ Phase' = [Phase EXCEPT ![t] = "waiting"]
    <3>1. PhaseAt("idle") = "idle" /\ PhaseAt("lock") = "waiting"
      BY DEF PhaseAt
    <3>2. Phase[t] = PhaseAt("idle") /\ Phase' = [Phase EXCEPT ![t] = PhaseAt("lock")]
      BY <2>0, PhaseMoves
    <3> QED
      BY <3>1, <3>2
  <2>2. Bag' = Bag
    BY <1>1 DEF Call, Bag, hashFunction
  <2>3. \E q \in Calls : call' = [call EXCEPT ![t] = q]
    BY <1>1 DEF Call
  <2>4. result' = result
    BY <1>1 DEF Call
  <2> QED
    BY <2>1, <2>2, <2>3, <2>4
       DEF Promise!Ask, Bag, Phase, Calls, Promise!Calls, Ops, Promise!Ops
<1>2. CASE Emplace(t) \/ ScanEnd(t) \/ Erase(t)
  BY <1>2, EffectIsServiceEffect
<1>3. CASE Return(t)
  <2>1. Phase[t] = "answered" /\ Phase' = [Phase EXCEPT ![t] = "idle"]
    BY <1>3, PhaseMoves DEF Return, PhaseAt
  <2>2. Bag' = Bag
    BY <1>3 DEF Return, Bag, hashFunction
  <2> QED
    BY <1>3, <2>1, <2>2 DEF Return, Promise!Receive, Bag, Phase, NoCall, Promise!NoCall
<1>4. CASE LockUnique(t) \/ LockShared(t) \/ FindEnd(t) \/ Unlock(t)
  <2>1. \E there \in Labels : /\ PhaseAt(there) = PhaseAt(pc[t])
                              /\ pc' = [pc EXCEPT ![t] = there]
    BY <1>4 DEF LockUnique, LockShared, FindEnd, Unlock, PhaseAt, Labels
  <2>2. Phase' = Phase
    <3>1. PICK there \in Labels : /\ PhaseAt(there) = PhaseAt(pc[t])
                                  /\ pc' = [pc EXCEPT ![t] = there]
      BY <2>1
    <3>2. Phase' = [Phase EXCEPT ![t] = Phase[t]]
      BY <3>1, PhaseMoves
    <3> QED
      BY <3>2 DEF Phase
  <2>3. items' = items /\ call' = call /\ result' = result
    BY <1>4 DEF LockUnique, LockShared, FindEnd, Unlock, lockVars
  <2>4. Bag' = Bag
    BY <2>3 DEF Bag, hashFunction
  <2> QED
    BY <2>2, <2>3, <2>4 DEF Promise!vars, Bag, Phase
<1>5. CASE ScanNext(t) \/ FindNext(t)
  <2>1. items' = items /\ pc' = pc /\ call' = call /\ result' = result
    BY <1>5 DEF ScanNext, FindNext
  <2>2. Bag' = Bag /\ Phase' = Phase
    BY <2>1 DEF Bag, Phase, ServicePhase, hashFunction
  <2> QED
    BY <2>1, <2>2 DEF Promise!vars, Bag, Phase
<1> QED
  BY <1>1, <1>2, <1>3, <1>4, <1>5 DEF Step

\* The table is linearizable: insert, read and remove called by any number of
\* threads, whose walks over the chains interleave, take effect one at a time,
\* each in one step between its call and its return.
THEOREM TableImplementsService == Spec => ImplementsService
<1>1. Init => Promise!Init
  BY InitIsServiceInit
<1>2. TableInv /\ [Next]_vars => [Promise!Next]_Promise!vars
  <2> SUFFICES ASSUME TableInv, [Next]_vars
               PROVE  Promise!Next \/ UNCHANGED Promise!vars
    OBVIOUS
  <2>1. CASE Next
    <3>1. PICK t \in Threads : Call(t) \/ Step(t)
      BY <2>1 DEF Next
    <3>2. Promise!Ask(t) \/ Promise!TakeEffect(t) \/ Promise!Receive(t) \/ UNCHANGED Promise!vars
      BY <3>1, StepIsServiceStep DEF TableInv
    <3> QED
      BY <3>2 DEF Promise!Next
  <2>2. CASE UNCHANGED vars
    <3>1. Bag' = Bag /\ Phase' = Phase
      BY <2>2 DEF vars, Bag, Phase, ServicePhase, hashFunction
    <3> QED
      BY <2>2, <3>1 DEF vars, Promise!vars, Bag, Phase
  <2> QED
    BY <2>1, <2>2
<1> QED
  BY <1>1, <1>2, TableInvariance, PTL DEF Spec, ImplementsService, Promise!Spec
=============================================================================
