------------------------ MODULE AttendanceCodeProofs ------------------------
(***************************************************************************)
(* AttendanceCode for any counters, any finite set of request threads and  *)
(* any limit, with both faults: type correctness, the bound on the wrong   *)
(* codes a counter ever lets through, and what becomes of every miss.      *)
(***************************************************************************)
EXTENDS AttendanceCode, FiniteSetTheorems, TLAPS

Bound == MaxWrong + Cardinality(Threads)

\* The threads that may still count a miss of counter k in memory without
\* reading the limit there: they hold a client, or are past the limit.
Counting(k) ==
    {r \in Threads : /\ req[r].pc \in {"get", "judge", "incr", "expire", "count"}
                     /\ req[r].counter = k}

\* The threads about to send an INCR for k.
Recording(k) == {r \in Threads : req[r].pc = "incr" /\ req[r].counter = k}

(***************************************************************************)
(* The inductive invariant.  GuessesBounded says nothing of memory before  *)
(* Redis has failed, of the threads that are on their way to count in it,  *)
(* nor of those that still count in Redis afterwards; all three are needed *)
(* when a failure turns the one store into the other.                      *)
(***************************************************************************)
Phases ==
    /\ client = "none" => \A r \in Threads : At(r, "idle")
    /\ client # "warned" => /\ \A k \in Counters : memory[k] = 0
                            /\ \A r \in Threads : req[r].pc \notin {"read", "count"}

Bounded(k) ==
    /\ redis[k].count < Bound
    /\ client = "ready" => redis[k].count + Cardinality(Judging(k)) < Bound
    /\ client = "warned" => /\ redis[k].count + Cardinality(Recording(k)) < Bound
                            /\ memory[k] + Cardinality(Counting(k)) < Bound

BoundInv ==
    /\ TypeOK
    /\ Phases
    /\ \A k \in Counters : Bounded(k)

-----------------------------------------------------------------------------
(* Threads and their number *)

LEMMA NumberOfThreads == Cardinality(Threads) \in Nat /\ Bound \in Nat
  BY ThreadsAssumption, MaxWrongAssumption, FS_CardinalityType DEF Bound

\* A set of threads is finite and counts like a part of all threads.
LEMMA ThreadSets ==
  ASSUME NEW T \in SUBSET Threads
  PROVE  /\ Cardinality(T) \in Nat
         /\ Cardinality(T) <= Cardinality(Threads)
         /\ \A S \in SUBSET T : Cardinality(S) \in Nat /\ Cardinality(S) <= Cardinality(T)
<1>1. IsFiniteSet(T) /\ Cardinality(T) <= Cardinality(Threads)
  BY ThreadsAssumption, FS_Subset
<1>2. \A S \in SUBSET T : IsFiniteSet(S) /\ Cardinality(S) <= Cardinality(T)
  BY <1>1, FS_Subset
<1> QED
  BY <1>1, <1>2, FS_CardinalityType

\* A thread that leaves a set makes it smaller by one.
LEMMA ThreadLeaves ==
  ASSUME NEW T \in SUBSET Threads, NEW r \in T, NEW S \in SUBSET (T \ {r})
  PROVE  Cardinality(S) \in Nat /\ Cardinality(T) \in Nat /\ Cardinality(S) < Cardinality(T)
<1>1. IsFiniteSet(T)
  BY ThreadsAssumption, FS_Subset
<1>2. Cardinality(T \ {r}) = Cardinality(T) - 1 /\ IsFiniteSet(T \ {r})
  BY <1>1, FS_RemoveElement
<1>3. Cardinality(S) <= Cardinality(T \ {r}) /\ IsFiniteSet(S)
  BY <1>2, FS_Subset
<1> QED
  BY <1>1, <1>2, <1>3, FS_CardinalityType

Thread == [pc : {"idle"}] \cup
          [pc : {"get", "read", "judge", "incr", "count", "expire"}, counter : Counters]

LEMMA ThreadStates ==
  ASSUME TypeOK, NEW r \in Threads
  PROVE  /\ req[r] \in Thread
         /\ ~At(r, "idle") => /\ req[r].counter \in Counters
                              /\ redis[req[r].counter].count \in Nat
                              /\ memory[req[r].counter] \in Nat
  BY DEF TypeOK, At, Thread

\* The thread is done.
LEMMA FinishEffect ==
  ASSUME TypeOK, NEW r \in Threads, Finish(r)
  PROVE  /\ req' \in [Threads -> Thread]
         /\ \A o \in Threads \ {r} : req'[o] = req[o]
         /\ req'[r].pc = "idle"
         /\ \A k \in Counters : /\ Judging(k)' = Judging(k) \ {r}
                                /\ Counting(k)' = Counting(k) \ {r}
                                /\ Recording(k)' = Recording(k) \ {r}
  BY DEF Finish, TypeOK, Thread, Judging, Counting, Recording

\* The thread goes on; it enters no set but those of its new state.
LEMMA MoveEffect ==
  ASSUME TypeOK, NEW r \in Threads,
         NEW pc \in {"get", "read", "judge", "incr", "count", "expire"},
         ~At(r, "idle"), Move(r, pc)
  PROVE  /\ req' \in [Threads -> Thread]
         /\ \A o \in Threads \ {r} : req'[o] = req[o]
         /\ req'[r].pc = pc /\ req'[r].counter = req[r].counter
         /\ \A k \in Counters :
               /\ pc \notin {"judge", "incr", "count"} => Judging(k)' = Judging(k) \ {r}
               /\ pc \notin {"get", "judge", "incr", "expire", "count"} =>
                     Counting(k)' = Counting(k) \ {r}
               /\ pc # "incr" => Recording(k)' = Recording(k) \ {r}
               /\ req[r].pc \in {"judge", "incr", "count"} => Judging(k)' \subseteq Judging(k)
               /\ req[r].pc \in {"get", "judge", "incr", "expire", "count"} =>
                     Counting(k)' \subseteq Counting(k)
<1>1. /\ req' \in [Threads -> Thread]
      /\ \A o \in Threads \ {r} : req'[o] = req[o]
      /\ req'[r].pc = pc /\ req'[r].counter = req[r].counter
  BY DEF At, Move, TypeOK, Thread
<1> QED
  BY <1>1 DEF Judging, Counting, Recording

\* A lookup starts a scan; it holds a client only while there is one.
LEMMA LookUpEffect ==
  ASSUME TypeOK, NEW r \in Threads, NEW c \in Counters, LookUp(r, c)
  PROVE  /\ req' \in [Threads -> Thread]
         /\ \A o \in Threads \ {r} : req'[o] = req[o]
         /\ req'[r].pc = IF client = "ready" THEN "get" ELSE "read"
         /\ \A k \in Counters :
               /\ Judging(k)' = Judging(k) /\ Recording(k)' = Recording(k)
               /\ client # "ready" => Counting(k)' = Counting(k)
<1>1. /\ req' \in [Threads -> Thread]
      /\ \A o \in Threads \ {r} : req'[o] = req[o]
      /\ req'[r].pc = IF client = "ready" THEN "get" ELSE "read"
      /\ req[r].pc = "idle"
  BY DEF LookUp, At, TypeOK, Thread
<1> QED
  BY <1>1 DEF Judging, Counting, Recording

\* A limit that is read ends the scan, or was not reached.
LEMMA LimitedEffect ==
  ASSUME NEW r \in Threads, NEW count \in Nat, Limited(r, count)
  PROVE  Finish(r) \/ (count < MaxWrong /\ Move(r, "judge"))
  BY MaxWrongAssumption DEF Limited, TooMany

-----------------------------------------------------------------------------
(* Types *)

LEMMA CodeTypeInit == Init => TypeOK
  BY DEF Init, TypeOK, Absent

LEMMA CountInRedisEffect ==
  ASSUME TypeOK, NEW k \in Counters, CountInRedis(k)
  PROVE  /\ redis' \in [Counters -> [count : Nat, expires : BOOLEAN]]
         /\ redis'[k].count = redis[k].count + 1
         /\ \A c \in Counters \ {k} : redis'[c] = redis[c]
  BY DEF TypeOK, CountInRedis

LEMMA CountInMemoryEffect ==
  ASSUME TypeOK, NEW k \in Counters, CountInMemory(k)
  PROVE  /\ memory' \in [Counters -> Nat]
         /\ memory'[k] = memory[k] + 1
         /\ \A c \in Counters \ {k} : memory'[c] = memory[c]
  BY DEF TypeOK, CountInMemory

LEMMA StartWindowEffect ==
  ASSUME TypeOK, NEW k \in Counters, StartWindow(k)
  PROVE  /\ redis' \in [Counters -> [count : Nat, expires : BOOLEAN]]
         /\ \A c \in Counters : redis'[c].count = redis[c].count
  BY DEF TypeOK, StartWindow

LEMMA CodeTypeStep == TypeOK /\ [Next]_vars => TypeOK'
<1> SUFFICES ASSUME TypeOK, [Next]_vars
             PROVE  TypeOK'
  OBVIOUS
<1> DEFINE Typed == /\ redis' \in [Counters -> [count : Nat, expires : BOOLEAN]]
                    /\ memory' \in [Counters -> Nat]
                    /\ client' \in {"none", "ready", "warned"}
                    /\ req' \in [Threads -> Thread]
<1> SUFFICES Typed
  BY DEF TypeOK, Thread
<1>0. /\ redis \in [Counters -> [count : Nat, expires : BOOLEAN]]
      /\ memory \in [Counters -> Nat]
      /\ client \in {"none", "ready", "warned"}
      /\ req \in [Threads -> Thread]
  BY DEF TypeOK, Thread
<1>1. CASE Connect
  BY <1>0, <1>1 DEF Connect
<1>2. ASSUME NEW r \in Threads, NEW k \in Counters, LookUp(r, k)
      PROVE  Typed
  BY <1>0, <1>2, LookUpEffect DEF LookUp
<1>3. ASSUME NEW r \in Threads, Get(r) \/ GetFails(r) \/ Read(r)
      PROVE  Typed
  <2>1. ~At(r, "idle") /\ redis' = redis /\ memory' = memory /\ client' \in {client, "warned"}
    BY <1>3 DEF Get, GetFails, Read, At
  <2>2. Finish(r) \/ (\E pc \in {"judge", "read"} : Move(r, pc))
    BY <1>3, <2>1, ThreadStates, LimitedEffect DEF Get, GetFails, Read
  <2> QED
    BY <1>0, <2>1, <2>2, FinishEffect, MoveEffect
<1>4. ASSUME NEW r \in Threads, RightCode(r)
      PROVE  Typed
  BY <1>0, <1>4, FinishEffect DEF RightCode
<1>5. ASSUME NEW r \in Threads, WrongCode(r)
      PROVE  Typed
  BY <1>0, <1>5, MoveEffect DEF WrongCode, At
<1>6. ASSUME NEW r \in Threads, Incr(r)
      PROVE  Typed
  <2>1. ~At(r, "idle") /\ req[r].counter \in Counters
    BY <1>6, ThreadStates DEF Incr, At
  <2>2. redis' \in [Counters -> [count : Nat, expires : BOOLEAN]]
    BY <1>6, <2>1, CountInRedisEffect DEF Incr
  <2>3. req' \in [Threads -> Thread]
    BY <1>6, <2>1, FinishEffect, MoveEffect DEF Incr
  <2> QED
    BY <1>0, <1>6, <2>2, <2>3 DEF Incr
<1>7. ASSUME NEW r \in Threads, IncrFails(r)
      PROVE  Typed
  <2>1. ~At(r, "idle") /\ req[r].counter \in Counters
    BY <1>7, ThreadStates DEF IncrFails, At
  <2> QED
    BY <1>0, <1>7, <2>1, CountInRedisEffect, MoveEffect DEF IncrFails
<1>8. ASSUME NEW r \in Threads, Count(r)
      PROVE  Typed
  <2>1. req[r].counter \in Counters
    BY <1>8, ThreadStates DEF Count, At
  <2> QED
    BY <1>0, <1>8, <2>1, CountInMemoryEffect, FinishEffect DEF Count
<1>9. ASSUME NEW r \in Threads, Expire(r)
      PROVE  Typed
  <2>1. req[r].counter \in Counters
    BY <1>9, ThreadStates DEF Expire, At
  <2> QED
    BY <1>0, <1>9, <2>1, StartWindowEffect, FinishEffect DEF Expire
<1>10. ASSUME NEW r \in Threads, ExpireFails(r)
       PROVE  Typed
  <2>1. ~At(r, "idle") /\ req[r].counter \in Counters
    BY <1>10, ThreadStates DEF ExpireFails, At
  <2> QED
    BY <1>0, <1>10, <2>1, StartWindowEffect, MoveEffect DEF ExpireFails
<1>11. ASSUME NEW k \in Counters, RedisKeyExpires(k) \/ MemoryExpires(k)
       PROVE  Typed
  <2>1. Absent \in [count : Nat, expires : BOOLEAN]
    BY DEF Absent
  <2> QED
    BY <1>0, <1>11, <2>1 DEF RedisKeyExpires, MemoryExpires
<1>12. CASE Restart
  BY <1>0, <1>12 DEF Restart, Thread
<1>13. CASE UNCHANGED vars
  BY <1>0, <1>13 DEF vars
<1> QED
  BY <1>1, <1>2, <1>3, <1>4, <1>5, <1>6, <1>7, <1>8, <1>9, <1>10, <1>11, <1>12, <1>13 DEF Next

\* Every state of the two stores and the request threads is well typed.
THEOREM CodeTypeCorrect == Spec => []TypeOK
  BY CodeTypeInit, CodeTypeStep, PTL DEF Spec

-----------------------------------------------------------------------------
(* GuessesBounded *)

\* A store is within the bound as long as what it counts and the threads that
\* may still count in it are; that is what a thread keeps when it counts.
LEMMA CountedOnce ==
  ASSUME NEW n \in Nat, NEW T \in SUBSET Threads, NEW r \in T, NEW S \in SUBSET (T \ {r}),
         n + Cardinality(T) < Bound
  PROVE  n + 1 < Bound /\ n + 1 + Cardinality(S) < Bound
<1>1. /\ Cardinality(S) \in Nat /\ Cardinality(T) \in Nat
      /\ Cardinality(S) < Cardinality(T)
  BY ThreadLeaves
<1> QED
  BY <1>1, NumberOfThreads

\* A thread the limit lets through, or any thread while nothing is counted yet.
LEMMA BelowLimit ==
  ASSUME NEW n \in Nat, n < MaxWrong, NEW T \in SUBSET Threads
  PROVE  n < Bound /\ n + Cardinality(T) < Bound
<1>1. Cardinality(T) \in Nat /\ Cardinality(T) <= Cardinality(Threads)
  BY ThreadSets
<1> QED
  BY <1>1, NumberOfThreads, MaxWrongAssumption DEF Bound

LEMMA FewerThreads ==
  ASSUME NEW n \in Nat, NEW m \in Nat, n <= m, NEW T \in SUBSET Threads, NEW S \in SUBSET T,
         m + Cardinality(T) < Bound
  PROVE  n < Bound /\ n + Cardinality(S) < Bound
<1>1. /\ Cardinality(T) \in Nat /\ Cardinality(S) \in Nat
      /\ Cardinality(S) <= Cardinality(T)
  BY ThreadSets
<1> QED
  BY <1>1, NumberOfThreads

\* The types of everything a bound adds up.
LEMMA Numbers ==
  ASSUME TypeOK, NEW k \in Counters
  PROVE  /\ redis[k].count \in Nat /\ memory[k] \in Nat
         /\ Judging(k) \in SUBSET Threads
         /\ Counting(k) \in SUBSET Threads
         /\ Recording(k) \in SUBSET Judging(k)
  BY DEF TypeOK, Judging, Counting, Recording

LEMMA BoundInit == Init => BoundInv
<1> SUFFICES ASSUME Init
             PROVE  BoundInv
  OBVIOUS
<1>1. TypeOK
  BY CodeTypeInit
<1>2. Phases
  BY DEF Init, Phases, At
<1>3. ASSUME NEW k \in Counters
      PROVE  Bounded(k)
  <2>1. redis[k].count = 0 /\ client = "none"
    BY DEF Init, Absent
  <2> QED
    BY <2>1, BelowLimit, MaxWrongAssumption DEF Bounded
<1> QED
  BY <1>1, <1>2, <1>3 DEF BoundInv

\* Steps that count nothing and let no thread past a limit.
LEMMA QuietBound ==
  ASSUME BoundInv, TypeOK', NEW k \in Counters, client' = client,
         redis'[k].count <= redis[k].count, memory'[k] <= memory[k],
         client = "ready" => Judging(k)' \subseteq Judging(k),
         client = "warned" => /\ Recording(k)' \subseteq Recording(k)
                              /\ Counting(k)' \subseteq Counting(k)
  PROVE  Bounded(k)'
<1>1. /\ redis[k].count \in Nat /\ redis'[k].count \in Nat
      /\ memory[k] \in Nat /\ memory'[k] \in Nat
      /\ Judging(k) \in SUBSET Threads /\ Counting(k) \in SUBSET Threads
      /\ Recording(k) \in SUBSET Threads /\ Bounded(k)
  BY Numbers DEF BoundInv, TypeOK
<1>2. redis'[k].count < Bound
  BY <1>1, NumberOfThreads DEF Bounded
<1>3. CASE client = "ready"
  BY <1>1, <1>2, <1>3, FewerThreads DEF Bounded
<1>4. CASE client = "warned"
  <2>1. redis'[k].count + Cardinality(Recording(k)') < Bound
    BY <1>1, <1>4, FewerThreads DEF Bounded
  <2>2. memory'[k] + Cardinality(Counting(k)') < Bound
    BY <1>1, <1>4, FewerThreads DEF Bounded
  <2> QED
    BY <1>2, <1>4, <2>1, <2>2 DEF Bounded
<1>5. CASE client \notin {"ready", "warned"}
  BY <1>2, <1>5 DEF Bounded
<1> QED
  BY <1>3, <1>4, <1>5

\* Redis is given up: memory is as it was at the start of the process, so that
\* even if every thread counts there the bound holds.
LEMMA GivenUp ==
  ASSUME BoundInv, TypeOK', NEW k \in Counters, client' = "warned",
         redis'[k].count + Cardinality(Recording(k)') < Bound, memory' = memory,
         client = "warned" => Counting(k)' \subseteq Counting(k)
  PROVE  Bounded(k)'
<1>1. /\ memory[k] \in Nat /\ redis'[k].count \in Nat
      /\ Counting(k) \in SUBSET Threads /\ Counting(k)' \in SUBSET Threads
      /\ Bounded(k)
  BY Numbers DEF BoundInv, TypeOK, Counting
<1>2. Cardinality(Recording(k)') \in Nat
  BY ThreadSets DEF Recording
<1>3. redis'[k].count < Bound
  BY <1>1, <1>2, NumberOfThreads
<1>4. memory[k] + Cardinality(Counting(k)') < Bound
  <2>1. CASE client = "warned"
    BY <1>1, <2>1, FewerThreads DEF Bounded
  <2>2. CASE client # "warned"
    BY <1>1, <2>2, BelowLimit, MaxWrongAssumption DEF BoundInv, Phases
  <2> QED
    BY <2>1, <2>2
<1> QED
  BY <1>3, <1>4 DEF Bounded

\* The part of the bound about Redis that is known whatever the client is: the
\* threads that are about to send an INCR have been let through.
LEMMA RecordingBound ==
  ASSUME BoundInv, client # "none", NEW k \in Counters
  PROVE  redis[k].count + Cardinality(Recording(k)) < Bound
<1>1. /\ redis[k].count \in Nat /\ Judging(k) \in SUBSET Threads
      /\ Recording(k) \in SUBSET Judging(k) /\ Bounded(k)
      /\ client \in {"ready", "warned"}
  BY Numbers DEF BoundInv, TypeOK
<1> QED
  BY <1>1, FewerThreads DEF Bounded

LEMMA PhasesStep == BoundInv /\ [Next]_vars => Phases'
<1> SUFFICES ASSUME BoundInv, [Next]_vars
             PROVE  Phases'
  OBVIOUS
<1>0. TypeOK /\ Phases
  BY DEF BoundInv
<1>1. CASE Connect
  BY <1>0, <1>1 DEF Connect, Phases, At
<1>2. ASSUME NEW r \in Threads, NEW k \in Counters, LookUp(r, k)
      PROVE  Phases'
  <2>1. client # "none" /\ client' = client /\ memory' = memory
    BY <1>2 DEF LookUp
  <2>2. /\ \A o \in Threads \ {r} : req'[o] = req[o]
        /\ req'[r].pc = IF client = "ready" THEN "get" ELSE "read"
    BY <1>0, <1>2, LookUpEffect
  <2> QED
    BY <1>0, <2>1, <2>2 DEF Phases, TypeOK
<1>3. ASSUME NEW r \in Threads,
             Get(r) \/ Read(r) \/ RightCode(r) \/ WrongCode(r) \/ Incr(r) \/ Expire(r)
      PROVE  Phases'
  <2>1. client' = client /\ memory' = memory /\ ~At(r, "idle")
    BY <1>3 DEF Get, Read, RightCode, WrongCode, Incr, Expire, At
  <2>2. \/ Finish(r)
        \/ \E pc \in {"judge", "incr", "expire"} : Move(r, pc)
        \/ client # "ready" /\ Move(r, "count")
    BY <1>3, <2>1, <1>0, ThreadStates, LimitedEffect
       DEF Get, Read, RightCode, WrongCode, Incr, Expire
  <2>3. /\ \A o \in Threads \ {r} : req'[o] = req[o]
        /\ req'[r].pc # "read" /\ (client = "ready" => req'[r].pc # "count")
    BY <1>0, <2>1, <2>2, FinishEffect, MoveEffect
  <2> QED
    BY <1>0, <2>1, <2>3 DEF Phases, TypeOK
<1>4. ASSUME NEW r \in Threads, GetFails(r) \/ IncrFails(r) \/ ExpireFails(r)
      PROVE  Phases'
  BY <1>4 DEF GetFails, IncrFails, ExpireFails, Phases
<1>5. ASSUME NEW r \in Threads, Count(r)
      PROVE  Phases'
  BY <1>0, <1>5 DEF Count, Phases, At, TypeOK
<1>6. ASSUME NEW k \in Counters, RedisKeyExpires(k) \/ MemoryExpires(k)
      PROVE  Phases'
  BY <1>0, <1>6 DEF RedisKeyExpires, MemoryExpires, Phases, At, TypeOK
<1>7. CASE Restart
  BY <1>7 DEF Restart, Phases, At
<1>8. CASE UNCHANGED vars
  BY <1>0, <1>8 DEF vars, Phases, At
<1> QED
  BY <1>1, <1>2, <1>3, <1>4, <1>5, <1>6, <1>7, <1>8 DEF Next

LEMMA BoundStep == BoundInv /\ [Next]_vars => BoundInv'
<1> SUFFICES ASSUME BoundInv, [Next]_vars, NEW k \in Counters
             PROVE  Bounded(k)'
  BY CodeTypeStep, PhasesStep DEF BoundInv
<1>0. /\ TypeOK /\ TypeOK' /\ Phases /\ Bounded(k)
      /\ client \in {"none", "ready", "warned"}
      /\ \A r \in Threads : ~At(r, "idle") => client # "none"
  BY CodeTypeStep DEF BoundInv, Phases, TypeOK
<1>a. /\ redis[k].count \in Nat /\ redis'[k].count \in Nat
      /\ memory[k] \in Nat /\ memory'[k] \in Nat
      /\ Judging(k) \in SUBSET Threads /\ Judging(k)' \in SUBSET Threads
      /\ Counting(k) \in SUBSET Threads /\ Counting(k)' \in SUBSET Threads
      /\ Recording(k) \in SUBSET Threads /\ Recording(k)' \in SUBSET Threads
  BY <1>0 DEF TypeOK, Judging, Counting, Recording
<1>1. CASE Connect
  <2>1. memory'[k] = 0 /\ redis'[k] = redis[k] /\ redis[k].count < Bound
    BY <1>0, <1>1 DEF Connect, Phases, Bounded
  <2>2. Judging(k)' = {} /\ Recording(k)' = {}
    BY <1>0, <1>1 DEF Connect, Judging, Recording, Phases, At
  <2>3. Cardinality(Judging(k)') = 0 /\ Cardinality(Recording(k)') = 0
    BY <2>2, FS_EmptySet
  <2>4. memory'[k] + Cardinality(Counting(k)') < Bound
    BY <1>a, <2>1, BelowLimit, MaxWrongAssumption
  <2> QED
    BY <1>a, <2>1, <2>3, <2>4, NumberOfThreads DEF Bounded
<1>2. ASSUME NEW r \in Threads, NEW c \in Counters, LookUp(r, c)
      PROVE  Bounded(k)'
  <2>1. UNCHANGED <<redis, memory, client>>
    BY <1>2 DEF LookUp
  <2>2. /\ Judging(k)' = Judging(k) /\ Recording(k)' = Recording(k)
        /\ client # "ready" => Counting(k)' = Counting(k)
    BY <1>0, <1>2, LookUpEffect
  <2> QED
    BY <1>0, <1>a, <2>1, <2>2, QuietBound
<1>3. ASSUME NEW r \in Threads, Get(r)
      PROVE  Bounded(k)'
  <2>1. PICK c \in Counters : c = req[r].counter /\ redis[c].count \in Nat /\ ~At(r, "idle")
    BY <1>0, <1>3, ThreadStates DEF Get, At
  <2>2. UNCHANGED <<redis, memory, client>> /\ req[r].pc = "get"
    BY <1>3 DEF Get, At
  <2>3. CASE Finish(r)
    BY <1>0, <1>a, <2>2, <2>3, FinishEffect, QuietBound
  <2>4. CASE redis[c].count < MaxWrong /\ Move(r, "judge")
    <3>1. CASE client = "warned"
      BY <1>0, <1>a, <2>1, <2>2, <2>4, <3>1, MoveEffect, QuietBound
    <3>2. CASE client = "ready" /\ k = c
      BY <1>a, <2>2, <2>4, <3>2, BelowLimit DEF Bounded
    <3>3. CASE client = "ready" /\ k # c
      <4>1. Judging(k)' \subseteq Judging(k)
        BY <1>0, <2>1, <2>4, <3>3, MoveEffect DEF Judging
      <4> QED
        BY <1>0, <1>a, <2>2, <3>3, <4>1, QuietBound
    <3> QED
      BY <1>0, <2>1, <3>1, <3>2, <3>3
  <2> QED
    BY <1>3, <2>1, <2>3, <2>4, LimitedEffect DEF Get
<1>4. ASSUME NEW r \in Threads, GetFails(r)
      PROVE  Bounded(k)'
  <2>1. /\ ~At(r, "idle") /\ client' = "warned" /\ Move(r, "read")
        /\ redis' = redis /\ memory' = memory /\ client # "none"
    BY <1>0, <1>4 DEF GetFails, At
  <2>2. /\ Recording(k)' = Recording(k) \ {r} /\ Counting(k)' = Counting(k) \ {r}
    BY <1>0, <2>1, MoveEffect
  <2>3. redis'[k].count + Cardinality(Recording(k)') < Bound
    BY <1>a, <2>1, <2>2, RecordingBound, FewerThreads
  <2> QED
    BY <1>0, <2>1, <2>2, <2>3, GivenUp
<1>5. ASSUME NEW r \in Threads, Read(r)
      PROVE  Bounded(k)'
  <2>1. PICK c \in Counters : c = req[r].counter /\ memory[c] \in Nat /\ ~At(r, "idle")
    BY <1>0, <1>5, ThreadStates DEF Read, At
  <2>2. UNCHANGED <<redis, memory, client>> /\ client = "warned"
    BY <1>0, <1>5 DEF Read, At, Phases
  <2>3. CASE Finish(r)
    BY <1>0, <1>a, <2>2, <2>3, FinishEffect, QuietBound
  <2>4. CASE memory[c] < MaxWrong /\ Move(r, "judge")
    <3>1. Recording(k)' \subseteq Recording(k)
      BY <1>0, <2>1, <2>4, MoveEffect
    <3>2. CASE k = c
      <4>1. memory[k] + Cardinality(Counting(k)') < Bound
        BY <1>a, <2>4, <3>2, BelowLimit
      <4>2. redis[k].count + Cardinality(Recording(k)') < Bound
        BY <1>0, <1>a, <2>2, <3>1, FewerThreads DEF Bounded
      <4> QED
        BY <1>0, <2>2, <4>1, <4>2 DEF Bounded
    <3>3. CASE k # c
      <4>1. Counting(k)' \subseteq Counting(k)
        BY <1>0, <2>1, <2>4, <3>3, MoveEffect DEF Counting
      <4> QED
        BY <1>0, <1>a, <2>2, <3>1, <4>1, QuietBound
    <3> QED
      BY <3>2, <3>3
  <2> QED
    BY <1>5, <2>1, <2>3, <2>4, LimitedEffect DEF Read
<1>6. ASSUME NEW r \in Threads, RightCode(r)
      PROVE  Bounded(k)'
  BY <1>0, <1>6, <1>a, FinishEffect, QuietBound DEF RightCode
<1>7. ASSUME NEW r \in Threads, WrongCode(r)
      PROVE  Bounded(k)'
  <2>1. /\ ~At(r, "idle") /\ req[r].pc = "judge" /\ UNCHANGED <<redis, memory, client>>
        /\ client # "none"
    BY <1>0, <1>7 DEF WrongCode, At
  <2>2. CASE client = "ready"
    BY <1>0, <1>7, <1>a, <2>1, <2>2, MoveEffect, QuietBound DEF WrongCode
  <2>3. CASE client = "warned"
    BY <1>0, <1>7, <1>a, <2>1, <2>3, MoveEffect, QuietBound DEF WrongCode
  <2> QED
    BY <1>0, <2>1, <2>2, <2>3
<1>8. ASSUME NEW r \in Threads, Incr(r)
      PROVE  Bounded(k)'
  <2>1. PICK c \in Counters : c = req[r].counter
    BY <1>0, <1>8, ThreadStates DEF Incr, At
  <2>2. /\ ~At(r, "idle") /\ req[r].pc = "incr" /\ client # "none"
        /\ memory' = memory /\ client' = client
    BY <1>0, <1>8 DEF Incr, At
  <2>3. /\ Judging(k)' = Judging(k) \ {r} /\ Recording(k)' = Recording(k) \ {r}
        /\ Counting(k)' \subseteq Counting(k)
    BY <1>0, <1>8, <2>2, FinishEffect, MoveEffect DEF Incr
  <2>4. CASE k = c
    <3>1. redis'[k].count = redis[k].count + 1
      BY <1>0, <1>8, <2>1, <2>4, CountInRedisEffect DEF Incr
    <3>2. CASE client = "ready"
      <4>1. r \in Judging(k)
        BY <2>1, <2>2, <2>4 DEF Judging
      <4> QED
        BY <1>0, <1>a, <2>2, <2>3, <3>1, <3>2, <4>1, CountedOnce DEF Bounded
    <3>3. CASE client = "warned"
      <4>1. r \in Recording(k)
        BY <2>1, <2>2, <2>4 DEF Recording
      <4>2. /\ redis'[k].count < Bound
            /\ redis'[k].count + Cardinality(Recording(k)') < Bound
        BY <1>0, <1>a, <2>3, <3>1, <3>3, <4>1, CountedOnce DEF Bounded
      <4>3. memory'[k] + Cardinality(Counting(k)') < Bound
        BY <1>0, <1>a, <2>2, <2>3, <3>3, FewerThreads DEF Bounded
      <4> QED
        BY <2>2, <3>3, <4>2, <4>3 DEF Bounded
    <3> QED
      BY <1>0, <2>2, <3>2, <3>3
  <2>5. CASE k # c
    <3>1. redis'[k] = redis[k]
      BY <1>0, <1>8, <2>1, <2>5, CountInRedisEffect DEF Incr
    <3> QED
      BY <1>0, <1>a, <2>2, <2>3, <3>1, QuietBound
  <2> QED
    BY <2>4, <2>5
<1>9. ASSUME NEW r \in Threads, IncrFails(r)
      PROVE  Bounded(k)'
  <2>1. PICK c \in Counters : c = req[r].counter
    BY <1>0, <1>9, ThreadStates DEF IncrFails, At
  <2>2. /\ ~At(r, "idle") /\ req[r].pc = "incr" /\ client # "none"
        /\ memory' = memory /\ client' = "warned" /\ Move(r, "count")
    BY <1>0, <1>9 DEF IncrFails, At
  <2>3. Recording(k)' = Recording(k) \ {r} /\ Counting(k)' \subseteq Counting(k)
    BY <1>0, <2>2, MoveEffect
  <2>4. redis[k].count + Cardinality(Recording(k)) < Bound
    BY <2>2, RecordingBound
  <2>5. \/ redis'[k] = redis[k]
        \/ redis'[k].count = redis[k].count + 1 /\ r \in Recording(k)
    BY <1>0, <1>9, <2>1, <2>2, CountInRedisEffect DEF IncrFails, Recording
  <2>6. redis'[k].count + Cardinality(Recording(k)') < Bound
    <3>1. CASE redis'[k] = redis[k]
      BY <1>a, <2>3, <2>4, <3>1, FewerThreads
    <3>2. CASE redis'[k].count = redis[k].count + 1 /\ r \in Recording(k)
      BY <1>a, <2>3, <2>4, <3>2, CountedOnce
    <3> QED
      BY <2>5, <3>1, <3>2
  <2> QED
    BY <1>0, <2>2, <2>3, <2>6, GivenUp
<1>10. ASSUME NEW r \in Threads, Count(r)
       PROVE  Bounded(k)'
  <2>1. PICK c \in Counters : c = req[r].counter
    BY <1>0, <1>10, ThreadStates DEF Count, At
  <2>2. /\ req[r].pc = "count" /\ client = "warned" /\ client' = "warned" /\ redis' = redis
    BY <1>0, <1>10 DEF Count, At, Phases
  <2>3. Recording(k)' = Recording(k) \ {r} /\ Counting(k)' = Counting(k) \ {r}
    BY <1>0, <1>10, FinishEffect DEF Count
  <2>4. redis[k].count + Cardinality(Recording(k)') < Bound
    BY <1>0, <1>a, <2>2, <2>3, FewerThreads DEF Bounded
  <2>5. memory'[k] + Cardinality(Counting(k)') < Bound
    <3>1. CASE k = c
      <4>1. memory'[k] = memory[k] + 1 /\ r \in Counting(k)
        BY <1>0, <1>10, <2>1, <2>2, <3>1, CountInMemoryEffect DEF Count, Counting
      <4> QED
        BY <1>0, <1>a, <2>2, <2>3, <4>1, CountedOnce DEF Bounded
    <3>2. CASE k # c
      <4>1. memory'[k] = memory[k]
        BY <1>0, <1>10, <2>1, <3>2, CountInMemoryEffect DEF Count
      <4> QED
        BY <1>0, <1>a, <2>2, <2>3, <4>1, FewerThreads DEF Bounded
    <3> QED
      BY <3>1, <3>2
  <2> QED
    BY <1>0, <2>2, <2>4, <2>5 DEF Bounded
<1>11. ASSUME NEW r \in Threads, Expire(r)
       PROVE  Bounded(k)'
  <2>1. req[r].counter \in Counters
    BY <1>0, <1>11, ThreadStates DEF Expire, At
  <2>2. redis'[k].count = redis[k].count
    BY <1>0, <1>11, <2>1, StartWindowEffect DEF Expire
  <2> QED
    BY <1>0, <1>11, <1>a, <2>2, FinishEffect, QuietBound DEF Expire
<1>12. ASSUME NEW r \in Threads, ExpireFails(r)
       PROVE  Bounded(k)'
  <2>1. /\ ~At(r, "idle") /\ req[r].pc = "expire" /\ client # "none"
        /\ memory' = memory /\ client' = "warned" /\ Move(r, "count")
    BY <1>0, <1>12 DEF ExpireFails, At
  <2>2. redis'[k].count = redis[k].count
    BY <1>0, <1>12, <2>1, ThreadStates, StartWindowEffect DEF ExpireFails
  <2>3. Recording(k)' = Recording(k) \ {r} /\ Counting(k)' \subseteq Counting(k)
    BY <1>0, <2>1, MoveEffect
  <2>4. redis'[k].count + Cardinality(Recording(k)') < Bound
    BY <1>a, <2>1, <2>2, <2>3, RecordingBound, FewerThreads
  <2> QED
    BY <1>0, <2>1, <2>3, <2>4, GivenUp
<1>13. ASSUME NEW c \in Counters, RedisKeyExpires(c) \/ MemoryExpires(c)
       PROVE  Bounded(k)'
  <2>1. UNCHANGED <<client, req>>
    BY <1>13 DEF RedisKeyExpires, MemoryExpires
  <2>2. redis'[k].count <= redis[k].count /\ memory'[k] <= memory[k]
    <3>1. redis'[k] = redis[k] \/ redis'[k].count = 0
      BY <1>0, <1>13 DEF RedisKeyExpires, MemoryExpires, TypeOK, Absent
    <3>2. memory'[k] = memory[k] \/ memory'[k] = 0
      BY <1>0, <1>13 DEF RedisKeyExpires, MemoryExpires, TypeOK
    <3> QED
      BY <1>a, <3>1, <3>2
  <2>3. /\ Judging(k)' = Judging(k) /\ Counting(k)' = Counting(k)
        /\ Recording(k)' = Recording(k)
    BY <2>1 DEF Judging, Counting, Recording
  <2> QED
    BY <1>0, <2>1, <2>2, <2>3, QuietBound
<1>14. CASE Restart
  BY <1>0, <1>14 DEF Restart, Bounded
<1>15. CASE UNCHANGED vars
  BY <1>0, <1>15 DEF vars, Bounded, Judging, Counting, Recording
<1> QED
  BY <1>1, <1>2, <1>3, <1>4, <1>5, <1>6, <1>7, <1>8, <1>9, <1>10, <1>11, <1>12, <1>13,
     <1>14, <1>15 DEF Next

\* For any number of threads and any limit, with Redis failing and the server
\* restarting at any step: no counter, in either store, passes the limit by the
\* number of threads, and in the store in use that counts the scans past the
\* limit, on whichever store they read it.
THEOREM WrongCodesAreBounded == Spec => []GuessesBounded
<1>1. BoundInv => GuessesBounded
  <2> SUFFICES ASSUME BoundInv, NEW k \in Counters
               PROVE  /\ redis[k].count < Bound
                      /\ memory[k] < Bound
                      /\ client = "ready" => redis[k].count + Cardinality(Judging(k)) < Bound
                      /\ client = "warned" => memory[k] + Cardinality(Judging(k)) < Bound
    BY DEF GuessesBounded, Bound
  <2>1. /\ Bounded(k) /\ memory[k] \in Nat /\ Counting(k) \in SUBSET Threads
        /\ Judging(k) \in SUBSET Counting(k)
    BY DEF BoundInv, TypeOK, Judging, Counting
  <2>2. client = "warned" => memory[k] < Bound /\ memory[k] + Cardinality(Judging(k)) < Bound
    BY <2>1, FewerThreads DEF Bounded
  <2>3. client # "warned" => memory[k] < Bound
    BY BelowLimit, MaxWrongAssumption DEF BoundInv, Phases
  <2> QED
    BY <2>1, <2>2, <2>3 DEF Bounded
<1> QED
  BY <1>1, BoundInit, BoundStep, PTL DEF Spec

-----------------------------------------------------------------------------
(* MissIsCounted *)

\* What MissIsCounted says of a step and a thread.
CountedStep(r) ==
    /\ req[r].pc \in {"incr", "count"} /\ req'[r].pc \notin {"incr", "count"} =>
          \/ client' = "ready" /\ redis'[req[r].counter].count > redis[req[r].counter].count
          \/ client' = "warned" /\ memory'[req[r].counter] > memory[req[r].counter]
          \/ Straggler(r) /\ redis'[req[r].counter].count > redis[req[r].counter].count
          \/ client' = "none"
    /\ client = "warned" /\ Straggler(r)' => Straggler(r)

\* A step that leaves the client and what the thread records alone.
LEMMA OthersCount ==
  ASSUME NEW r \in Threads,
         \/ req'[r] = req[r]
         \/ /\ req[r].pc \notin {"incr", "count"}
            /\ req'[r].pc = "incr" => client = "ready"
  PROVE  CountedStep(r)
  BY DEF CountedStep, Straggler, At

LEMMA MissStep == BoundInv /\ Next => \A r \in Threads : CountedStep(r)
<1> SUFFICES ASSUME BoundInv, Next, NEW o \in Threads
             PROVE  CountedStep(o)
  OBVIOUS
<1>0. TypeOK /\ Phases
  BY DEF BoundInv
<1>1. CASE Connect
  BY <1>1, OthersCount DEF Connect
<1>2. ASSUME NEW r \in Threads, NEW k \in Counters, LookUp(r, k)
      PROVE  CountedStep(o)
  BY <1>0, <1>2, LookUpEffect, OthersCount DEF LookUp, At
<1>3. ASSUME NEW r \in Threads,
             \/ Get(r) \/ GetFails(r) \/ Read(r) \/ RightCode(r) \/ WrongCode(r)
             \/ Expire(r) \/ ExpireFails(r)
      PROVE  CountedStep(o)
  <2>1. ~At(r, "idle") /\ req[r].pc \notin {"incr", "count"}
    BY <1>3 DEF Get, GetFails, Read, RightCode, WrongCode, Expire, ExpireFails, At
  <2>2. \/ Finish(r)
        \/ \E pc \in {"read", "judge", "count"} : Move(r, pc)
        \/ client = "ready" /\ Move(r, "incr")
    BY <1>0, <1>3, <2>1, ThreadStates, LimitedEffect
       DEF Get, GetFails, Read, RightCode, WrongCode, Expire, ExpireFails
  <2> QED
    BY <1>0, <2>1, <2>2, FinishEffect, MoveEffect, OthersCount
<1>4. ASSUME NEW r \in Threads, Incr(r)
      PROVE  CountedStep(o)
  <2>1. ~At(r, "idle") /\ req[r].pc = "incr" /\ client' = client /\ client # "none"
    BY <1>0, <1>4 DEF Incr, At, Phases
  <2>2. (\A t \in Threads \ {r} : req'[t] = req[t]) /\ req'[r].pc \in {"idle", "expire"}
    BY <1>0, <1>4, <2>1, FinishEffect, MoveEffect DEF Incr
  <2>3. redis'[req[r].counter].count > redis[req[r].counter].count
    BY <1>0, <1>4, <2>1, ThreadStates, CountInRedisEffect DEF Incr
  <2>4. CountedStep(r)
    BY <1>0, <2>1, <2>2, <2>3 DEF CountedStep, Straggler, At, TypeOK
  <2> QED
    BY <2>2, <2>4, OthersCount
<1>5. ASSUME NEW r \in Threads, IncrFails(r)
      PROVE  CountedStep(o)
  <2>1. (\A t \in Threads \ {r} : req'[t] = req[t]) /\ req'[r].pc = "count"
    BY <1>0, <1>5, MoveEffect DEF IncrFails, At
  <2> QED
    BY <2>1, OthersCount DEF CountedStep, Straggler, At
<1>6. ASSUME NEW r \in Threads, Count(r)
      PROVE  CountedStep(o)
  <2>1. ~At(r, "idle") /\ req[r].pc = "count" /\ client' = "warned"
    BY <1>0, <1>6 DEF Count, At, Phases
  <2>2. (\A t \in Threads \ {r} : req'[t] = req[t]) /\ req'[r].pc = "idle"
    BY <1>0, <1>6, FinishEffect DEF Count
  <2>3. memory'[req[r].counter] > memory[req[r].counter]
    BY <1>0, <1>6, <2>1, ThreadStates, CountInMemoryEffect DEF Count
  <2> QED
    BY <2>1, <2>2, <2>3, OthersCount DEF CountedStep, Straggler, At
<1>7. ASSUME NEW k \in Counters, RedisKeyExpires(k) \/ MemoryExpires(k)
      PROVE  CountedStep(o)
  BY <1>7, OthersCount DEF RedisKeyExpires, MemoryExpires
<1>8. CASE Restart
  BY <1>8 DEF Restart, CountedStep, Straggler, At
<1> QED
  BY <1>1, <1>2, <1>3, <1>4, <1>5, <1>6, <1>7, <1>8 DEF Next

\* However Redis fails while a wrong code is recorded, the count later scans
\* read has grown when the record is made, except after a restart and for a
\* thread that was about to count in Redis when another thread gave it up.
THEOREM EveryMissIsCounted == Spec => MissIsCounted
<1>1. BoundInv /\ [Next]_vars => [\A r \in Threads : CountedStep(r)]_vars
  BY MissStep
<1> QED
  BY <1>1, BoundInit, BoundStep, PTL DEF Spec, MissIsCounted, CountedStep
=============================================================================
