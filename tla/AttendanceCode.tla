--------------------------- MODULE AttendanceCode ---------------------------
(***************************************************************************)
(* The limit on wrong 6-digit codes (app/services/attendance_code.py and   *)
(* its callers in app/api/attendance.py): a counter per student and        *)
(* session, and one per student for codes typed without a session, kept in *)
(* Redis or, once Redis has failed, in the memory of the server process.   *)
(*                                                                         *)
(* A scan is split where another thread can get in between: between the    *)
(* lookup of the Redis client, whose lock is released with it, and the     *)
(* operation on it; after the limit is read; between INCR and EXPIRE; and  *)
(* between a failed operation and the count in memory.                     *)
(***************************************************************************)
EXTENDS Naturals, FiniteSets

CONSTANTS
    Counters,    \* what is counted: (student, session) pairs and students
    CodeOnly,    \* the counters of students, for codes without a session
    Threads,     \* request threads of the server
    MaxWrong,    \* MAX_WRONG_CODE_ATTEMPTS and MAX_WRONG_CODE_ONLY_ATTEMPTS
    Faults       \* "redis": an operation fails; "crash": the server restarts

ASSUME CodeOnlyAssumption == CodeOnly \subseteq Counters
ASSUME MaxWrongAssumption == MaxWrong \in Nat \ {0}
ASSUME ThreadsAssumption == IsFiniteSet(Threads)
ASSUME CodeFaultsAssumption == Faults \subseteq {"redis", "crash"}

VARIABLES
    redis,    \* the Redis keys; an absent key counts 0
    memory,   \* _wrong_attempts and _wrong_code_only_attempts
    client,   \* _redis_state: "warned" means never tried again
    req       \* the request threads

vars == <<redis, memory, client, req>>

Absent == [count |-> 0, expires |-> FALSE]

TypeOK ==
    /\ redis \in [Counters -> [count : Nat, expires : BOOLEAN]]
    /\ memory \in [Counters -> Nat]
    /\ client \in {"none", "ready", "warned"}
    /\ req \in [Threads -> [pc : {"idle"}] \cup
                           [pc : {"get", "read", "judge", "incr", "count", "expire"},
                            counter : Counters]]

Init ==
    /\ redis = [k \in Counters |-> Absent]
    /\ memory = [k \in Counters |-> 0]
    /\ client = "none"
    /\ req = [r \in Threads |-> [pc |-> "idle"]]

Finish(r) == req' = [req EXCEPT ![r] = [pc |-> "idle"]]

At(r, pc) == req[r].pc = pc
Move(r, pc) == req' = [req EXCEPT ![r].pc = pc]

\* _redis_client: the first use connects, or gives up for good; it also gives
\* up when no REDIS_URL is set.
Connect ==
    /\ client = "none"
    /\ client' \in {"ready", "warned"}
    /\ UNCHANGED <<redis, memory, req>>

(***************************************************************************)
(* too_many_attempts, too_many_code_only_attempts                          *)
(***************************************************************************)

\* A limit that lets one more wrong code through.
TooManyOffByOne(count) == count > MaxWrong

TooMany(count) == count >= MaxWrong

\* _redis_client(), then the limit: a thread at "get" holds the client it found
\* and uses it whatever becomes of it; one at "read" found none.
LookUp(r, k) ==
    /\ At(r, "idle") /\ client # "none"
    /\ req' = [req EXCEPT ![r] = [pc |-> IF client = "ready" THEN "get" ELSE "read",
                                 counter |-> k]]
    /\ UNCHANGED <<redis, memory, client>>

\* The limit lets the code be judged, or the scan ends with 429.
Limited(r, count) == IF TooMany(count) THEN Finish(r) ELSE Move(r, "judge")

Get(r) ==
    /\ At(r, "get")
    /\ Limited(r, redis[req[r].counter].count)
    /\ UNCHANGED <<redis, memory, client>>

GetFails(r) ==
    /\ "redis" \in Faults
    /\ At(r, "get")
    /\ client' = "warned"
    /\ Move(r, "read")
    /\ UNCHANGED <<redis, memory>>

Read(r) ==
    /\ At(r, "read")
    /\ Limited(r, memory[req[r].counter])
    /\ UNCHANGED <<redis, memory, client>>

\* The code is right: the scan goes on (Attendance) and counts nothing.  So
\* does a code that two live sessions show.
RightCode(r) ==
    /\ At(r, "judge")
    /\ Finish(r)
    /\ UNCHANGED <<redis, memory, client>>

\* The code is wrong, and the recording of the miss looks the client up again.
WrongCode(r) ==
    /\ At(r, "judge")
    /\ Move(r, IF client = "ready" THEN "incr" ELSE "count")
    /\ UNCHANGED <<redis, memory, client>>

(***************************************************************************)
(* record_wrong_attempt, record_wrong_code_only_attempt                    *)
(***************************************************************************)

CountInRedis(k) == redis' = [redis EXCEPT ![k].count = @ + 1]
CountInMemory(k) == memory' = [memory EXCEPT ![k] = @ + 1]

\* The first miss goes on to start the window.
Incr(r) ==
    LET k == req[r].counter
    IN  /\ At(r, "incr")
        /\ CountInRedis(k)
        /\ IF redis[k].count = 0 THEN Move(r, "expire") ELSE Finish(r)
        /\ UNCHANGED <<memory, client>>

\* An INCR whose failure is only logged.
IncrFailsUncounted(r) ==
    /\ "redis" \in Faults
    /\ At(r, "incr")
    /\ client' = "warned"
    /\ Finish(r)
    /\ UNCHANGED <<redis, memory>>

\* Redis may have carried out an INCR whose reply is lost.
IncrFails(r) ==
    /\ "redis" \in Faults
    /\ At(r, "incr")
    /\ client' = "warned"
    /\ CountInRedis(req[r].counter) \/ UNCHANGED redis
    /\ Move(r, "count")
    /\ UNCHANGED memory

Count(r) ==
    /\ At(r, "count")
    /\ CountInMemory(req[r].counter)
    /\ Finish(r)
    /\ UNCHANGED <<redis, client>>

StartWindow(k) == redis' = [redis EXCEPT ![k].expires = @ \/ redis[k].count > 0]

Expire(r) ==
    /\ At(r, "expire")
    /\ StartWindow(req[r].counter)
    /\ Finish(r)
    /\ UNCHANGED <<memory, client>>

\* The miss is then counted in both places.
ExpireFails(r) ==
    /\ "redis" \in Faults
    /\ At(r, "expire")
    /\ client' = "warned"
    /\ StartWindow(req[r].counter) \/ UNCHANGED redis
    /\ Move(r, "count")
    /\ UNCHANGED memory

(***************************************************************************)
(* Time and restarts                                                       *)
(***************************************************************************)

RedisKeyExpires(k) ==
    /\ redis[k].expires
    /\ redis' = [redis EXCEPT ![k] = Absent]
    /\ UNCHANGED <<memory, client, req>>

\* Only the counters of students are forgotten by the process.
MemoryExpires(k) ==
    /\ k \in CodeOnly /\ memory[k] > 0
    /\ memory' = [memory EXCEPT ![k] = 0]
    /\ UNCHANGED <<redis, client, req>>

Restart ==
    /\ "crash" \in Faults
    /\ memory' = [k \in Counters |-> 0]
    /\ client' = "none"
    /\ req' = [r \in Threads |-> [pc |-> "idle"]]
    /\ UNCHANGED redis

Next ==
    \/ Connect
    \/ \E r \in Threads :
          \/ \E k \in Counters : LookUp(r, k)
          \/ Get(r) \/ GetFails(r) \/ Read(r)
          \/ RightCode(r) \/ WrongCode(r)
          \/ Incr(r) \/ IncrFails(r) \/ Count(r)
          \/ Expire(r) \/ ExpireFails(r)
    \/ \E k \in Counters : RedisKeyExpires(k) \/ MemoryExpires(k)
    \/ Restart

Spec == Init /\ [][Next]_vars

(***************************************************************************)
(* Properties                                                              *)
(***************************************************************************)

\* Past the limit, and not yet counted.
Judging(k) ==
    {r \in Threads : req[r].pc \in {"judge", "incr", "count"} /\ req[r].counter = k}

\* attendance_code.py:10-17: "wrong codes are counted ... and the code path is
\* refused once MAX_WRONG_CODE_ATTEMPTS is reached".  The limit is read before
\* the code is judged and the miss counted after, so scans that run side by
\* side overshoot it, but by no more than the server has further threads.  In the
\* store in use that still holds when every thread past the limit has counted
\* its miss, also one that read the limit in the other store.
GuessesBounded ==
    \A k \in Counters :
        /\ redis[k].count < MaxWrong + Cardinality(Threads)
        /\ memory[k] < MaxWrong + Cardinality(Threads)
        /\ client = "ready" =>
              redis[k].count + Cardinality(Judging(k)) < MaxWrong + Cardinality(Threads)
        /\ client = "warned" =>
              memory[k] + Cardinality(Judging(k)) < MaxWrong + Cardinality(Threads)

\* A thread about to count its miss with a client that another thread has given
\* up since it was looked up: in a store that no later scan reads.
Straggler(r) == client = "warned" /\ At(r, "incr")

\* No wrong code is free (record_wrong_attempt), but for one: when the record of
\* a miss is made, however Redis failed meanwhile, the count that later scans
\* read has grown, unless the server restarts, or the thread looked the client
\* up before another thread's failure and its own INCR then succeeds.  Such a
\* thread can only be one that was about to count when Redis was given up:
\* nobody joins them afterwards, so each thread loses one miss at most.
MissIsCounted ==
    [][\A r \in Threads :
          /\ req[r].pc \in {"incr", "count"} /\ req'[r].pc \notin {"incr", "count"} =>
                \/ client' = "ready" /\ redis'[req[r].counter].count > redis[req[r].counter].count
                \/ client' = "warned" /\ memory'[req[r].counter] > memory[req[r].counter]
                \/ Straggler(r) /\ redis'[req[r].counter].count > redis[req[r].counter].count
                \/ client' = "none"
          /\ client = "warned" /\ Straggler(r)' => Straggler(r)]_vars
=============================================================================
