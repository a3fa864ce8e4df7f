------------------------------ MODULE ChainCall ------------------------------
(***************************************************************************)
(* What the backend's modules take a chain call to be: FacultyWorkload and *)
(* Attendance let a call be mined at once, be refused without a trace, or  *)
(* be given up and mined later or never.  A call takes effect at most      *)
(* once, and only a call that took effect is answered with success.        *)
(***************************************************************************)
CONSTANTS
    Threads,  \* whoever calls
    Entries,  \* calls that write an entry; two of one class exclude each other
    Others    \* calls to another contract

VARIABLES
    ledger,   \* the entries written so far
    thread,   \* thread[t]: how far t's call is, and which call it is
    pending   \* calls whose caller has given up, which may still take effect

vars == <<ledger, thread, pending>>

NoCall == [class |-> "none"]
Idle == [at |-> "idle", call |-> NoCall]

TypeOK ==
    /\ ledger \in SUBSET Entries
    /\ thread \in [Threads -> {Idle} \cup [at : {"asked", "executed", "answered"},
                                           call : Entries \cup Others]]
    /\ pending \in SUBSET (Entries \cup Others)

Init ==
    /\ ledger = {}
    /\ thread = [t \in Threads |-> Idle]
    /\ pending = {}

\* The contract's side of call k.
TakesEffect(k) ==
    \/ k \in Others /\ ledger' = ledger
    \/ /\ k \in Entries
       /\ \A e \in ledger : e.class # k.class
       /\ ledger' = ledger \cup {k}

Ask(t, k) ==
    /\ thread[t] = Idle
    /\ thread' = [thread EXCEPT ![t] = [at |-> "asked", call |-> k]]
    /\ UNCHANGED <<ledger, pending>>

Execute(t) ==
    /\ thread[t].at = "asked"
    /\ TakesEffect(thread[t].call)
    /\ thread' = [thread EXCEPT ![t].at = "executed"]
    /\ UNCHANGED pending

Answer(t) ==
    /\ thread[t].at = "executed"
    /\ thread' = [thread EXCEPT ![t].at = "answered"]
    /\ UNCHANGED <<ledger, pending>>

Return(t) ==
    /\ thread[t].at = "answered"
    /\ thread' = [thread EXCEPT ![t] = Idle]
    /\ UNCHANGED <<ledger, pending>>

\* The callers S get an error or die.  What they asked for may still happen
\* unless it has happened already.
Asked(S) == {thread[t].call : t \in {u \in S : thread[u].at = "asked"}}

Abandon(S) ==
    /\ thread' = [t \in Threads |-> IF t \in S THEN Idle ELSE thread[t]]
    /\ pending' \in SUBSET (pending \cup Asked(S))
    /\ UNCHANGED ledger

\* A call nobody waits for takes effect, or is dropped.
Late(k) ==
    /\ k \in pending
    /\ pending' = pending \ {k}
    /\ TakesEffect(k) \/ ledger' = ledger
    /\ UNCHANGED thread

Next ==
    \/ \E t \in Threads : \/ \E k \in Entries \cup Others : Ask(t, k)
                          \/ Execute(t) \/ Answer(t) \/ Return(t)
    \/ \E S \in SUBSET Threads : Abandon(S)
    \/ \E k \in pending : Late(k)

Spec == Init /\ [][Next]_vars
=============================================================================
