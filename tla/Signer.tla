-------------------------------- MODULE Signer --------------------------------
(***************************************************************************)
(* How the backend sends a transaction: log_workload (services/workload.py)*)
(* and, with the same steps, lock_attendance, lock_root and                *)
(* _send_transaction.  All threads of the server sign with one account, so *)
(* their transactions share one sequence of nonces, which each thread      *)
(* reads for itself and uses some time later.  The node and its pool are   *)
(* external; the contract is WorkloadLedger, with its roles changing at    *)
(* any time.                                                               *)
(***************************************************************************)
EXTENDS WorkloadLedger, Naturals

CONSTANTS
    Threads,    \* request threads and jobs that send transactions
    Nobody,     \* the owner of a transaction whose sender has given up
    Signer,     \* the account of BACKEND_SIGNER_PRIVATE_KEY
    Elsewhere,  \* a call of the same account to another contract
    MaxTx       \* bound: transactions of the account ever mined

ASSUME SignerAssumption == Signer \in Accounts
ASSUME NobodyAssumption == Nobody \notin Threads
ASSUME BoundAssumption == MaxTx \in Nat

VARIABLES
    mined,  \* transactions of the account mined so far
    pool,   \* its transactions the node knows and has not mined
    call    \* what each thread is doing

signVars == <<logged, logs, roles, mined, pool, call>>

LogCall == [class : Classes, professor : Professors, status : WorkloadStatus]
OtherCall == {[class |-> Elsewhere]}
Call == LogCall \cup OtherCall

Tx == [nonce : Nat, call : Call, by : Threads \cup {Nobody}]

IdleCall == [pc |-> "idle"]

ActiveCall == [pc : {"estimated", "counted", "sent", "answered"}, call : Call,
               nonce : Nat, receipt : {"none", "success", "reverted"}]

SignerTypeOK ==
    /\ TypeOK
    /\ mined \in Nat
    /\ pool \in SUBSET Tx
    /\ call \in [Threads -> {IdleCall} \cup ActiveCall]

SignerInit ==
    /\ Init
    /\ mined = 0
    /\ pool = {}
    /\ call = [t \in Threads |-> IdleCall]

At(t, pc) == call[t].pc = pc

\* What the contract says to call k in the state it is in now.
Succeeds(k) == k \in LogCall => MayLog(Signer, k.class)

\* t returns to its caller with an error; a transaction it sent stays out.
Orphaned(S) == {IF tx.by \in S THEN [tx EXCEPT !.by = Nobody] ELSE tx : tx \in pool}

Raise(t) == call' = [call EXCEPT ![t] = IdleCall]

\* estimate_gas runs the call on the latest state; a revert is raised at once.
Estimate(t, k) ==
    /\ At(t, "idle")
    /\ Succeeds(k)
    /\ call' = [call EXCEPT ![t] = [pc |-> "estimated", call |-> k, nonce |-> 0,
                                    receipt |-> "none"]]
    /\ UNCHANGED <<ledgerVars, mined, pool>>

\* The pending count instead of the latest one.
CountPending(t) ==
    /\ At(t, "estimated")
    /\ mined < MaxTx
    /\ \E n \in {mined} \cup {tx.nonce + 1 : tx \in pool} :
          /\ \A tx \in pool : tx.nonce < n
          /\ call' = [call EXCEPT ![t].pc = "counted", ![t].nonce = n]
    /\ UNCHANGED <<ledgerVars, mined, pool>>

\* get_transaction_count(signer): transactions in the pool do not count.
CountNonce(t) ==
    /\ At(t, "estimated")
    /\ mined < MaxTx
    /\ call' = [call EXCEPT ![t].pc = "counted", ![t].nonce = mined]
    /\ UNCHANGED <<ledgerVars, mined, pool>>

Slot(n) == {tx \in pool : tx.nonce = n}

\* What the node does with t's transaction: the nonce is not used up, and
\* another transaction with it gives way (the gas price has gone up since).
Accepted(t, by) ==
    /\ call[t].nonce >= mined
    /\ pool' = (pool \ Slot(call[t].nonce))
                   \cup {[nonce |-> call[t].nonce, call |-> call[t].call, by |-> by]}

SendRaw(t) ==
    /\ At(t, "counted")
    /\ Accepted(t, t)
    /\ call' = [call EXCEPT ![t].pc = "sent"]
    /\ UNCHANGED <<ledgerVars, mined>>

\* The node has the transaction, its answer does not arrive.
SendAnswerLost(t) ==
    /\ At(t, "counted")
    /\ Accepted(t, Nobody)
    /\ Raise(t)
    /\ UNCHANGED <<ledgerVars, mined>>

\* Nonce too low, already known or underpriced - or any earlier request of t to
\* the node fails.
SendRefused(t) ==
    /\ At(t, "estimated") \/ At(t, "counted")
    /\ Raise(t)
    /\ UNCHANGED <<ledgerVars, mined, pool>>

\* The node mines the account's next transaction, which writes or reverts; its
\* nonce is used up either way.
Mine(tx) ==
    /\ tx \in pool /\ tx.nonce = mined
    /\ mined' = mined + 1
    /\ pool' = pool \ {tx}
    /\ IF Succeeds(tx.call) /\ tx.call \in LogCall
       THEN LogWorkload(Signer, tx.call.class, tx.call.professor, tx.call.status)
       ELSE UNCHANGED ledgerVars
    /\ call' = [t \in Threads |->
                   IF t = tx.by
                   THEN [call[t] EXCEPT !.receipt = IF Succeeds(tx.call) THEN "success"
                                                                        ELSE "reverted"]
                   ELSE call[t]]

\* The node forgets a transaction (a restart, an eviction).
Drop(tx) ==
    /\ tx \in pool
    /\ pool' = pool \ {tx}
    /\ UNCHANGED <<ledgerVars, mined, call>>

\* A receipt taken for success whatever its status says.
ReceiptUnchecked(t) ==
    /\ At(t, "sent")
    /\ call[t].receipt # "none"
    /\ call' = [call EXCEPT ![t].pc = "answered"]
    /\ UNCHANGED <<ledgerVars, mined, pool>>

ReceiptSuccess(t) ==
    /\ At(t, "sent")
    /\ call[t].receipt = "success"
    /\ call' = [call EXCEPT ![t].pc = "answered"]
    /\ UNCHANGED <<ledgerVars, mined, pool>>

\* status 0 in the receipt, no receipt within 30 seconds, or get_block raises.
\* Two threads may wait for one slot: the one that was replaced ends here.
ReceiptFails(t) ==
    /\ At(t, "sent")
    /\ Raise(t)
    /\ pool' = Orphaned({t})
    /\ UNCHANGED <<ledgerVars, mined>>

Answered(t) ==
    /\ At(t, "answered")
    /\ Raise(t)
    /\ UNCHANGED <<ledgerVars, mined, pool>>

\* The server dies and is restarted.
Crash ==
    /\ call' = [t \in Threads |-> IdleCall]
    /\ pool' = Orphaned(Threads)
    /\ UNCHANGED <<ledgerVars, mined>>

RolesChange == ChangeRoles /\ UNCHANGED <<mined, pool, call>>

SignerNext ==
    \/ \E t \in Threads :
          \/ \E k \in Call : Estimate(t, k)
          \/ CountNonce(t) \/ SendRaw(t) \/ SendAnswerLost(t) \/ SendRefused(t)
          \/ ReceiptSuccess(t) \/ ReceiptFails(t) \/ Answered(t)
    \/ \E tx \in pool : Mine(tx) \/ Drop(tx)
    \/ Crash
    \/ RolesChange

SignerSpec == SignerInit /\ [][SignerNext]_signVars

(***************************************************************************)
(* Properties                                                              *)
(***************************************************************************)

\* Whatever the threads of the server do at once (blockchain.py:103), at most one
\* transaction is out and it is the account's next one: no nonce is ever
\* skipped, so a lost transaction never keeps the later ones from being mined.
NoNonceGap ==
    /\ \A tx \in pool : tx.nonce = mined
    /\ \A x, y \in pool : x = y

\* The steps of log_workload implement the chain call FacultyWorkload and
\* Attendance are built on (workload.py:93-94, "Raises WorkloadError on any
\* failure"): success is answered only for a call that took effect, an error
\* leaves nothing behind or one transaction that takes effect late, or never.
CallAt(t) ==
    IF At(t, "idle") THEN "idle"
    ELSE IF At(t, "answered") THEN "answered"
    ELSE IF call[t].receipt = "success" THEN "executed"
    ELSE "asked"

EntriesMade == {k \in LogCall : /\ logged[k.class]
                                /\ logs[k.class] = [professor |-> k.professor,
                                                    status |-> k.status]}

Callers == [t \in Threads |->
               [at |-> CallAt(t),
                call |-> IF At(t, "idle") THEN [class |-> "none"] ELSE call[t].call]]

LeftBehind == {tx.call : tx \in {x \in pool : x.by = Nobody}}

Calls == INSTANCE ChainCall WITH
    Entries <- LogCall, Others <- OtherCall,
    ledger <- EntriesMade, thread <- Callers, pending <- LeftBehind

ImplementsChainCall == Calls!Spec
=============================================================================
