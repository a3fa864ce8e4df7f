----------------------------- MODULE SignerProofs -----------------------------
(***************************************************************************)
(* WorkloadLedger for any number of classes, professors and accounts:      *)
(* types, the view's consistency, and that the contract implements         *)
(* WriteOnce.  Signer, the path to it, for any number of threads and       *)
(* transactions: types, no gap in the nonces, the contract's promise       *)
(* through the path, and that the path implements ChainCall.               *)
(***************************************************************************)
EXTENDS Signer, TLAPS

-----------------------------------------------------------------------------
(* The contract by itself *)

\* The zero value of an unwritten slot is not an entry logWorkload can write.
LEMMA ZeroIsNoEntry == ZeroEntry \notin Entry
  BY NoProfessorAssumption DEF ZeroEntry, Entry

\* A transaction keeps the types of the contract's storage.
LEMMA LedgerTypeStep == TypeOK /\ [Next]_ledgerVars => TypeOK'
<1> SUFFICES ASSUME TypeOK, [Next]_ledgerVars
             PROVE  TypeOK'
  OBVIOUS
<1>1. ASSUME NEW caller \in Accounts, NEW c \in Classes, NEW p \in Professors,
             NEW status \in WorkloadStatus, LogWorkload(caller, c, p, status)
      PROVE  TypeOK'
  BY <1>1 DEF LogWorkload, MayLog, Write, TypeOK, Entry, Access!RolesTypeOK
<1>2. CASE ChangeRoles
  BY <1>2 DEF ChangeRoles, TypeOK, Access!RolesTypeOK, Access!RoleChange,
              Access!GrantRole, Access!RevokeRole, Access!RenounceRole
<1>3. CASE UNCHANGED ledgerVars
  BY <1>3 DEF ledgerVars, TypeOK, Access!RolesTypeOK
<1> QED
  BY <1>1, <1>2, <1>3 DEF Next

\* Every state of the contract is well typed: flags, entries and role members.
THEOREM LedgerTypeCorrect == Spec => []TypeOK
<1>1. Init => TypeOK
  BY AdminAssumption
     DEF Init, TypeOK, Access!RolesInit, Access!RolesTypeOK, LedgerRoles
<1> QED
  BY <1>1, LedgerTypeStep, PTL DEF Spec

\* The stored entry of a class is the zero value exactly while the class is not
\* logged: a reader of getWorkloadLog that checks `logged` is never misled.
THEOREM LedgerViewConsistent == Spec => []ViewConsistent
<1>1. Init => ViewConsistent
  BY DEF Init, ViewConsistent
<1>2. TypeOK /\ ViewConsistent /\ [Next]_ledgerVars => ViewConsistent'
  <2> SUFFICES ASSUME TypeOK, ViewConsistent, [Next]_ledgerVars
               PROVE  ViewConsistent'
    OBVIOUS
  <2>1. ASSUME NEW caller \in Accounts, NEW c \in Classes, NEW p \in Professors,
               NEW status \in WorkloadStatus, LogWorkload(caller, c, p, status)
        PROVE  ViewConsistent'
    <3>1. [professor |-> p, status |-> status] # ZeroEntry
      BY NoProfessorAssumption DEF ZeroEntry
    <3> QED
      BY <2>1, <3>1 DEF LogWorkload, MayLog, Write, ViewConsistent, TypeOK
  <2>2. CASE ChangeRoles
    BY <2>2 DEF ChangeRoles, ViewConsistent
  <2>3. CASE UNCHANGED ledgerVars
    BY <2>3 DEF ledgerVars, ViewConsistent
  <2> QED
    BY <2>1, <2>2, <2>3 DEF Next
<1> QED
  BY <1>1, <1>2, LedgerTypeCorrect, PTL DEF Spec

\* The contract implements the write-once store of outcomes: no call and no
\* change of roles ever replaces or removes the entry of a class.
THEOREM LedgerIsWriteOnce == Spec => OneEntryPerClass
<1> DEFINE store == [c \in Classes |-> IF logged[c] THEN logs[c] ELSE ZeroEntry]
<1>1. Init => Outcomes!Init
  BY DEF Init, Outcomes!Init
<1>2. TypeOK /\ [Next]_ledgerVars => [Outcomes!Next]_store
  <2> SUFFICES ASSUME TypeOK, [Next]_ledgerVars
               PROVE  [Outcomes!Next]_store
    OBVIOUS
  <2>1. ASSUME NEW caller \in Accounts, NEW c \in Classes, NEW p \in Professors,
               NEW status \in WorkloadStatus, LogWorkload(caller, c, p, status)
        PROVE  Outcomes!Next
    <3> DEFINE e == [professor |-> p, status |-> status]
    <3>1. e \in Entry
      BY DEF Entry
    <3>2. store[c] = ZeroEntry
      BY <2>1 DEF LogWorkload, MayLog
    <3>3. store' = [store EXCEPT ![c] = e]
      BY <2>1 DEF LogWorkload, MayLog, Write, TypeOK
    <3> QED
      BY <3>1, <3>2, <3>3 DEF Outcomes!Next, Outcomes!Put
  <2>2. CASE ChangeRoles
    BY <2>2 DEF ChangeRoles
  <2>3. CASE UNCHANGED ledgerVars
    BY <2>3 DEF ledgerVars
  <2> QED
    BY <2>1, <2>2, <2>3 DEF Next
<1> QED
  BY <1>1, <1>2, LedgerTypeCorrect, PTL DEF Spec, OneEntryPerClass, Outcomes!Spec

-----------------------------------------------------------------------------
(* The signing path *)

\* To the contract a step of the signing path is one of its own, or none.
LEMMA SignerStepsLedger == SignerTypeOK /\ [SignerNext]_signVars => [Next]_ledgerVars
<1> SUFFICES ASSUME SignerTypeOK, [SignerNext]_signVars
             PROVE  [Next]_ledgerVars
  OBVIOUS
<1>1. ASSUME NEW tx \in pool, Mine(tx)
      PROVE  [Next]_ledgerVars
  <2>1. CASE Succeeds(tx.call) /\ tx.call \in LogCall
    BY <1>1, <2>1, SignerAssumption DEF Mine, LogCall, Next
  <2>2. CASE ~(Succeeds(tx.call) /\ tx.call \in LogCall)
    BY <1>1, <2>2 DEF Mine
  <2> QED
    BY <2>1, <2>2
<1>2. CASE RolesChange
  BY <1>2 DEF RolesChange, Next
<1>3. ASSUME NEW t \in Threads,
             \/ \E k \in Call : Estimate(t, k)
             \/ CountNonce(t) \/ SendRaw(t) \/ SendAnswerLost(t) \/ SendRefused(t)
             \/ ReceiptSuccess(t) \/ ReceiptFails(t) \/ Answered(t)
      PROVE  UNCHANGED ledgerVars
  BY <1>3 DEF Estimate, CountNonce, SendRaw, SendAnswerLost, SendRefused,
              ReceiptSuccess, ReceiptFails, Answered
<1>4. CASE (\E tx \in pool : Drop(tx)) \/ Crash \/ UNCHANGED signVars
  BY <1>4 DEF Drop, Crash, signVars, ledgerVars
<1> QED
  BY <1>1, <1>2, <1>3, <1>4 DEF SignerNext

\* Every state of the signing path is well typed.
THEOREM SignerTypeCorrect == SignerSpec => []SignerTypeOK
<1>1. SignerInit => SignerTypeOK
  BY AdminAssumption
     DEF SignerInit, SignerTypeOK, Init, TypeOK, Access!RolesInit,
         Access!RolesTypeOK, LedgerRoles
<1>2. SignerTypeOK /\ [SignerNext]_signVars => SignerTypeOK'
  <2> SUFFICES ASSUME SignerTypeOK, [SignerNext]_signVars
               PROVE  SignerTypeOK'
    OBVIOUS
  <2> USE DEF SignerTypeOK, At
  <2>0. TypeOK'
    BY SignerStepsLedger, LedgerTypeStep
  <2>1. ASSUME NEW S \in SUBSET Threads
        PROVE  Orphaned(S) \in SUBSET Tx
    BY DEF Orphaned, Tx
  <2>2. ASSUME NEW t \in Threads, NEW k \in Call, Estimate(t, k)
        PROVE  SignerTypeOK'
    BY <2>2, <2>0 DEF Estimate, ActiveCall
  <2>3. ASSUME NEW t \in Threads, CountNonce(t)
        PROVE  SignerTypeOK'
    <3>1. call[t] \in ActiveCall
      BY <2>3 DEF CountNonce, IdleCall
    <3> QED
      BY <2>3, <2>0, <3>1 DEF CountNonce, ActiveCall
  <2>4. ASSUME NEW t \in Threads, NEW by \in Threads \cup {Nobody},
               At(t, "counted"), Accepted(t, by)
        PROVE  pool' \in SUBSET Tx /\ call[t] \in ActiveCall
    <3>1. call[t] \in ActiveCall
      BY <2>4 DEF IdleCall
    <3> QED
      BY <2>4, <3>1 DEF Accepted, Tx, ActiveCall
  <2>5. ASSUME NEW t \in Threads, SendRaw(t)
        PROVE  SignerTypeOK'
    BY <2>5, <2>0, <2>4 DEF SendRaw, ActiveCall
  <2>6. ASSUME NEW t \in Threads, SendAnswerLost(t)
        PROVE  SignerTypeOK'
    BY <2>6, <2>0, <2>4 DEF SendAnswerLost, Raise
  <2>7. ASSUME NEW t \in Threads,
               SendRefused(t) \/ ReceiptFails(t) \/ Answered(t)
        PROVE  SignerTypeOK'
    BY <2>7, <2>0, <2>1 DEF SendRefused, ReceiptFails, Answered, Raise
  <2>8. ASSUME NEW t \in Threads, ReceiptSuccess(t)
        PROVE  SignerTypeOK'
    <3>1. call[t] \in ActiveCall
      BY <2>8 DEF ReceiptSuccess, IdleCall
    <3> QED
      BY <2>8, <2>0, <3>1 DEF ReceiptSuccess, ActiveCall
  <2>9. ASSUME NEW tx \in pool, Mine(tx)
        PROVE  SignerTypeOK'
    <3>1. ASSUME NEW t \in Threads
          PROVE  call'[t] \in {IdleCall} \cup ActiveCall
      <4>1. CASE call[t] \in ActiveCall
        BY <2>9, <4>1 DEF Mine, ActiveCall
      <4>2. CASE call[t] = IdleCall
        <5>1. [call[t] EXCEPT !.receipt = IF Succeeds(tx.call) THEN "success"
                                                              ELSE "reverted"] = IdleCall
          BY <4>2 DEF IdleCall
        <5> QED
          BY <2>9, <4>2, <5>1 DEF Mine
      <4> QED
        BY <4>1, <4>2
    <3> QED
      BY <2>9, <2>0, <3>1 DEF Mine
  <2>10. CASE \E tx \in pool : Drop(tx)
    BY <2>10, <2>0 DEF Drop
  <2>11. CASE Crash
    BY <2>11, <2>0, <2>1 DEF Crash
  <2>12. CASE RolesChange \/ UNCHANGED signVars
    BY <2>12, <2>0 DEF RolesChange, signVars
  <2> QED
    BY <2>2, <2>3, <2>5, <2>6, <2>7, <2>8, <2>9, <2>10, <2>11, <2>12 DEF SignerNext
<1> QED
  BY <1>1, <1>2, PTL DEF SignerSpec

\* No nonce is used twice or skipped: what a thread has counted is never ahead
\* of the chain, and what the node accepts is never behind it.
SlotInv ==
    /\ NoNonceGap
    /\ \A t \in Threads : At(t, "counted") => call[t].nonce <= mined

LEMMA SlotStep == SignerTypeOK /\ SlotInv /\ [SignerNext]_signVars => SlotInv'
<1> SUFFICES ASSUME SignerTypeOK, SlotInv, [SignerNext]_signVars
             PROVE  SlotInv'
  OBVIOUS
<1> USE DEF SignerTypeOK, SlotInv, NoNonceGap, At
<1>1. ASSUME NEW t \in Threads, \E k \in Call : Estimate(t, k)
      PROVE  SlotInv'
  BY <1>1 DEF Estimate
<1>2. ASSUME NEW t \in Threads, CountNonce(t)
      PROVE  SlotInv'
  <2>1. call[t] \in ActiveCall
    BY <1>2 DEF CountNonce, IdleCall
  <2> QED
    BY <1>2, <2>1 DEF CountNonce, ActiveCall
<1>3. ASSUME NEW t \in Threads, NEW by \in Threads \cup {Nobody},
             At(t, "counted"), Accepted(t, by)
      PROVE  pool' = {[nonce |-> mined, call |-> call[t].call, by |-> by]}
  <2>1. call[t] \in ActiveCall
    BY <1>3 DEF IdleCall
  <2>2. call[t].nonce = mined
    BY <1>3, <2>1 DEF Accepted, ActiveCall
  <2>3. pool \ Slot(mined) = {}
    BY DEF Slot
  <2> QED
    BY <1>3, <2>2, <2>3 DEF Accepted
<1>4. ASSUME NEW t \in Threads, SendRaw(t)
      PROVE  SlotInv'
  <2>1. pool' = {[nonce |-> mined, call |-> call[t].call, by |-> t]}
    BY <1>4, <1>3 DEF SendRaw
  <2> QED
    BY <1>4, <2>1 DEF SendRaw
<1>5. ASSUME NEW t \in Threads, SendAnswerLost(t)
      PROVE  SlotInv'
  <2>1. pool' = {[nonce |-> mined, call |-> call[t].call, by |-> Nobody]}
    BY <1>5, <1>3 DEF SendAnswerLost
  <2> QED
    BY <1>5, <2>1 DEF SendAnswerLost, Raise, IdleCall
<1>6. ASSUME NEW S \in SUBSET Threads, pool' = Orphaned(S), mined' = mined
      PROVE  NoNonceGap'
  BY <1>6 DEF Orphaned, Tx
<1>7. ASSUME NEW t \in Threads, SendRefused(t) \/ ReceiptFails(t) \/ Answered(t)
      PROVE  SlotInv'
  <2>1. NoNonceGap'
    BY <1>7, <1>6 DEF SendRefused, ReceiptFails, Answered
  <2> QED
    BY <1>7, <2>1 DEF SendRefused, ReceiptFails, Answered, Raise, IdleCall
<1>8. ASSUME NEW t \in Threads, ReceiptSuccess(t)
      PROVE  SlotInv'
  BY <1>8 DEF ReceiptSuccess
<1>9. ASSUME NEW tx \in pool, Mine(tx)
      PROVE  SlotInv'
  <2>1. pool' = {} /\ mined' = mined + 1
    BY <1>9 DEF Mine
  <2>2. ASSUME NEW t \in Threads, At(t, "counted")'
        PROVE  call'[t].nonce <= mined + 1
    <3>1. call[t].pc = "counted" /\ call'[t].nonce = call[t].nonce
      BY <1>9, <2>2 DEF Mine, ActiveCall, IdleCall
    <3>2. call[t] \in ActiveCall
      BY <3>1 DEF IdleCall
    <3> QED
      BY <3>1, <3>2 DEF ActiveCall
  <2> QED
    BY <2>1, <2>2
<1>10. CASE \E tx \in pool : Drop(tx)
  BY <1>10 DEF Drop
<1>11. CASE Crash
  <2>1. NoNonceGap'
    BY <1>11, <1>6 DEF Crash
  <2> QED
    BY <1>11, <2>1 DEF Crash, IdleCall
<1>12. CASE RolesChange \/ UNCHANGED signVars
  BY <1>12 DEF RolesChange, signVars
<1> QED
  BY <1>1, <1>2, <1>4, <1>5, <1>7, <1>8, <1>9, <1>10, <1>11, <1>12 DEF SignerNext

\* Concurrent senders never leave a gap in the account's nonces, and never more
\* than one transaction out.
THEOREM NonceGapFree == SignerSpec => []NoNonceGap
<1>1. SignerInit => SlotInv
  BY DEF SignerInit, SlotInv, NoNonceGap, At, IdleCall
<1>2. SlotInv => NoNonceGap
  BY DEF SlotInv
<1> QED
  BY <1>1, <1>2, SlotStep, SignerTypeCorrect, PTL DEF SignerSpec

\* Through every race of the signing path a class keeps its first entry.
THEOREM SignerKeepsLedgerPromise == SignerSpec => OneEntryPerClass
<1>1. SignerInit => Init
  BY DEF SignerInit
<1>2. SignerSpec => Spec
  BY <1>1, SignerStepsLedger, SignerTypeCorrect, PTL DEF SignerSpec, Spec
<1> QED
  BY <1>2, LedgerIsWriteOnce

\* A transaction that is out and not orphaned belongs to the thread that waits for
\* it; only a thread that sent one has a receipt.
OwnInv ==
    /\ \A tx \in pool : tx.by # Nobody => /\ At(tx.by, "sent")
                                          /\ call[tx.by].call = tx.call
                                          /\ call[tx.by].receipt = "none"
    /\ \A t \in Threads : At(t, "estimated") \/ At(t, "counted")
                             => call[t].receipt = "none"

LEMMA OwnStep == SignerTypeOK /\ SlotInv /\ OwnInv /\ [SignerNext]_signVars => OwnInv'
<1> SUFFICES ASSUME SignerTypeOK, SlotInv, OwnInv, [SignerNext]_signVars
             PROVE  OwnInv'
  OBVIOUS
<1> USE DEF SignerTypeOK, OwnInv, At
<1>1. ASSUME NEW t \in Threads, \E k \in Call : Estimate(t, k)
      PROVE  OwnInv'
  BY <1>1, NobodyAssumption DEF Estimate, Tx
<1>2. ASSUME NEW t \in Threads, CountNonce(t)
      PROVE  OwnInv'
  <2>1. call[t] \in ActiveCall
    BY <1>2 DEF CountNonce, IdleCall
  <2> QED
    BY <1>2, <2>1, NobodyAssumption DEF CountNonce, ActiveCall, Tx
<1>3. ASSUME NEW t \in Threads, SendRaw(t)
      PROVE  OwnInv'
  <2>1. call[t] \in ActiveCall
    BY <1>3 DEF SendRaw, IdleCall
  <2>2. ASSUME NEW tx \in pool', tx.by # Nobody
        PROVE  /\ call'[tx.by].pc = "sent" /\ call'[tx.by].call = tx.call
               /\ call'[tx.by].receipt = "none"
    <3>1. CASE tx \in pool
      BY <1>3, <2>2, <3>1, NobodyAssumption DEF SendRaw, Tx
    <3>2. CASE tx \notin pool
      BY <1>3, <2>1, <3>2 DEF SendRaw, Accepted, ActiveCall
    <3> QED
      BY <3>1, <3>2
  <2> QED
    BY <1>3, <2>1, <2>2 DEF SendRaw, ActiveCall
<1>4. ASSUME NEW t \in Threads, SendAnswerLost(t)
      PROVE  OwnInv'
  <2>1. \A tx \in pool' : tx.by # Nobody => tx \in pool /\ tx.by # t
    BY <1>4 DEF SendAnswerLost, Accepted
  <2> QED
    BY <1>4, <2>1, NobodyAssumption DEF SendAnswerLost, Raise, Tx, IdleCall
<1>5. ASSUME NEW S \in SUBSET Threads, pool' = Orphaned(S),
             \A t \in Threads \ S : call'[t] = call[t],
             \A t \in S : call'[t] = IdleCall
      PROVE  OwnInv'
  BY <1>5, NobodyAssumption DEF Orphaned, Tx, IdleCall
<1>6. ASSUME NEW t \in Threads, ReceiptFails(t)
      PROVE  OwnInv'
  <2>1. /\ \A u \in Threads \ {t} : call'[u] = call[u]
        /\ \A u \in {t} : call'[u] = IdleCall
        /\ pool' = Orphaned({t})
    BY <1>6 DEF ReceiptFails, Raise
  <2>2. {t} \in SUBSET Threads
    OBVIOUS
  <2> QED
    BY <1>5, <2>1, <2>2
<1>7. CASE Crash
  BY <1>7, <1>5 DEF Crash
<1>8. ASSUME NEW t \in Threads, SendRefused(t) \/ Answered(t)
      PROVE  OwnInv'
  BY <1>8, NobodyAssumption DEF SendRefused, Answered, Raise, Tx, IdleCall
<1>9. ASSUME NEW t \in Threads, ReceiptSuccess(t)
      PROVE  OwnInv'
  <2>1. call[t] \in ActiveCall
    BY <1>9 DEF ReceiptSuccess, IdleCall
  <2> QED
    BY <1>9, <2>1, NobodyAssumption DEF ReceiptSuccess, ActiveCall, Tx
<1>10. ASSUME NEW tx \in pool, Mine(tx)
       PROVE  OwnInv'
  <2>1. pool' = {}
    BY <1>10 DEF Mine, SlotInv, NoNonceGap
  <2>2. \A t \in Threads \ {tx.by} : call'[t] = call[t]
    BY <1>10 DEF Mine
  <2>3. ASSUME tx.by \in Threads
        PROVE  call'[tx.by].pc = "sent"
    <3>1. call[tx.by].pc = "sent"
      BY <2>3, NobodyAssumption
    <3>2. call[tx.by] \in ActiveCall
      BY <2>3, <3>1 DEF IdleCall
    <3> QED
      BY <1>10, <2>3, <3>1, <3>2 DEF Mine, ActiveCall
  <2> QED
    BY <2>1, <2>2, <2>3
<1>11. CASE \E tx \in pool : Drop(tx)
  BY <1>11 DEF Drop
<1>12. CASE RolesChange \/ UNCHANGED signVars
  BY <1>12 DEF RolesChange, signVars
<1> QED
  BY <1>1, <1>2, <1>3, <1>4, <1>6, <1>7, <1>8, <1>9, <1>10, <1>11, <1>12
     DEF SignerNext

\* What a caller sees depends on its own call only, what is written on the
\* contract's storage only.
LEMMA SameCaller ==
  ASSUME NEW t \in Threads, call'[t] = call[t]
  PROVE  Callers'[t] = Callers[t]
BY DEF Callers, CallAt, At

LEMMA SameEntries == UNCHANGED <<logged, logs>> => EntriesMade' = EntriesMade
BY DEF EntriesMade

\* The callers in S leave with an error, and no transaction that was not theirs is
\* orphaned by it.
LEMMA AbandonRefines ==
  ASSUME SignerTypeOK, OwnInv, NEW S \in SUBSET Threads,
         UNCHANGED ledgerVars,
         \A t \in Threads \ S : call'[t] = call[t],
         \A t \in S : call'[t] = IdleCall,
         \A tx \in pool' : tx.by = Nobody =>
            \/ \E x \in pool : x.by \in S \cup {Nobody} /\ x.call = tx.call
            \/ \E t \in S : At(t, "counted") /\ call[t].call = tx.call
  PROVE  Calls!Abandon(S)
<1> USE DEF At
<1>1. EntriesMade' = EntriesMade
  BY SameEntries DEF ledgerVars
<1>2. Callers' = [t \in Threads |-> IF t \in S THEN Calls!Idle ELSE Callers[t]]
  <2>1. ASSUME NEW t \in Threads
        PROVE  Callers'[t] = IF t \in S THEN Calls!Idle ELSE Callers[t]
    BY SameCaller DEF Callers, CallAt, IdleCall, Calls!Idle, Calls!NoCall
  <2> QED
    BY <2>1 DEF Callers
<1>3. ASSUME NEW k \in LeftBehind'
      PROVE  k \in LeftBehind \cup Calls!Asked(S)
  <2>1. PICK tx \in pool' : tx.by = Nobody /\ tx.call = k
    BY <1>3 DEF LeftBehind
  <2>2. CASE \E x \in pool : x.by = Nobody /\ x.call = k
    BY <2>2 DEF LeftBehind
  <2>3. ASSUME NEW t \in S, call[t].call = k, call[t].receipt = "none",
               call[t].pc \in {"counted", "sent"}
        PROVE  k \in Calls!Asked(S)
    BY <2>3 DEF Calls!Asked, Callers, CallAt
  <2>4. CASE \E x \in pool : x.by \in S /\ x.call = k
    BY <2>3, <2>4, NobodyAssumption DEF OwnInv
  <2>5. CASE \E t \in S : call[t].pc = "counted" /\ call[t].call = k
    BY <2>3, <2>5 DEF OwnInv
  <2> QED
    BY <2>1, <2>2, <2>4, <2>5
<1> QED
  BY <1>1, <1>2, <1>3 DEF Calls!Abandon

\* A write adds its call to the entries made.
LEMMA LogAddsEntry ==
  ASSUME SignerTypeOK, NEW k \in LogCall,
         LogWorkload(Signer, k.class, k.professor, k.status)
  PROVE  EntriesMade' = EntriesMade \cup {k}
<1>1. /\ k.class \in Classes /\ ~logged[k.class]
      /\ logged' = [logged EXCEPT ![k.class] = TRUE]
      /\ logs' = [logs EXCEPT ![k.class] = [professor |-> k.professor, status |-> k.status]]
  BY DEF LogWorkload, MayLog, Write, LogCall
<1>2. logged \in [Classes -> BOOLEAN] /\ logs \in [Classes -> Entry \cup {ZeroEntry}]
  BY DEF SignerTypeOK, TypeOK
<1>3. ASSUME NEW e \in LogCall
      PROVE  e \in EntriesMade' <=> e \in EntriesMade \/ e = k
  <2>1. CASE e.class = k.class
    <3>1. e \notin EntriesMade
      BY <1>1, <2>1 DEF EntriesMade
    <3>2. logs'[e.class] = [professor |-> k.professor, status |-> k.status] /\ logged'[e.class]
      BY <1>1, <1>2, <2>1
    <3>3. e \in EntriesMade' <=> e.professor = k.professor /\ e.status = k.status
      BY <3>2 DEF EntriesMade
    <3>4. e = k <=> e.professor = k.professor /\ e.status = k.status
      BY <2>1 DEF LogCall
    <3> QED
      BY <3>1, <3>3, <3>4
  <2>2. CASE e.class # k.class
    <3>1. e.class \in Classes /\ logs'[e.class] = logs[e.class] /\ logged'[e.class] = logged[e.class]
      BY <1>1, <1>2, <2>2 DEF LogCall
    <3> QED
      BY <2>2, <3>1 DEF EntriesMade
  <2> QED
    BY <2>1, <2>2
<1> QED
  BY <1>3 DEF EntriesMade

\* A transaction the node mines is the effect of the call that waits for it, a
\* late effect, or nothing.
LEMMA MineRefines ==
  ASSUME SignerTypeOK, SlotInv, OwnInv, NEW tx \in pool, Mine(tx)
  PROVE  [Calls!Next]_<<EntriesMade, Callers, LeftBehind>>
<1> USE DEF At
<1>1. pool = {tx} /\ pool' = {} /\ LeftBehind' = {}
  BY DEF Mine, SlotInv, NoNonceGap, LeftBehind
<1>2. tx.call \in Call /\ tx.by \in Threads \cup {Nobody}
  BY DEF SignerTypeOK, Tx
<1>3. \A t \in Threads \ {tx.by} : Callers'[t] = Callers[t]
  BY SameCaller DEF Mine
<1>4. ASSUME Succeeds(tx.call)
      PROVE  Calls!TakesEffect(tx.call)
  <2>1. CASE tx.call \in LogCall
    <3>1. LogWorkload(Signer, tx.call.class, tx.call.professor, tx.call.status)
      BY <1>4, <2>1 DEF Mine
    <3>2. EntriesMade' = EntriesMade \cup {tx.call}
      BY <3>1, <2>1, LogAddsEntry
    <3>3. \A e \in EntriesMade : e.class # tx.call.class
      BY <3>1 DEF EntriesMade, LogWorkload, MayLog
    <3> QED
      BY <2>1, <3>2, <3>3 DEF Calls!TakesEffect
  <2>2. CASE tx.call \notin LogCall
    <3>1. EntriesMade' = EntriesMade
      BY <2>2, SameEntries DEF Mine, ledgerVars
    <3> QED
      BY <1>2, <2>2, <3>1 DEF Call, Calls!TakesEffect
  <2> QED
    BY <2>1, <2>2
<1>5. ASSUME ~Succeeds(tx.call)
      PROVE  EntriesMade' = EntriesMade
  BY <1>5, SameEntries DEF Mine, ledgerVars
<1>6. CASE tx.by = Nobody
  <2>1. Callers' = Callers
    BY <1>3, <1>6, NobodyAssumption DEF Callers
  <2>2. LeftBehind = {tx.call}
    BY <1>1, <1>6 DEF LeftBehind
  <2>3. Calls!Late(tx.call)
    BY <1>1, <1>4, <1>5, <2>1, <2>2 DEF Calls!Late
  <2> QED
    BY <2>2, <2>3 DEF Calls!Next
<1>7. ASSUME tx.by # Nobody
      PROVE  [Calls!Next]_<<EntriesMade, Callers, LeftBehind>>
  <2> DEFINE t == tx.by
  <2>1. /\ t \in Threads /\ call[t] \in ActiveCall
        /\ call[t].pc = "sent" /\ call[t].call = tx.call /\ call[t].receipt = "none"
    BY <1>2, <1>7 DEF OwnInv, SignerTypeOK, IdleCall
  <2>2. /\ call'[t].pc = "sent" /\ call'[t].call = tx.call
        /\ call'[t].receipt = IF Succeeds(tx.call) THEN "success" ELSE "reverted"
    BY <2>1 DEF Mine, ActiveCall
  <2>3. LeftBehind' = LeftBehind
    BY <1>1, <1>7 DEF LeftBehind
  <2>4. Callers[t] = [at |-> "asked", call |-> tx.call]
    BY <2>1 DEF Callers, CallAt
  <2>5. CASE Succeeds(tx.call)
    <3>1. Callers'[t] = [at |-> "executed", call |-> tx.call]
      BY <2>1, <2>2, <2>5 DEF Callers, CallAt
    <3>2. Callers' = [Callers EXCEPT ![t].at = "executed"]
      <4>1. ASSUME NEW u \in Threads
            PROVE  Callers'[u] = [Callers EXCEPT ![t].at = "executed"][u]
        BY <1>3, <2>1, <2>4, <3>1 DEF Callers
      <4> QED
        BY <4>1 DEF Callers
    <3>3. Calls!Execute(t)
      BY <1>4, <2>3, <2>4, <2>5, <3>2 DEF Calls!Execute
    <3> QED
      BY <2>1, <3>3 DEF Calls!Next
  <2>6. CASE ~Succeeds(tx.call)
    <3>1. Callers'[t] = Callers[t]
      BY <2>1, <2>2, <2>4, <2>6 DEF Callers, CallAt
    <3>2. Callers' = Callers
      BY <1>3, <3>1 DEF Callers
    <3> QED
      BY <1>5, <2>3, <2>6, <3>2
  <2> QED
    BY <2>5, <2>6
<1> QED
  BY <1>6, <1>7

\* Every step of the signing path is a step of ChainCall, or none.
LEMMA SignerStepRefines ==
  ASSUME SignerTypeOK, SlotInv, OwnInv, [SignerNext]_signVars
  PROVE  [Calls!Next]_<<EntriesMade, Callers, LeftBehind>>
<1> USE DEF At
<1>a. ASSUME NEW S \in SUBSET Threads, Calls!Abandon(S)
      PROVE  [Calls!Next]_<<EntriesMade, Callers, LeftBehind>>
  BY <1>a DEF Calls!Next
<1>1. ASSUME NEW t \in Threads, NEW k \in Call, Estimate(t, k)
      PROVE  Calls!Ask(t, k)
  <2>1. Callers[t] = Calls!Idle
    BY <1>1 DEF Estimate, Callers, CallAt, Calls!Idle, Calls!NoCall
  <2>2. Callers'[t] = [at |-> "asked", call |-> k]
    BY <1>1 DEF Estimate, Callers, CallAt, SignerTypeOK
  <2>3. \A u \in Threads \ {t} : Callers'[u] = Callers[u]
    BY <1>1, SameCaller DEF Estimate, SignerTypeOK
  <2>4. Callers' = [Callers EXCEPT ![t] = [at |-> "asked", call |-> k]]
    BY <2>2, <2>3 DEF Callers
  <2>5. EntriesMade' = EntriesMade /\ LeftBehind' = LeftBehind
    BY <1>1, SameEntries DEF Estimate, ledgerVars, LeftBehind
  <2> QED
    BY <2>1, <2>4, <2>5 DEF Calls!Ask
<1>2. ASSUME NEW t \in Threads, CountNonce(t)
      PROVE  UNCHANGED <<EntriesMade, Callers, LeftBehind>>
  <2>1. call[t] \in ActiveCall
    BY <1>2 DEF CountNonce, IdleCall, SignerTypeOK
  <2>2. Callers'[t] = Callers[t]
    BY <1>2, <2>1 DEF CountNonce, Callers, CallAt, SignerTypeOK, ActiveCall
  <2>3. \A u \in Threads \ {t} : Callers'[u] = Callers[u]
    BY <1>2, SameCaller DEF CountNonce, SignerTypeOK
  <2> QED
    BY <1>2, <2>2, <2>3, SameEntries DEF CountNonce, Callers, ledgerVars, LeftBehind
<1>3. ASSUME NEW t \in Threads, SendRaw(t)
      PROVE  [Calls!Next]_<<EntriesMade, Callers, LeftBehind>>
  <2>1. call[t] \in ActiveCall
    BY <1>3 DEF SendRaw, IdleCall, SignerTypeOK
  <2>2. Callers'[t] = Callers[t]
    BY <1>3, <2>1 DEF SendRaw, Callers, CallAt, SignerTypeOK, ActiveCall
  <2>3. \A u \in Threads \ {t} : Callers'[u] = Callers[u]
    BY <1>3, SameCaller DEF SendRaw, SignerTypeOK
  <2>4. Callers' = [u \in Threads |-> IF u \in {} THEN Calls!Idle ELSE Callers[u]]
    BY <2>2, <2>3 DEF Callers
  <2>5. LeftBehind' \subseteq LeftBehind
    BY <1>3, NobodyAssumption DEF SendRaw, Accepted, LeftBehind
  <2>6. EntriesMade' = EntriesMade
    BY <1>3, SameEntries DEF SendRaw, ledgerVars
  <2>7. Calls!Abandon({})
    BY <2>4, <2>5, <2>6 DEF Calls!Abandon
  <2> QED
    BY <2>7, <1>a
<1>4. ASSUME NEW t \in Threads, SendAnswerLost(t)
      PROVE  Calls!Abandon({t})
  <2>1. \A tx \in pool' : tx.by = Nobody =>
           \/ \E x \in pool : x.by \in {t} \cup {Nobody} /\ x.call = tx.call
           \/ \E u \in {t} : At(u, "counted") /\ call[u].call = tx.call
    BY <1>4 DEF SendAnswerLost, Accepted
  <2> QED
    BY <1>4, <2>1, AbandonRefines DEF SendAnswerLost, Raise, SignerTypeOK
<1>5. ASSUME NEW t \in Threads, SendRefused(t)
      PROVE  Calls!Abandon({t})
  BY <1>5, AbandonRefines DEF SendRefused, Raise, SignerTypeOK
<1>6. ASSUME NEW t \in Threads, ReceiptFails(t)
      PROVE  Calls!Abandon({t})
  <2>1. \A tx \in pool' : tx.by = Nobody =>
           \E x \in pool : x.by \in {t} \cup {Nobody} /\ x.call = tx.call
    BY <1>6 DEF ReceiptFails, Orphaned, SignerTypeOK, Tx
  <2> QED
    BY <1>6, <2>1, AbandonRefines DEF ReceiptFails, Raise, SignerTypeOK
<1>7. CASE Crash
  <2>1. \A tx \in pool' : tx.by = Nobody =>
           \E x \in pool : x.by \in Threads \cup {Nobody} /\ x.call = tx.call
    BY <1>7 DEF Crash, Orphaned, SignerTypeOK, Tx
  <2>2. Calls!Abandon(Threads)
    BY <1>7, <2>1, AbandonRefines DEF Crash
  <2> QED
    BY <2>2, <1>a
<1>8. ASSUME NEW t \in Threads, ReceiptSuccess(t)
      PROVE  Calls!Answer(t)
  <2>1. call[t] \in ActiveCall
    BY <1>8 DEF ReceiptSuccess, IdleCall, SignerTypeOK
  <2>2. Callers[t] = [at |-> "executed", call |-> call[t].call]
    BY <1>8 DEF ReceiptSuccess, Callers, CallAt
  <2>3. Callers'[t] = [at |-> "answered", call |-> call[t].call]
    BY <1>8, <2>1 DEF ReceiptSuccess, Callers, CallAt, SignerTypeOK, ActiveCall
  <2>4. \A u \in Threads \ {t} : Callers'[u] = Callers[u]
    BY <1>8, SameCaller DEF ReceiptSuccess, SignerTypeOK
  <2>5. Callers' = [Callers EXCEPT ![t].at = "answered"]
    BY <2>2, <2>3, <2>4 DEF Callers
  <2> QED
    BY <1>8, <2>2, <2>5, SameEntries
       DEF ReceiptSuccess, ledgerVars, LeftBehind, Calls!Answer
<1>9. ASSUME NEW t \in Threads, Answered(t)
      PROVE  Calls!Return(t)
  <2>1. Callers[t].at = "answered"
    BY <1>9 DEF Answered, Callers, CallAt
  <2>2. Callers'[t] = Calls!Idle
    BY <1>9 DEF Answered, Raise, Callers, CallAt, SignerTypeOK, IdleCall,
                Calls!Idle, Calls!NoCall
  <2>3. \A u \in Threads \ {t} : Callers'[u] = Callers[u]
    BY <1>9, SameCaller DEF Answered, Raise, SignerTypeOK
  <2>4. Callers' = [Callers EXCEPT ![t] = Calls!Idle]
    BY <2>2, <2>3 DEF Callers
  <2> QED
    BY <1>9, <2>1, <2>4, SameEntries
       DEF Answered, ledgerVars, LeftBehind, Calls!Return
<1>10. ASSUME NEW tx \in pool, Drop(tx)
       PROVE  Calls!Abandon({})
  <2>1. \A x \in pool' : x \in pool
    BY <1>10 DEF Drop
  <2> QED
    BY <1>10, <2>1, AbandonRefines DEF Drop
<1>11. CASE RolesChange \/ UNCHANGED signVars
  <2>1. UNCHANGED <<logged, logs, pool, call>>
    BY <1>11 DEF RolesChange, ChangeRoles, signVars
  <2> QED
    BY <2>1, SameCaller, SameEntries DEF Callers, LeftBehind
<1>12. ASSUME NEW t \in Threads,
              \/ \E k \in Call : Estimate(t, k)
              \/ CountNonce(t) \/ SendRaw(t) \/ SendAnswerLost(t) \/ SendRefused(t)
              \/ ReceiptSuccess(t) \/ ReceiptFails(t) \/ Answered(t)
       PROVE  [Calls!Next]_<<EntriesMade, Callers, LeftBehind>>
  <2>1. ASSUME NEW k \in Call, Estimate(t, k)
        PROVE  Calls!Next
    BY <2>1, <1>1 DEF Calls!Next, Call
  <2>2. CASE SendAnswerLost(t) \/ SendRefused(t) \/ ReceiptFails(t)
    <3>1. Calls!Abandon({t})
      BY <2>2, <1>4, <1>5, <1>6
    <3> QED
      BY <3>1, <1>a
  <2>3. CASE ReceiptSuccess(t) \/ Answered(t)
    BY <2>3, <1>8, <1>9 DEF Calls!Next
  <2> QED
    BY <1>12, <1>2, <1>3, <2>1, <2>2, <2>3
<1>13. ASSUME NEW tx \in pool, Mine(tx) \/ Drop(tx)
       PROVE  [Calls!Next]_<<EntriesMade, Callers, LeftBehind>>
  BY <1>13, <1>10, <1>a, MineRefines
<1> QED
  BY <1>7, <1>11, <1>12, <1>13 DEF SignerNext

\* Whatever the threads, the node and the admin do, a chain call of the backend is
\* refused without a trace, or takes effect at most once, and it is reported as
\* done only if it was (workload.py:93-94).
THEOREM SignerImplementsChainCall == SignerSpec => ImplementsChainCall
<1>1. SignerInit => OwnInv
  BY DEF SignerInit, OwnInv, At, IdleCall
<1>2. SignerInit => SlotInv
  BY DEF SignerInit, SlotInv, NoNonceGap, At, IdleCall
<1>3. SignerInit => Calls!Init
  BY DEF SignerInit, Init, Calls!Init, EntriesMade, Callers, CallAt, At, IdleCall,
         LeftBehind, LogCall, Calls!Idle, Calls!NoCall
<1>4. SignerTypeOK /\ SlotInv /\ OwnInv /\ [SignerNext]_signVars
        => [Calls!Next]_Calls!vars
  BY SignerStepRefines DEF Calls!vars
<1> QED
  BY <1>1, <1>2, <1>3, <1>4, SlotStep, OwnStep, SignerTypeCorrect, PTL
     DEF SignerSpec, ImplementsChainCall, Calls!Spec
=============================================================================
