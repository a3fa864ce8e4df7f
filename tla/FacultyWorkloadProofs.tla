------------------------ MODULE FacultyWorkloadProofs ------------------------
(***************************************************************************)
(* FacultyWorkload for any number of classes, professors, request threads  *)
(* and sessions, on SQLite or PostgreSQL, with every fault: type           *)
(* correctness; the two invariants that tie session_logs to the chain,     *)
(* from the inductive invariant TicketInv; and what it says of sessions,   *)
(* conductors and outcomes.                                                *)
(***************************************************************************)
EXTENDS FacultyWorkload, SequenceTheorems, TLAPS

-----------------------------------------------------------------------------
(* Sequences and rows *)

\* Rewriting every element of a table in place gives a table.
LEMMA SeqRewrite ==
  ASSUME NEW S, NEW q \in Seq(S), NEW g \in [DOMAIN q -> S]
  PROVE  g \in Seq(S) /\ DOMAIN g = DOMAIN q
<1>1. DOMAIN q = 1..Len(q) /\ Len(q) \in Nat
  BY LenProperties
<1> QED
  BY <1>1, SeqDef

LEMMA AppendRow ==
  ASSUME NEW S, NEW q \in Seq(S), NEW e \in S
  PROVE  /\ Append(q, e) \in Seq(S)
         /\ Len(Append(q, e)) = Len(q) + 1
         /\ \A i \in DOMAIN q : Append(q, e)[i] = q[i]
         /\ Append(q, e)[Len(q) + 1] = e
         /\ DOMAIN Append(q, e) = 1..(Len(q) + 1)
  OBVIOUS

LEMMA NoElements ==
  ASSUME NEW S, NEW q \in Seq(S), \A i \in DOMAIN q : FALSE
  PROVE  q = <<>>
<1>1. Len(q) \in Nat /\ DOMAIN q = 1..Len(q)
  BY LenProperties
<1>2. ASSUME Len(q) # 0
      PROVE  FALSE
  <2>1. 1 \in 1..Len(q)
    BY <1>1, <1>2
  <2> QED
    BY <1>1, <2>1
<1> QED
  BY <1>2, EmptySeq

LEMMA SignerMayLog == Ledger!Access!HasRole(Ledger!BackendRole, Signer)
  BY DEF Ledger!Access!HasRole, Ledger!BackendRole, ChainRoles

-----------------------------------------------------------------------------
(* What each step does to the thread's own record *)

LEMMA RequestKinds ==
  ASSUME TypeOK, NEW r \in Requests
  PROVE  /\ req[r].pc = "idle" => req[r] = IdleRequest
         /\ Opening(r) => req[r] \in OpenRequest
         /\ req[r].pc \in {"anchor", "anchored"} => req[r] \in AnchorRequest
         /\ req[r].pc \in {"idle", "checked", "attRead", "wlRead", "anchor", "anchored"}
<1>1. req[r] \in {IdleRequest} \cup OpenRequest \cup AnchorRequest
  BY DEF TypeOK
<1>2. CASE req[r] = IdleRequest
  BY <1>2 DEF IdleRequest, Opening
<1>3. CASE req[r] \in OpenRequest
  BY <1>3 DEF OpenRequest, Opening
<1>4. CASE req[r] \in AnchorRequest
  BY <1>4 DEF AnchorRequest, Opening
<1> QED
  BY <1>1, <1>2, <1>3, <1>4

\* A mined logWorkload leaves the chain well typed.
LEMMA MineTyped ==
  ASSUME TypeOK, NEW c \in Classes, NEW status \in Statuses,
         NEW p \in Professors, Mine(c, p, status)
  PROVE  /\ ~logged[c]
         /\ logged' = [logged EXCEPT ![c] = TRUE]
         /\ logs' = [logs EXCEPT ![c] = [professor |-> p, status |-> status]]
         /\ logged' \in [Classes -> BOOLEAN]
         /\ logs' \in [Classes -> Ledger!Entry \cup {Ledger!ZeroEntry}]
  BY DEF Mine, Ledger!LogWorkload, Ledger!MayLog, Ledger!Write, TypeOK, Ledger!Entry,
         Ledger!WorkloadStatus, Statuses, Conducted, ZeroStudents, Unconducted

-----------------------------------------------------------------------------
(* Type correctness *)

LEMMA TypeInit == Init => TypeOK
  BY DEF Init, TypeOK, IdleJob, Session, Token

LEMMA TypeClock == TypeOK /\ Clock => TypeOK'
<1> SUFFICES ASSUME TypeOK, Clock
             PROVE  TypeOK'
  OBVIOUS
<1>1. ASSUME NEW c \in Classes, ClassOpens(c) \/ ClassOverdue(c)
      PROVE  TypeOK'
  BY <1>1 DEF ClassOpens, ClassOverdue, TypeOK, chainVars
<1>2. ASSUME NEW t \in DOMAIN tokens, TokenExpires(t)
      PROVE  TypeOK'
  <2>1. tokens' \in Seq(Token)
    <3>0. tokens[t] \in Token
      BY LenProperties DEF TypeOK
    <3>1. [tokens[t] EXCEPT !.expired = TRUE] \in Token
      BY <3>0 DEF Token
    <3>2. tokens' = [tokens EXCEPT ![t] = [tokens[t] EXCEPT !.expired = TRUE]]
      BY <1>2 DEF TokenExpires
    <3> QED
      BY <3>1, <3>2, ExceptSeq, LenProperties DEF TypeOK
  <2> QED
    BY <1>2, <2>1 DEF TokenExpires, TypeOK, chainVars
<1> QED
  BY <1>1, <1>2 DEF Clock

LEMMA TypeHandlers == TypeOK /\ Handlers => TypeOK'
<1> SUFFICES ASSUME TypeOK, Handlers
             PROVE  TypeOK'
  OBVIOUS
<1>1. ASSUME NEW r \in Requests, NEW c \in Classes, NEW p \in Professors,
             NEW t \in Nat, BeginOpening(r, c, p, t)
      PROVE  TypeOK'
  <2>1. [pc |-> "checked", class |-> c, conductor |-> p, token |-> t,
         prevAtt |-> {}, prevWl |-> {}] \in OpenRequest
    BY DEF OpenRequest
  <2> QED
    BY <1>1, <2>1 DEF BeginOpening, TypeOK, chainVars
<1>2. ASSUME NEW r \in Requests, NEW c \in Classes, StartChecks(r, c)
      PROVE  TypeOK'
  BY <1>1, <1>2, PrimaryAssumption DEF StartChecks, NoToken
<1>3. ASSUME NEW r \in Requests, NEW t \in DOMAIN tokens, RedeemChecks(r, t)
      PROVE  TypeOK'
  <2>1. tokens[t] \in Token /\ t \in Nat
    BY LenProperties DEF TypeOK
  <2> QED
    BY <1>1, <1>3, <2>1 DEF RedeemChecks, Token
<1>4. ASSUME NEW r \in Requests, NEW s \in DOMAIN sessions,
             ScanChecks(r, s) \/ ZeroChecks(r, s)
      PROVE  TypeOK'
  <2>1. sessions[s] \in Session
    BY LenProperties DEF TypeOK
  <2>2. \A status \in {Conducted, ZeroStudents} :
           [pc |-> "anchor", class |-> sessions[s].class,
            conductor |-> sessions[s].conductor, status |-> status] \in AnchorRequest
    BY <2>1 DEF AnchorRequest, Session
  <2>3. PICK status \in {Conducted, ZeroStudents} : BeginAnchor(r, s, status)
    BY <1>4 DEF ScanChecks, ZeroChecks
  <2>4. /\ req' = [req EXCEPT ![r] = [pc |-> "anchor", class |-> sessions[s].class,
                                    conductor |-> sessions[s].conductor, status |-> status]]
        /\ UNCHANGED <<chainVars, phase, sessions, tokens, sessionLogs, job>>
    BY <2>3 DEF BeginAnchor
  <2>5. req' \in [Requests -> {IdleRequest} \cup OpenRequest \cup AnchorRequest]
    BY <2>2, <2>4 DEF TypeOK
  <2> QED
    BY <2>4, <2>5 DEF TypeOK, chainVars
<1>5. ASSUME NEW c \in Classes, NEW p \in Professors, IssueSubstitute(c, p)
      PROVE  TypeOK'
  <2>1. [class |-> c, substitute |-> p, redeemed |-> FALSE, expired |-> FALSE] \in Token
    BY DEF Token
  <2> QED
    BY <1>5, <2>1, AppendRow DEF IssueSubstitute, TypeOK, chainVars
<1>6. ASSUME NEW s \in DOMAIN sessions, EndSession(s)
      PROVE  TypeOK'
  <2>1. sessions' = [sessions EXCEPT
                       ![s] = [sessions[s] EXCEPT !.attActive = FALSE, !.ended = TRUE]]
    BY <1>6 DEF EndSession
  <2>0. sessions[s] \in Session
    BY LenProperties DEF TypeOK
  <2>2. [sessions[s] EXCEPT !.attActive = FALSE, !.ended = TRUE] \in Session
    BY <2>0 DEF Session
  <2>3. sessions' \in Seq(Session)
    BY <2>1, <2>2, ExceptSeq, LenProperties DEF TypeOK
  <2> QED
    BY <1>6, <2>3 DEF EndSession, TypeOK, chainVars
<1> QED
  BY <1>2, <1>3, <1>4, <1>5, <1>6 DEF Handlers

LEMMA TypeThread ==
  ASSUME TypeOK, NEW r \in Requests, Thread(r)
  PROVE  TypeOK'
<1>1. CASE ReadAttendanceSessions(r)
  <2> DEFINE prev == {s \in DOMAIN sessions : /\ sessions[s].class = req[r].class
                                              /\ sessions[s].attActive}
  <2>1. req[r] \in OpenRequest
    BY <1>1, RequestKinds DEF ReadAttendanceSessions, Opening
  <2>2. prev \in SUBSET Nat
    BY LenProperties DEF TypeOK
  <2>3. req' = [req EXCEPT ![r] = [req[r] EXCEPT !.pc = "attRead", !.prevAtt = prev]]
    BY <1>1 DEF ReadAttendanceSessions
  <2>4. [req[r] EXCEPT !.pc = "attRead", !.prevAtt = prev] \in OpenRequest
    BY <2>1, <2>2 DEF OpenRequest
  <2> HIDE DEF prev
  <2>5. req' \in [Requests -> {IdleRequest} \cup OpenRequest \cup AnchorRequest]
    BY <2>3, <2>4 DEF TypeOK
  <2> QED
    BY <1>1, <2>5 DEF ReadAttendanceSessions, TypeOK, chainVars
<1>2. CASE ReadWorkloadSessions(r)
  <2> DEFINE prev == {s \in DOMAIN sessions : /\ sessions[s].class = req[r].class
                                              /\ sessions[s].wlActive}
  <2>1. req[r] \in OpenRequest
    BY <1>2, RequestKinds DEF ReadWorkloadSessions, Opening
  <2>2. prev \in SUBSET Nat
    BY LenProperties DEF TypeOK
  <2>3. req' = [req EXCEPT ![r] = [req[r] EXCEPT !.pc = "wlRead", !.prevWl = prev]]
    BY <1>2 DEF ReadWorkloadSessions
  <2>4. [req[r] EXCEPT !.pc = "wlRead", !.prevWl = prev] \in OpenRequest
    BY <2>1, <2>2 DEF OpenRequest
  <2> HIDE DEF prev
  <2>5. req' \in [Requests -> {IdleRequest} \cup OpenRequest \cup AnchorRequest]
    BY <2>3, <2>4 DEF TypeOK
  <2> QED
    BY <1>2, <2>5 DEF ReadWorkloadSessions, TypeOK, chainVars
<1>3. CASE OpenCommit(r)
  <2>1. req[r] \in OpenRequest
    BY <1>3, RequestKinds DEF OpenCommit, Opening
  <2>2. NewSession(r) \in Session
    BY <2>1 DEF NewSession, OpenRequest, Session
  <2>3. [s \in DOMAIN sessions |-> Deactivated(s, r)] \in [DOMAIN sessions -> Session]
    <3>1. ASSUME NEW s \in DOMAIN sessions
          PROVE  Deactivated(s, r) \in Session
      <4>1. sessions[s] \in Session
        BY LenProperties DEF TypeOK
      <4> QED
        BY <4>1 DEF Deactivated, Session
    <3> QED
      BY <3>1
  <2>4. sessions' \in Seq(Session)
    BY <1>3, <2>2, <2>3, SeqRewrite, AppendRow DEF OpenCommit, Opened, TypeOK
  <2>5. tokens' \in [DOMAIN tokens -> Token]
    <3>1. \A t \in DOMAIN tokens : tokens[t] \in Token
      BY LenProperties DEF TypeOK
    <3> QED
      BY <1>3, <3>1 DEF OpenCommit, Token
  <2>6. tokens' \in Seq(Token)
    BY <2>5, SeqRewrite DEF TypeOK
  <2> QED
    BY <1>3, <2>4, <2>6 DEF OpenCommit, Finish, TypeOK, chainVars
<1>4. CASE OpenFails(r) \/ AnchorRefused(r) \/ AnchorCommitFails(r)
  BY <1>4 DEF OpenFails, AnchorRefused, AnchorCommitFails, Finish, TypeOK, chainVars
<1>5. CASE AnchorMined(r) \/ AnchorMinedThenRaises(r)
  <2>1. req[r] \in AnchorRequest
    BY <1>5, RequestKinds DEF AnchorMined, AnchorMinedThenRaises
  <2>2. Mine(req[r].class, Primary[req[r].class], req[r].status)
    BY <1>5 DEF AnchorMined, AnchorMinedThenRaises
  <2>3. /\ logged' \in [Classes -> BOOLEAN]
        /\ logs' \in [Classes -> Ledger!Entry \cup {Ledger!ZeroEntry}]
    BY <2>1, <2>2, MineTyped, PrimaryAssumption DEF AnchorRequest, Statuses
  <2>4. [req[r] EXCEPT !.pc = "anchored"] \in AnchorRequest
    BY <2>1 DEF AnchorRequest
  <2>5. req' \in [Requests -> {IdleRequest} \cup OpenRequest \cup AnchorRequest]
    <3>1. \/ req' = [req EXCEPT ![r] = [req[r] EXCEPT !.pc = "anchored"]]
          \/ req' = [req EXCEPT ![r] = IdleRequest]
      BY <1>5 DEF AnchorMined, AnchorMinedThenRaises, Finish
    <3> QED
      BY <2>4, <3>1 DEF TypeOK
  <2> QED
    BY <1>5, <2>3, <2>5 DEF AnchorMined, AnchorMinedThenRaises, TypeOK
<1>6. CASE AnchorUnconfirmed(r)
  <2>1. req[r] \in AnchorRequest
    BY <1>6, RequestKinds DEF AnchorUnconfirmed
  <2>2. [class |-> req[r].class, professor |-> Primary[req[r].class],
         status |-> req[r].status] \in Tx
    BY <2>1, PrimaryAssumption DEF AnchorRequest, Tx, Statuses
  <2> QED
    BY <1>6, <2>2 DEF AnchorUnconfirmed, Finish, TypeOK
<1>7. CASE AnchorCommit(r)
  <2>1. req[r] \in AnchorRequest
    BY <1>7, RequestKinds DEF AnchorCommit
  <2>2. AnchoredRow(r) \in Row
    BY <2>1, PrimaryAssumption DEF AnchoredRow, AnchorRequest, Row, Statuses
  <2>3. Append(sessionLogs[req[r].class], AnchoredRow(r)) \in Seq(Row)
    BY <2>1, <2>2, AppendRow DEF TypeOK, AnchorRequest
  <2> QED
    BY <1>7, <2>3 DEF AnchorCommit, Finish, TypeOK, chainVars
<1> QED
  BY <1>1, <1>2, <1>3, <1>4, <1>5, <1>6, <1>7 DEF Thread

LEMMA FlaggedRowTyped ==
  ASSUME NEW c \in Classes
  PROVE  FlaggedRow(c) \in Row
  BY PrimaryAssumption DEF FlaggedRow, Row, Statuses

LEMMA TypeJob == TypeOK /\ Job => TypeOK'
<1> SUFFICES ASSUME TypeOK, Job
             PROVE  TypeOK'
  OBVIOUS
<1>1. CASE JobTick
  BY <1>1 DEF JobTick, Overdue, TypeOK, chainVars
<1>2. ASSUME NEW c \in Classes, FlagClass(c)
      PROVE  TypeOK'
  <2>1. CASE JobFlagMined(c) \/ JobFlagRaises(c)
    <3>1. Mine(c, Primary[c], Unconducted)
      BY <2>1 DEF JobFlagMined, JobFlagRaises
    <3>2. /\ logged' \in [Classes -> BOOLEAN]
          /\ logs' \in [Classes -> Ledger!Entry \cup {Ledger!ZeroEntry}]
      BY <3>1, MineTyped, PrimaryAssumption DEF Statuses
    <3>3. job' \in [running : BOOLEAN, todo : SUBSET Classes, added : SUBSET Classes]
      <4>1. job \in [running : BOOLEAN, todo : SUBSET Classes, added : SUBSET Classes]
        BY DEF TypeOK
      <4>2. CASE JobFlagMined(c)
        BY <4>1, <4>2 DEF JobFlagMined
      <4>3. CASE JobFlagRaises(c)
        BY <4>3 DEF JobFlagRaises, IdleJob
      <4> QED
        BY <2>1, <4>2, <4>3
    <3>4. UNCHANGED <<pending, phase, sessions, tokens, sessionLogs, req>>
      BY <2>1 DEF JobFlagMined, JobFlagRaises
    <3> QED
      BY <3>2, <3>3, <3>4 DEF TypeOK
  <2>2. CASE JobFlagRefused(c)
    BY <2>2 DEF JobFlagRefused, TypeOK, chainVars
  <2>3. CASE JobFlagUnconfirmed(c)
    <3>1. [class |-> c, professor |-> Primary[c], status |-> Unconducted] \in Tx
      BY PrimaryAssumption DEF Tx, Statuses
    <3> QED
      BY <2>3, <3>1 DEF JobFlagUnconfirmed, TypeOK
  <2> QED
    BY <1>2, <2>1, <2>2, <2>3 DEF FlagClass
<1>3. CASE JobCommit
  <2>1. \A c \in Classes : Append(sessionLogs[c], FlaggedRow(c)) \in Seq(Row)
    BY FlaggedRowTyped, AppendRow DEF TypeOK
  <2> QED
    BY <1>3, <2>1 DEF JobCommit, IdleJob, TypeOK, chainVars
<1>4. CASE JobCommitFails
  BY <1>4 DEF JobCommitFails, IdleJob, TypeOK, chainVars
<1> QED
  BY <1>1, <1>2, <1>3, <1>4 DEF Job

LEMMA TypePending ==
  ASSUME TypeOK, NEW tx \in pending, MinePending(tx)
  PROVE  TypeOK'
<1>1. tx \in Tx
  BY DEF TypeOK
<1>2. CASE logged[tx.class]
  BY <1>2 DEF MinePending, TypeOK
<1>3. CASE ~logged[tx.class]
  <2>1. Mine(tx.class, tx.professor, tx.status)
    BY <1>3 DEF MinePending
  <2>2. /\ logged' \in [Classes -> BOOLEAN]
        /\ logs' \in [Classes -> Ledger!Entry \cup {Ledger!ZeroEntry}]
    BY <1>1, <2>1, MineTyped DEF Tx
  <2> QED
    BY <2>2 DEF MinePending, TypeOK
<1> QED
  BY <1>2, <1>3

LEMMA TypeNext == TypeOK /\ [Next]_vars => TypeOK'
<1> SUFFICES ASSUME TypeOK, [Next]_vars
             PROVE  TypeOK'
  OBVIOUS
<1>1. CASE Crash
  BY <1>1 DEF Crash, IdleJob, TypeOK, chainVars
<1>2. CASE UNCHANGED vars
  BY <1>2 DEF vars, TypeOK
<1> QED
  BY <1>1, <1>2, TypeClock, TypeHandlers, TypeThread, TypeJob, TypePending DEF Next

\* In every reachable state of the backend, whatever the number of classes and
\* threads, every table row, request record and chain entry is well formed.
THEOREM TypeCorrect == Spec => []TypeOK
<1> QED
  BY TypeInit, TypeNext, PTL DEF Spec

-----------------------------------------------------------------------------
(* The ticket invariant *)

LEMMA TicketInit == Init => TicketInv
  BY DEF Init, TicketInv, LogMatchesLedger, OneLogPerClass, IdleRequest, IdleJob

\* A step that writes neither the ledger nor session_logs and gives no thread
\* and no class of the job a new ticket.
LEMMA TicketQuiet ==
  ASSUME TypeOK, TicketInv,
         UNCHANGED <<logged, logs, sessionLogs>>,
         job'.added \subseteq job.added,
         \A r \in Requests : req'[r].pc = "anchored" => req'[r] = req[r]
  PROVE  TicketInv'
<1>1. LogMatchesLedger' /\ OneLogPerClass'
  BY DEF TicketInv, LogMatchesLedger, OneLogPerClass
<1>2. ASSUME NEW r \in Requests, req'[r].pc = "anchored"
      PROVE  /\ logged'[req'[r].class]
             /\ logs'[req'[r].class] = [professor |-> Primary[req'[r].class],
                                       status |-> req'[r].status]
             /\ sessionLogs'[req'[r].class] = <<>>
             /\ req'[r].class \notin job'.added
             /\ \A q \in Requests \ {r} :
                   req'[q].pc = "anchored" => req'[q].class # req'[r].class
  <2>1. req'[r] = req[r] /\ req[r].pc = "anchored"
    BY <1>2
  <2>2. \A q \in Requests \ {r} :
           req'[q].pc = "anchored" => req'[q] = req[q] /\ req[q].pc = "anchored"
    OBVIOUS
  <2> QED
    BY <2>1, <2>2 DEF TicketInv
<1>3. \A c \in job'.added : /\ logged'[c]
                            /\ logs'[c] = [professor |-> Primary[c], status |-> Unconducted]
                            /\ sessionLogs'[c] = <<>>
  BY DEF TicketInv
<1> QED
  BY <1>1, <1>2, <1>3 DEF TicketInv

\* Nobody holds a ticket for, and no row exists of, a class without an entry.
LEMMA NoTicketBeforeEntry ==
  ASSUME TypeOK, TicketInv, NEW c \in Classes, ~logged[c]
  PROVE  /\ sessionLogs[c] = <<>>
         /\ c \notin job.added
         /\ \A r \in Requests : req[r].pc = "anchored" => req[r].class # c
<1>1. sessionLogs[c] \in Seq(Row)
  BY DEF TypeOK
<1>2. \A i \in DOMAIN sessionLogs[c] : FALSE
  BY DEF TicketInv, LogMatchesLedger
<1>3. sessionLogs[c] = <<>>
  BY <1>1, <1>2, NoElements
<1> QED
  BY <1>3 DEF TicketInv

\* A mined transaction whose sender keeps no ticket (it gave up, or raised)
\* writes the entry of a class nobody holds a ticket for.
LEMMA TicketOrphan ==
  ASSUME TypeOK, TicketInv, NEW c \in Classes, NEW p \in Professors,
         NEW status \in Statuses, Mine(c, p, status),
         UNCHANGED sessionLogs,
         job'.added \subseteq job.added,
         \A r \in Requests : req'[r].pc = "anchored" => req'[r] = req[r]
  PROVE  TicketInv'
<1>1. /\ ~logged[c]
      /\ logged' = [logged EXCEPT ![c] = TRUE]
      /\ logs' = [logs EXCEPT ![c] = [professor |-> p, status |-> status]]
  BY MineTyped
<1>2. /\ sessionLogs[c] = <<>>
      /\ c \notin job.added
      /\ \A r \in Requests : req[r].pc = "anchored" => req[r].class # c
  BY <1>1, NoTicketBeforeEntry
<1>3. \A d \in Classes \ {c} : logged'[d] = logged[d] /\ logs'[d] = logs[d]
  BY <1>1 DEF TypeOK
<1>4. LogMatchesLedger' /\ OneLogPerClass'
  <2>1. \A i \in DOMAIN sessionLogs[c] : FALSE
    BY <1>2
  <2> QED
    BY <1>3, <2>1 DEF TicketInv, LogMatchesLedger, OneLogPerClass
<1>5. ASSUME NEW r \in Requests, req'[r].pc = "anchored"
      PROVE  /\ logged'[req'[r].class]
             /\ logs'[req'[r].class] = [professor |-> Primary[req'[r].class],
                                       status |-> req'[r].status]
             /\ sessionLogs'[req'[r].class] = <<>>
             /\ req'[r].class \notin job'.added
             /\ \A q \in Requests \ {r} :
                   req'[q].pc = "anchored" => req'[q].class # req'[r].class
  <2>1. req'[r] = req[r] /\ req[r].pc = "anchored"
    BY <1>5
  <2>2. req[r].class \in Classes \ {c}
    BY <2>1, <1>2, RequestKinds DEF AnchorRequest
  <2>3. \A q \in Requests \ {r} :
           req'[q].pc = "anchored" => req'[q] = req[q] /\ req[q].pc = "anchored"
    OBVIOUS
  <2> QED
    BY <1>3, <2>1, <2>2, <2>3 DEF TicketInv
<1>6. \A d \in job'.added : /\ logged'[d]
                            /\ logs'[d] = [professor |-> Primary[d], status |-> Unconducted]
                            /\ sessionLogs'[d] = <<>>
  <2>1. \A d \in job'.added : d \in job.added /\ d \in Classes \ {c}
    BY <1>2 DEF TypeOK
  <2> QED
    BY <1>3, <2>1 DEF TicketInv
<1> QED
  BY <1>4, <1>5, <1>6 DEF TicketInv

\* The thread whose transaction is mined now holds the class's only ticket.
LEMMA TicketAnchorMined ==
  ASSUME TypeOK, TicketInv, NEW r \in Requests, AnchorMined(r)
  PROVE  TicketInv'
<1> DEFINE c == req[r].class
<1>0. req[r] \in AnchorRequest /\ c \in Classes /\ req[r].status \in Statuses
  BY RequestKinds DEF AnchorMined, AnchorRequest, Statuses
<1>1. /\ ~logged[c]
      /\ logged' = [logged EXCEPT ![c] = TRUE]
      /\ logs' = [logs EXCEPT ![c] = [professor |-> Primary[c], status |-> req[r].status]]
  BY <1>0, MineTyped, PrimaryAssumption DEF AnchorMined
<1>2. /\ sessionLogs[c] = <<>>
      /\ c \notin job.added
      /\ \A q \in Requests : req[q].pc = "anchored" => req[q].class # c
  BY <1>0, <1>1, NoTicketBeforeEntry
<1>3. UNCHANGED <<sessionLogs, job>>
  BY DEF AnchorMined
<1>4. /\ req'[r] = [req[r] EXCEPT !.pc = "anchored"]
      /\ req'[r].class = c /\ req'[r].status = req[r].status
      /\ \A q \in Requests \ {r} : req'[q] = req[q]
  BY <1>0 DEF AnchorMined, TypeOK, AnchorRequest
<1>5. /\ logged'[c]
      /\ logs'[c] = [professor |-> Primary[c], status |-> req[r].status]
      /\ \A d \in Classes \ {c} : logged'[d] = logged[d] /\ logs'[d] = logs[d]
  BY <1>0, <1>1 DEF TypeOK
<1> HIDE DEF c
<1>6. LogMatchesLedger' /\ OneLogPerClass'
  <2>1. \A i \in DOMAIN sessionLogs[c] : FALSE
    BY <1>2
  <2> QED
    BY <1>3, <1>5, <2>1 DEF TicketInv, LogMatchesLedger, OneLogPerClass
<1>7. ASSUME NEW q \in Requests, req'[q].pc = "anchored"
      PROVE  /\ logged'[req'[q].class]
             /\ logs'[req'[q].class] = [professor |-> Primary[req'[q].class],
                                       status |-> req'[q].status]
             /\ sessionLogs'[req'[q].class] = <<>>
             /\ req'[q].class \notin job'.added
             /\ \A z \in Requests \ {q} :
                   req'[z].pc = "anchored" => req'[z].class # req'[q].class
  <2>1. CASE q = r
    BY <2>1, <1>2, <1>3, <1>4, <1>5
  <2>2. CASE q # r
    <3>1. req'[q] = req[q] /\ req[q].pc = "anchored"
      BY <1>4, <1>7, <2>2
    <3>2. req[q].class \in Classes \ {c}
      BY <3>1, <1>2, RequestKinds DEF AnchorRequest
    <3>3. \A z \in Requests \ {q} :
             req'[z].pc = "anchored" => req'[z].class # req[q].class
      <4>1. ASSUME NEW z \in Requests \ {q, r}, req'[z].pc = "anchored"
            PROVE  req'[z].class # req[q].class
        <5>1. req'[z] = req[z] /\ req[z].pc = "anchored"
          BY <1>4, <4>1
        <5> QED
          BY <3>1, <5>1 DEF TicketInv
      <4>2. req'[r].class # req[q].class
        BY <1>4, <3>2
      <4> QED
        BY <4>1, <4>2
    <3> QED
      BY <1>3, <1>5, <3>1, <3>2, <3>3 DEF TicketInv
  <2> QED
    BY <2>1, <2>2
<1>8. \A d \in job'.added :
         /\ logged'[d]
         /\ logs'[d] = [professor |-> Primary[d], status |-> Unconducted]
         /\ sessionLogs'[d] = <<>>
  <2>1. \A d \in job.added : d \in Classes \ {c}
    BY <1>2 DEF TypeOK
  <2> QED
    BY <1>3, <1>5, <2>1 DEF TicketInv
<1> QED
  BY <1>6, <1>7, <1>8 DEF TicketInv

\* So does the job for the class it has just anchored.
LEMMA TicketJobMined ==
  ASSUME TypeOK, TicketInv, NEW c \in Classes, JobFlagMined(c)
  PROVE  TicketInv'
<1>1. /\ ~logged[c]
      /\ logged' = [logged EXCEPT ![c] = TRUE]
      /\ logs' = [logs EXCEPT ![c] = [professor |-> Primary[c], status |-> Unconducted]]
  BY MineTyped, PrimaryAssumption DEF JobFlagMined, Statuses
<1>2. /\ sessionLogs[c] = <<>>
      /\ c \notin job.added
      /\ \A q \in Requests : req[q].pc = "anchored" => req[q].class # c
  BY <1>1, NoTicketBeforeEntry
<1>3. UNCHANGED <<sessionLogs, req>> /\ job'.added = job.added \cup {c}
  BY DEF JobFlagMined, TypeOK
<1>4. /\ logged'[c]
      /\ logs'[c] = [professor |-> Primary[c], status |-> Unconducted]
      /\ \A d \in Classes \ {c} : logged'[d] = logged[d] /\ logs'[d] = logs[d]
  BY <1>1 DEF TypeOK
<1>5. LogMatchesLedger' /\ OneLogPerClass'
  <2>1. \A i \in DOMAIN sessionLogs[c] : FALSE
    BY <1>2
  <2> QED
    BY <1>3, <1>4, <2>1 DEF TicketInv, LogMatchesLedger, OneLogPerClass
<1>6. ASSUME NEW q \in Requests, req'[q].pc = "anchored"
      PROVE  /\ logged'[req'[q].class]
             /\ logs'[req'[q].class] = [professor |-> Primary[req'[q].class],
                                       status |-> req'[q].status]
             /\ sessionLogs'[req'[q].class] = <<>>
             /\ req'[q].class \notin job'.added
             /\ \A z \in Requests \ {q} :
                   req'[z].pc = "anchored" => req'[z].class # req'[q].class
  <2>1. req[q].class \in Classes \ {c}
    BY <1>2, <1>3, <1>6, RequestKinds DEF AnchorRequest
  <2> QED
    BY <1>3, <1>4, <1>6, <2>1 DEF TicketInv
<1>7. \A d \in job'.added :
         /\ logged'[d]
         /\ logs'[d] = [professor |-> Primary[d], status |-> Unconducted]
         /\ sessionLogs'[d] = <<>>
  <2>1. \A d \in job.added : d \in Classes \ {c}
    BY <1>2 DEF TypeOK
  <2> QED
    BY <1>2, <1>3, <1>4, <2>1 DEF TicketInv
<1> QED
  BY <1>5, <1>6, <1>7 DEF TicketInv

\* A row joins a table that has no row of its class.
LEMMA FirstRow ==
  ASSUME NEW row \in Row
  PROVE  /\ Append(<<>>, row) \in Seq(Row)
         /\ Len(Append(<<>>, row)) = 1
         /\ \A i \in DOMAIN Append(<<>>, row) : Append(<<>>, row)[i] = row
<1>1. <<>> \in Seq(Row) /\ Len(<<>>) = 0
  BY EmptySeq
<1>2. Append(<<>>, row) \in Seq(Row) /\ Len(Append(<<>>, row)) = 1
      /\ Append(<<>>, row)[1] = row /\ DOMAIN Append(<<>>, row) = 1..1
  BY <1>1, AppendRow
<1> QED
  BY <1>2

\* The thread spends its ticket: the class's first and only row.
LEMMA TicketAnchorCommit ==
  ASSUME TypeOK, TicketInv, NEW r \in Requests, AnchorCommit(r)
  PROVE  TicketInv'
<1> DEFINE c == req[r].class
           row == AnchoredRow(r)
<1>0. /\ c \in Classes
      /\ row \in Row
      /\ row.professor = Primary[c] /\ row.status = req[r].status
  <2>1. req[r] \in AnchorRequest
    BY RequestKinds DEF AnchorCommit
  <2> QED
    BY <2>1, PrimaryAssumption DEF AnchoredRow, AnchorRequest, Row, Statuses
<1>1. /\ logged[c]
      /\ logs[c] = [professor |-> Primary[c], status |-> req[r].status]
      /\ sessionLogs[c] = <<>>
      /\ c \notin job.added
      /\ \A q \in Requests \ {r} : req[q].pc = "anchored" => req[q].class # c
  BY DEF AnchorCommit, TicketInv
<1>2. /\ sessionLogs'[c] = Append(<<>>, row)
      /\ \A d \in Classes \ {c} : sessionLogs'[d] = sessionLogs[d]
      /\ UNCHANGED <<logged, logs, job>>
  BY <1>0, <1>1 DEF AnchorCommit, TypeOK, chainVars
<1>3. req'[r] = IdleRequest /\ \A q \in Requests \ {r} : req'[q] = req[q]
  BY DEF AnchorCommit, Finish, TypeOK
<1> HIDE DEF c, row
<1>4. LogMatchesLedger' /\ OneLogPerClass'
  <2>1. /\ Len(sessionLogs'[c]) = 1
        /\ \A i \in DOMAIN sessionLogs'[c] : sessionLogs'[c][i] = row
    BY <1>0, <1>2, FirstRow
  <2>2. ASSUME NEW d \in Classes, NEW i \in DOMAIN sessionLogs'[d]
        PROVE  /\ logged'[d]
               /\ logs'[d] = [professor |-> sessionLogs'[d][i].professor,
                              status |-> sessionLogs'[d][i].status]
    <3>1. CASE d = c
      <4>1. sessionLogs'[d][i] = row
        BY <3>1, <2>1, <2>2
      <4> QED
        BY <3>1, <4>1, <1>0, <1>1, <1>2
    <3>2. CASE d # c
      <4>1. sessionLogs'[d] = sessionLogs[d]
        BY <3>2, <1>2
      <4> QED
        BY <4>1, <1>2, <2>2 DEF TicketInv, LogMatchesLedger
    <3> QED
      BY <3>1, <3>2
  <2>3. ASSUME NEW d \in Classes
        PROVE  Len(sessionLogs'[d]) <= 1
    <3>1. CASE d = c
      <4>1. Len(sessionLogs'[d]) = 1
        BY <3>1, <2>1
      <4> QED
        BY <4>1
    <3>2. CASE d # c
      <4>1. sessionLogs'[d] = sessionLogs[d]
        BY <3>2, <1>2
      <4> QED
        BY <4>1 DEF TicketInv, OneLogPerClass
    <3> QED
      BY <3>1, <3>2
  <2> QED
    BY <2>2, <2>3 DEF LogMatchesLedger, OneLogPerClass
<1>5. ASSUME NEW q \in Requests, req'[q].pc = "anchored"
      PROVE  /\ logged'[req'[q].class]
             /\ logs'[req'[q].class] = [professor |-> Primary[req'[q].class],
                                       status |-> req'[q].status]
             /\ sessionLogs'[req'[q].class] = <<>>
             /\ req'[q].class \notin job'.added
             /\ \A z \in Requests \ {q} :
                   req'[z].pc = "anchored" => req'[z].class # req'[q].class
  <2>1. q # r
    BY <1>3, <1>5 DEF IdleRequest
  <2>2. req'[q] = req[q] /\ req[q].pc = "anchored"
    BY <1>3, <1>5, <2>1
  <2>3. req[q].class \in Classes \ {c}
    BY <1>1, <2>1, <2>2, RequestKinds DEF AnchorRequest
  <2>4. \A z \in Requests \ {q} :
           req'[z].pc = "anchored" => req'[z] = req[z] /\ req[z].pc = "anchored"
    BY <1>3 DEF IdleRequest
  <2> QED
    BY <1>2, <2>2, <2>3, <2>4 DEF TicketInv
<1>6. \A d \in job'.added :
         /\ logged'[d]
         /\ logs'[d] = [professor |-> Primary[d], status |-> Unconducted]
         /\ sessionLogs'[d] = <<>>
  <2>1. \A d \in job.added : d \in Classes \ {c}
    BY <1>1 DEF TypeOK
  <2> QED
    BY <1>2, <2>1 DEF TicketInv
<1> QED
  BY <1>4, <1>5, <1>6 DEF TicketInv

\* The job spends all its tickets in one commit.
LEMMA TicketJobCommit ==
  ASSUME TypeOK, TicketInv, JobCommit
  PROVE  TicketInv'
<1>1. UNCHANGED <<logged, logs, req>> /\ job'.added = {}
  BY DEF JobCommit, chainVars, IdleJob
<1>2. \A c \in job.added : /\ c \in Classes
                           /\ logged[c] /\ sessionLogs[c] = <<>>
                           /\ logs[c] = [professor |-> Primary[c], status |-> Unconducted]
  BY DEF TicketInv, TypeOK
<1>3. \A c \in Classes \ job.added : sessionLogs'[c] = sessionLogs[c]
  BY DEF JobCommit
<1>4. ASSUME NEW c \in job.added
      PROVE  /\ Len(sessionLogs'[c]) = 1
             /\ \A i \in DOMAIN sessionLogs'[c] : sessionLogs'[c][i] = FlaggedRow(c)
  <2>1. sessionLogs'[c] = Append(<<>>, FlaggedRow(c))
    BY <1>2 DEF JobCommit
  <2> QED
    BY <1>2, <2>1, FlaggedRowTyped, FirstRow
<1>5. LogMatchesLedger'
  <2>1. ASSUME NEW c \in Classes, NEW i \in DOMAIN sessionLogs'[c]
        PROVE  /\ logged[c]
               /\ logs[c] = [professor |-> sessionLogs'[c][i].professor,
                             status |-> sessionLogs'[c][i].status]
    <3>1. CASE c \in job.added
      <4>1. sessionLogs'[c][i] = FlaggedRow(c)
        BY <3>1, <1>4
      <4>2. FlaggedRow(c).professor = Primary[c] /\ FlaggedRow(c).status = Unconducted
        BY DEF FlaggedRow
      <4> QED
        BY <3>1, <1>2, <4>1, <4>2
    <3>2. CASE c \notin job.added
      BY <3>2, <1>3, <2>1 DEF TicketInv, LogMatchesLedger
    <3> QED
      BY <3>1, <3>2
  <2> QED
    BY <1>1, <2>1 DEF LogMatchesLedger
<1>6. OneLogPerClass'
  <2>1. ASSUME NEW c \in Classes
        PROVE  Len(sessionLogs'[c]) <= 1
    <3>1. CASE c \in job.added
      <4>1. Len(sessionLogs'[c]) = 1
        BY <3>1, <1>4
      <4> QED
        BY <4>1
    <3>2. CASE c \notin job.added
      <4>1. sessionLogs'[c] = sessionLogs[c]
        BY <3>2, <1>3
      <4> QED
        BY <4>1 DEF TicketInv, OneLogPerClass
    <3> QED
      BY <3>1, <3>2
  <2> QED
    BY <2>1 DEF OneLogPerClass
<1>7. ASSUME NEW r \in Requests, req[r].pc = "anchored"
      PROVE  req[r].class \in Classes \ job.added
  BY <1>7, RequestKinds DEF TicketInv, AnchorRequest
<1> QED
  BY <1>1, <1>3, <1>5, <1>6, <1>7 DEF TicketInv

LEMMA TicketHandlers ==
  ASSUME TypeOK, TicketInv, Handlers
  PROVE  TicketInv'
<1>1. UNCHANGED <<logged, logs, sessionLogs, job>>
  BY DEF Handlers, StartChecks, RedeemChecks, BeginOpening, ScanChecks, ZeroChecks,
         BeginAnchor, IssueSubstitute, EndSession, chainVars
<1>2. ASSUME NEW r \in Requests, req'[r].pc = "anchored"
      PROVE  req'[r] = req[r]
  <2>1. ASSUME NEW q \in Requests, NEW c, NEW p, NEW t, BeginOpening(q, c, p, t)
        PROVE  req'[r] = req[r]
    BY <1>2, <2>1 DEF BeginOpening, TypeOK
  <2>2. ASSUME NEW q \in Requests, NEW s, NEW status, BeginAnchor(q, s, status)
        PROVE  req'[r] = req[r]
    BY <1>2, <2>2 DEF BeginAnchor, TypeOK
  <2>3. CASE \/ \E c \in Classes, p \in Professors : IssueSubstitute(c, p)
             \/ \E s \in DOMAIN sessions : EndSession(s)
    BY <2>3 DEF IssueSubstitute, EndSession
  <2>4. CASE \E q \in Requests, c \in Classes : StartChecks(q, c)
    BY <2>1, <2>4 DEF StartChecks
  <2>5. CASE \E q \in Requests, t \in DOMAIN tokens : RedeemChecks(q, t)
    BY <2>1, <2>5 DEF RedeemChecks
  <2>6. CASE \E q \in Requests, s \in DOMAIN sessions : ScanChecks(q, s) \/ ZeroChecks(q, s)
    BY <2>2, <2>6 DEF ScanChecks, ZeroChecks
  <2> QED
    BY <2>3, <2>4, <2>5, <2>6 DEF Handlers
<1> QED
  BY <1>1, <1>2, TicketQuiet

LEMMA TicketThread ==
  ASSUME TypeOK, TicketInv, NEW r \in Requests, Thread(r)
  PROVE  TicketInv'
<1>1. CASE ReadAttendanceSessions(r) \/ ReadWorkloadSessions(r)
  <2>1. UNCHANGED <<logged, logs, sessionLogs, job>>
    BY <1>1 DEF ReadAttendanceSessions, ReadWorkloadSessions, chainVars
  <2>2. req[r] \in OpenRequest
    BY <1>1, RequestKinds DEF ReadAttendanceSessions, ReadWorkloadSessions, Opening
  <2>3. req'[r].pc # "anchored" /\ \A q \in Requests \ {r} : req'[q] = req[q]
    BY <1>1, <2>2 DEF ReadAttendanceSessions, ReadWorkloadSessions, TypeOK, OpenRequest
  <2> QED
    BY <2>1, <2>3, TicketQuiet
<1>2. CASE \/ OpenCommit(r) \/ OpenFails(r) \/ AnchorRefused(r)
           \/ AnchorUnconfirmed(r) \/ AnchorCommitFails(r)
  <2>1. UNCHANGED <<logged, logs, sessionLogs, job>> /\ Finish(r)
    BY <1>2 DEF OpenCommit, OpenFails, AnchorRefused, AnchorUnconfirmed,
                AnchorCommitFails, chainVars
  <2>2. req'[r].pc # "anchored" /\ \A q \in Requests \ {r} : req'[q] = req[q]
    BY <2>1 DEF Finish, IdleRequest, TypeOK
  <2> QED
    BY <2>1, <2>2, TicketQuiet
<1>3. CASE AnchorMinedThenRaises(r)
  <2>1. req[r].class \in Classes /\ req[r].status \in Statuses
    BY <1>3, RequestKinds DEF AnchorMinedThenRaises, AnchorRequest, Statuses
  <2>2. Primary[req[r].class] \in Professors
    BY <2>1, PrimaryAssumption
  <2>3. /\ Mine(req[r].class, Primary[req[r].class], req[r].status)
        /\ UNCHANGED <<sessionLogs, job>> /\ Finish(r)
    BY <1>3 DEF AnchorMinedThenRaises
  <2>4. req'[r].pc # "anchored" /\ \A q \in Requests \ {r} : req'[q] = req[q]
    BY <2>3 DEF Finish, IdleRequest, TypeOK
  <2>5. \A q \in Requests : req'[q].pc = "anchored" => req'[q] = req[q]
    BY <2>4
  <2> QED
    BY <2>1, <2>2, <2>3, <2>5, TicketOrphan
<1> QED
  BY <1>1, <1>2, <1>3, TicketAnchorMined, TicketAnchorCommit DEF Thread

LEMMA TicketJob ==
  ASSUME TypeOK, TicketInv, Job
  PROVE  TicketInv'
<1>1. CASE JobTick \/ JobCommitFails
  <2>1. UNCHANGED <<logged, logs, sessionLogs, req>> /\ job'.added = {}
    BY <1>1 DEF JobTick, JobCommitFails, IdleJob, chainVars
  <2> QED
    BY <2>1, TicketQuiet
<1>2. ASSUME NEW c \in Classes, JobFlagRefused(c) \/ JobFlagUnconfirmed(c)
      PROVE  TicketInv'
  <2>1. UNCHANGED <<logged, logs, sessionLogs, req>> /\ job'.added = job.added
    BY <1>2 DEF JobFlagRefused, JobFlagUnconfirmed, chainVars, TypeOK
  <2> QED
    BY <2>1, TicketQuiet
<1>3. ASSUME NEW c \in Classes, JobFlagRaises(c)
      PROVE  TicketInv'
  <2>1. /\ Mine(c, Primary[c], Unconducted) /\ UNCHANGED <<sessionLogs, req>>
        /\ job'.added \subseteq job.added
    BY <1>3 DEF JobFlagRaises, IdleJob
  <2>2. Primary[c] \in Professors /\ Unconducted \in Statuses
    BY PrimaryAssumption DEF Statuses
  <2> QED
    BY <2>1, <2>2, TicketOrphan
<1> QED
  BY <1>1, <1>2, <1>3, TicketJobMined, TicketJobCommit DEF Job, FlagClass

LEMMA TicketPending ==
  ASSUME TypeOK, TicketInv, NEW tx \in pending, MinePending(tx)
  PROVE  TicketInv'
<1>1. tx \in Tx
  BY DEF TypeOK
<1>2. CASE logged[tx.class]
  BY <1>2, TicketQuiet DEF MinePending
<1>3. CASE ~logged[tx.class]
  BY <1>1, <1>3, TicketOrphan DEF MinePending, Tx
<1> QED
  BY <1>2, <1>3

LEMMA TicketNext == TypeOK /\ TicketInv /\ [Next]_vars => TicketInv'
<1> SUFFICES ASSUME TypeOK, TicketInv, [Next]_vars
             PROVE  TicketInv'
  OBVIOUS
<1>1. CASE Clock
  <2>1. UNCHANGED <<logged, logs, sessionLogs, req, job>>
    BY <1>1 DEF Clock, ClassOpens, ClassOverdue, TokenExpires, chainVars
  <2> QED
    BY <2>1, TicketQuiet
<1>2. CASE Crash
  <2>1. /\ UNCHANGED <<logged, logs, sessionLogs>> /\ job'.added = {}
        /\ \A r \in Requests : req'[r].pc # "anchored"
    BY <1>2 DEF Crash, IdleJob, IdleRequest, chainVars
  <2> QED
    BY <2>1, TicketQuiet
<1>3. CASE UNCHANGED vars
  BY <1>3, TicketQuiet DEF vars
<1> QED
  BY <1>1, <1>2, <1>3, TicketHandlers, TicketThread, TicketJob, TicketPending DEF Next

\* A thread or a job that holds the right to add a class's row holds it alone.
THEOREM TicketsAreExclusive == Spec => []TicketInv
<1>1. Init => TypeOK /\ TicketInv
  BY TypeInit, TicketInit
<1>2. TypeOK /\ TicketInv /\ [Next]_vars => (TypeOK /\ TicketInv)'
  BY TypeNext, TicketNext
<1> QED
  BY <1>1, <1>2, PTL DEF Spec

\* No local outcome without the on-chain entry it claims to mirror.
THEOREM RowsMatchTheLedger == Spec => []LogMatchesLedger
<1>1. TicketInv => LogMatchesLedger
  BY DEF TicketInv
<1> QED
  BY <1>1, TicketsAreExclusive, PTL

\* No class has two outcomes, although nothing in the schema forbids it.
THEOREM NoSecondRow == Spec => []OneLogPerClass
<1>1. TicketInv => OneLogPerClass
  BY DEF TicketInv
<1> QED
  BY <1>1, TicketsAreExclusive, PTL

-----------------------------------------------------------------------------
(* The backend keeps the ledger's promise *)

\* Every step that touches the chain is one logWorkload transaction.
LEMMA ChainStep ==
  ASSUME TypeOK, [Next]_vars
  PROVE  \/ UNCHANGED <<logged, logs>>
         \/ \E c \in Classes, p \in Professors, status \in Statuses : Mine(c, p, status)
<1> DEFINE Quiet == UNCHANGED <<logged, logs>>
           Logs == \E c \in Classes, p \in Professors, status \in Statuses :
                      Mine(c, p, status)
<1>1. CASE Clock \/ Handlers \/ Crash \/ UNCHANGED vars
  BY <1>1 DEF Clock, ClassOpens, ClassOverdue, TokenExpires, Handlers, StartChecks,
       RedeemChecks, BeginOpening, ScanChecks, ZeroChecks, BeginAnchor,
       IssueSubstitute, EndSession, Crash, vars, chainVars
<1>2. ASSUME NEW r \in Requests, Thread(r)
      PROVE  Quiet \/ Logs
  <2>1. CASE AnchorMined(r) \/ AnchorMinedThenRaises(r)
    <3>1. req[r].class \in Classes /\ req[r].status \in Statuses
      BY <2>1, RequestKinds
         DEF AnchorMined, AnchorMinedThenRaises, AnchorRequest, Statuses
    <3>2. Mine(req[r].class, Primary[req[r].class], req[r].status)
      BY <2>1 DEF AnchorMined, AnchorMinedThenRaises
    <3> QED
      BY <3>1, <3>2, PrimaryAssumption
  <2>2. CASE ~(AnchorMined(r) \/ AnchorMinedThenRaises(r))
    BY <1>2, <2>2 DEF Thread, ReadAttendanceSessions, ReadWorkloadSessions,
         OpenCommit, OpenFails, AnchorRefused, AnchorUnconfirmed, AnchorCommit,
         AnchorCommitFails, chainVars
  <2> QED
    BY <2>1, <2>2
<1>3. CASE Job
  <2>1. ASSUME NEW c \in Classes, JobFlagMined(c) \/ JobFlagRaises(c)
        PROVE  Logs
    <3>1. Mine(c, Primary[c], Unconducted)
      BY <2>1 DEF JobFlagMined, JobFlagRaises
    <3>2. Unconducted \in Statuses /\ Primary[c] \in Professors
      BY PrimaryAssumption DEF Statuses
    <3> QED
      BY <3>1, <3>2
  <2>2. ASSUME NEW c \in Classes, JobFlagRefused(c) \/ JobFlagUnconfirmed(c)
        PROVE  Quiet
    BY <2>2 DEF JobFlagRefused, JobFlagUnconfirmed, chainVars
  <2>3. CASE JobTick \/ JobCommit \/ JobCommitFails
    BY <2>3 DEF JobTick, JobCommit, JobCommitFails, chainVars
  <2> QED
    BY <1>3, <2>1, <2>2, <2>3 DEF Job, FlagClass
<1>4. ASSUME NEW tx \in pending, MinePending(tx)
      PROVE  Quiet \/ Logs
  <2>1. tx.class \in Classes /\ tx.professor \in Professors /\ tx.status \in Statuses
    BY DEF TypeOK, Tx
  <2> QED
    BY <1>4, <2>1 DEF MinePending
<1> QED
  BY <1>1, <1>2, <1>3, <1>4 DEF Next

\* However the threads, the job, late transactions and restarts interleave,
\* the chain as the backend drives it is a write-once store of outcomes.
THEOREM BackendKeepsLedgerPromise == Spec => LedgerSpec
<1> DEFINE store == [c \in Classes |-> IF logged[c] THEN logs[c] ELSE Ledger!ZeroEntry]
<1>1. Init => Ledger!Outcomes!Init
  BY DEF Init, Ledger!Outcomes!Init
<1>2. TypeOK /\ [Next]_vars => [Ledger!Outcomes!Next]_store
  <2> SUFFICES ASSUME TypeOK, [Next]_vars
               PROVE  Ledger!Outcomes!Next \/ store' = store
    BY DEF store
  <2>1. CASE UNCHANGED <<logged, logs>>
    BY <2>1
  <2>2. ASSUME NEW c \in Classes, NEW p \in Professors, NEW status \in Statuses,
               Mine(c, p, status)
        PROVE  Ledger!Outcomes!Next
    <3> DEFINE e == [professor |-> p, status |-> status]
    <3>1. e \in Ledger!Entry
      BY DEF Ledger!Entry, Ledger!WorkloadStatus, Statuses, Conducted, ZeroStudents,
             Unconducted
    <3>2. /\ ~logged[c]
          /\ logged' = [logged EXCEPT ![c] = TRUE]
          /\ logs' = [logs EXCEPT ![c] = e]
      BY <2>2, MineTyped
    <3>3. store[c] = Ledger!ZeroEntry
      BY <3>2
    <3>4. store' = [store EXCEPT ![c] = e]
      BY <3>2 DEF TypeOK
    <3> QED
      BY <3>1, <3>3, <3>4 DEF Ledger!Outcomes!Next, Ledger!Outcomes!Put
  <2> QED
    BY <2>1, <2>2, ChainStep
<1> QED
  BY <1>1, <1>2, TypeCorrect, PTL
     DEF Spec, LedgerSpec, Ledger!OneEntryPerClass, Ledger!Outcomes!Spec

-----------------------------------------------------------------------------
(* What a step does to the tables that only grow *)

LEMMA SessionRows ==
  ASSUME TypeOK
  PROVE  /\ DOMAIN sessions = 1..Len(sessions) /\ Len(sessions) \in Nat
         /\ \A s \in DOMAIN sessions : sessions[s] \in Session
BY LenProperties DEF TypeOK

LEMMA TokenRows ==
  ASSUME TypeOK
  PROVE  /\ DOMAIN tokens = 1..Len(tokens)
         /\ \A t \in DOMAIN tokens : tokens[t] \in Token /\ t \in Nat /\ t # NoToken
BY LenProperties DEF TypeOK, NoToken

LEMMA EndEffect ==
  ASSUME TypeOK, NEW s \in DOMAIN sessions, EndSession(s)
  PROVE  /\ DOMAIN sessions' = DOMAIN sessions
         /\ \A z \in DOMAIN sessions \ {s} : sessions'[z] = sessions[z]
         /\ sessions'[s] = [sessions[s] EXCEPT !.attActive = FALSE, !.ended = TRUE]
BY DEF EndSession

LEMMA OpenEffect ==
  ASSUME TypeOK, NEW r \in Requests, OpenCommit(r)
  PROVE  /\ DOMAIN sessions' = DOMAIN sessions \cup {Len(sessions) + 1}
         /\ \A s \in DOMAIN sessions : /\ sessions'[s] = Deactivated(s, r)
                                       /\ s < Len(sessions) + 1
         /\ sessions'[Len(sessions) + 1] = NewSession(r)
<1> DEFINE closed == [s \in DOMAIN sessions |-> Deactivated(s, r)]
<1>1. req[r] \in OpenRequest
  BY RequestKinds DEF OpenCommit, Opening
<1>2. NewSession(r) \in Session
  BY <1>1 DEF NewSession, OpenRequest, Session
<1>3. \A s \in DOMAIN sessions : Deactivated(s, r) \in Session
  BY SessionRows DEF Deactivated, Session
<1>4. closed \in [DOMAIN sessions -> Session]
  BY <1>3
<1>5. closed \in Seq(Session) /\ DOMAIN closed = DOMAIN sessions
  BY <1>4, SeqRewrite DEF TypeOK
<1>6. Len(closed) = Len(sessions)
  BY <1>5, SessionRows, LenProperties
<1>7. sessions' = Append(closed, NewSession(r))
  BY DEF OpenCommit, Opened
<1> HIDE DEF closed
<1>8. /\ \A s \in DOMAIN closed : sessions'[s] = closed[s]
      /\ sessions'[Len(sessions) + 1] = NewSession(r)
      /\ DOMAIN sessions' = 1..(Len(sessions) + 1)
  BY <1>2, <1>5, <1>6, <1>7, AppendRow
<1> QED
  BY <1>5, <1>8, SessionRows DEF closed

\* Sessions are opened, deactivated and ended; nothing else touches them.
LEMMA SessionEffect ==
  ASSUME TypeOK, [Next]_vars
  PROVE  \/ sessions' = sessions
         \/ \E s \in DOMAIN sessions : EndSession(s)
         \/ \E r \in Requests : OpenCommit(r)
<1>1. CASE Clock \/ Job \/ Crash \/ UNCHANGED vars
  BY <1>1 DEF Clock, ClassOpens, ClassOverdue, TokenExpires, Job, FlagClass, JobTick,
       JobFlagMined, JobFlagRefused, JobFlagUnconfirmed, JobFlagRaises, JobCommit,
       JobCommitFails, Crash, vars
<1>2. CASE Handlers
  BY <1>2 DEF Handlers, StartChecks, RedeemChecks, BeginOpening, ScanChecks, ZeroChecks,
       BeginAnchor, IssueSubstitute
<1>3. ASSUME NEW r \in Requests, Thread(r)
      PROVE  sessions' = sessions \/ OpenCommit(r)
  BY <1>3 DEF Thread, ReadAttendanceSessions, ReadWorkloadSessions, OpenFails, AnchorMined,
       AnchorRefused, AnchorUnconfirmed, AnchorMinedThenRaises, AnchorCommit,
       AnchorCommitFails
<1>4. ASSUME NEW tx \in pending, MinePending(tx)
      PROVE  sessions' = sessions
  BY <1>4 DEF MinePending
<1> QED
  BY <1>1, <1>2, <1>3, <1>4 DEF Next

\* A session keeps its class and its conductor for good.
LEMMA SessionsKept ==
  ASSUME TypeOK, [Next]_vars, NEW s \in DOMAIN sessions
  PROVE  /\ s \in DOMAIN sessions'
         /\ sessions'[s].class = sessions[s].class
         /\ sessions'[s].conductor = sessions[s].conductor
<1>1. sessions[s] \in Session
  BY SessionRows
<1>2. ASSUME NEW z \in DOMAIN sessions, EndSession(z)
      PROVE  /\ s \in DOMAIN sessions'
             /\ sessions'[s].class = sessions[s].class
             /\ sessions'[s].conductor = sessions[s].conductor
  BY <1>1, <1>2, EndEffect DEF Session
<1>3. ASSUME NEW r \in Requests, OpenCommit(r)
      PROVE  /\ s \in DOMAIN sessions'
             /\ sessions'[s].class = sessions[s].class
             /\ sessions'[s].conductor = sessions[s].conductor
  BY <1>1, <1>3, OpenEffect DEF Deactivated, Session
<1> QED
  BY <1>2, <1>3, SessionEffect

-----------------------------------------------------------------------------
(* What an outcome rests on *)

\* The grounds for logging status for class c; once given, they stay.
Grounds(c, status) ==
    IF status = Unconducted
    THEN phase[c] = "overdue"
    ELSE \E s \in DOMAIN sessions : sessions[s].class = c

\* Whoever is about to log an outcome, the job, a request or a transaction whose
\* sender gave up, has the grounds for it already.
JustifiedInv ==
    /\ OutcomeJustified
    /\ \A tx \in pending : Grounds(tx.class, tx.status)
    /\ \A r \in Requests : req[r].pc = "anchor" => Grounds(req[r].class, req[r].status)
    /\ \A c \in job.todo : Grounds(c, Unconducted)

LEMMA JustifiedInit == Init => JustifiedInv
BY DEF Init, JustifiedInv, OutcomeJustified, IdleRequest, IdleJob

LEMMA GroundsLast ==
  ASSUME TypeOK, [Next]_vars, NEW c \in Classes
  PROVE  /\ phase[c] = "overdue" => phase'[c] = "overdue"
         /\ (\E s \in DOMAIN sessions : sessions[s].class = c)
               => \E s \in DOMAIN sessions' : sessions'[s].class = c
<1>1. phase[c] = "overdue" => phase'[c] = "overdue"
  <2>1. \/ phase' = phase
        \/ \E k \in Classes : \/ phase[k] = "early" /\ phase' = [phase EXCEPT ![k] = "open"]
                              \/ phase' = [phase EXCEPT ![k] = "overdue"]
    <3>1. CASE Clock
      BY <3>1 DEF Clock, ClassOpens, ClassOverdue, TokenExpires
    <3>2. CASE Handlers \/ Job \/ Crash \/ UNCHANGED vars
      BY <3>2 DEF Handlers, StartChecks, RedeemChecks, BeginOpening, ScanChecks, ZeroChecks,
         BeginAnchor, IssueSubstitute, EndSession, Job, FlagClass, JobTick, JobFlagMined,
         JobFlagRefused, JobFlagUnconfirmed, JobFlagRaises, JobCommit, JobCommitFails,
         Crash, vars
    <3>3. CASE \/ \E r \in Requests : Thread(r)
               \/ \E tx \in pending : MinePending(tx)
      BY <3>3 DEF Thread, ReadAttendanceSessions, ReadWorkloadSessions, OpenCommit, OpenFails,
         AnchorMined, AnchorRefused, AnchorUnconfirmed, AnchorMinedThenRaises, AnchorCommit,
         AnchorCommitFails, MinePending
    <3> QED
      BY <3>1, <3>2, <3>3 DEF Next
  <2> QED
    BY <2>1 DEF TypeOK
<1>2. ASSUME NEW s \in DOMAIN sessions, sessions[s].class = c
      PROVE  \E z \in DOMAIN sessions' : sessions'[z].class = c
  BY <1>2, SessionsKept
<1> QED
  BY <1>1, <1>2

\* The chain takes an entry only from somebody with the grounds for it.
LEMMA MinedWithGrounds ==
  ASSUME TypeOK, JustifiedInv, [Next]_vars
  PROVE  \/ UNCHANGED <<logged, logs>>
         \/ \E c \in Classes, p \in Professors, status \in Statuses :
               Mine(c, p, status) /\ Grounds(c, status)
<1>1. CASE Clock \/ Handlers \/ Crash \/ UNCHANGED vars
  BY <1>1 DEF Clock, ClassOpens, ClassOverdue, TokenExpires, Handlers, StartChecks,
       RedeemChecks, BeginOpening, ScanChecks, ZeroChecks, BeginAnchor, IssueSubstitute,
       EndSession, Crash, vars, chainVars
<1>2. ASSUME NEW r \in Requests, Thread(r)
      PROVE  \/ UNCHANGED <<logged, logs>>
             \/ \E c \in Classes, p \in Professors, status \in Statuses :
                   Mine(c, p, status) /\ Grounds(c, status)
  <2>1. CASE AnchorMined(r) \/ AnchorMinedThenRaises(r)
    <3>1. /\ req[r].pc = "anchor"
          /\ Mine(req[r].class, Primary[req[r].class], req[r].status)
      BY <2>1 DEF AnchorMined, AnchorMinedThenRaises
    <3>2. req[r] \in AnchorRequest
      BY <3>1, RequestKinds
    <3>3. req[r].class \in Classes /\ req[r].status \in Statuses
      BY <3>2 DEF AnchorRequest, Statuses
    <3>4. Grounds(req[r].class, req[r].status)
      BY <3>1 DEF JustifiedInv
    <3>5. Primary[req[r].class] \in Professors
      BY <3>3, PrimaryAssumption
    <3> QED
      BY <3>1, <3>3, <3>4, <3>5
  <2>2. CASE ~(AnchorMined(r) \/ AnchorMinedThenRaises(r))
    BY <1>2, <2>2 DEF Thread, ReadAttendanceSessions, ReadWorkloadSessions, OpenCommit,
         OpenFails, AnchorRefused, AnchorUnconfirmed, AnchorCommit, AnchorCommitFails,
         chainVars
  <2> QED
    BY <2>1, <2>2
<1>3. ASSUME NEW tx \in pending, MinePending(tx)
      PROVE  \/ UNCHANGED <<logged, logs>>
             \/ \E c \in Classes, p \in Professors, status \in Statuses :
                   Mine(c, p, status) /\ Grounds(c, status)
  <2>1. tx \in Tx /\ Grounds(tx.class, tx.status)
    BY DEF JustifiedInv, TypeOK
  <2>2. /\ tx.class \in Classes
        /\ tx.professor \in Professors
        /\ tx.status \in Statuses
    BY <2>1 DEF Tx
  <2>3. UNCHANGED <<logged, logs>> \/ Mine(tx.class, tx.professor, tx.status)
    BY <1>3 DEF MinePending
  <2> QED
    BY <2>1, <2>2, <2>3
<1>4. CASE Job
  <2>1. ASSUME NEW c \in Classes, JobFlagMined(c) \/ JobFlagRaises(c)
        PROVE  \E p \in Professors, status \in Statuses :
                  Mine(c, p, status) /\ Grounds(c, status)
    <3>1. c \in job.todo /\ Mine(c, Primary[c], Unconducted)
      BY <2>1 DEF JobFlagMined, JobFlagRaises
    <3>2. Grounds(c, Unconducted)
      BY <3>1 DEF JustifiedInv
    <3>3. Primary[c] \in Professors /\ Unconducted \in Statuses
      BY PrimaryAssumption DEF Statuses
    <3> QED
      BY <3>1, <3>2, <3>3
  <2>2. CASE JobTick \/ JobCommit \/ JobCommitFails
    BY <2>2 DEF JobTick, JobCommit, JobCommitFails, chainVars
  <2>3. ASSUME NEW c \in Classes, JobFlagRefused(c) \/ JobFlagUnconfirmed(c)
        PROVE  UNCHANGED <<logged, logs>>
    BY <2>3 DEF JobFlagRefused, JobFlagUnconfirmed, chainVars
  <2>4. \/ \E c \in Classes : JobFlagMined(c) \/ JobFlagRaises(c)
        \/ \E c \in Classes : JobFlagRefused(c) \/ JobFlagUnconfirmed(c)
        \/ JobTick \/ JobCommit \/ JobCommitFails
    BY <1>4 DEF Job, FlagClass
  <2> QED
    BY <2>1, <2>2, <2>3, <2>4
<1> QED
  BY <1>1, <1>2, <1>3, <1>4 DEF Next

LEMMA JustifiedChain ==
  ASSUME TypeOK, JustifiedInv, [Next]_vars
  PROVE  OutcomeJustified'
<1> SUFFICES ASSUME NEW c \in Classes, logged'[c]
             PROVE  IF logs'[c].status = Unconducted
                    THEN phase'[c] = "overdue"
                    ELSE \E s \in DOMAIN sessions' : sessions'[s].class = c
  BY DEF OutcomeJustified
<1>1. CASE logged[c] /\ logs'[c] = logs[c]
  BY <1>1, GroundsLast DEF OutcomeJustified, JustifiedInv
<1>2. ASSUME NEW k \in Classes, NEW p \in Professors, NEW status \in Statuses,
             Mine(k, p, status), Grounds(k, status), k = c
      PROVE  IF logs'[c].status = Unconducted
             THEN phase'[c] = "overdue"
             ELSE \E s \in DOMAIN sessions' : sessions'[s].class = c
  <2>1. logs'[c] = [professor |-> p, status |-> status]
    BY <1>2, MineTyped DEF TypeOK
  <2> QED
    BY <1>2, <2>1, GroundsLast DEF Grounds
<1>3. ASSUME NEW k \in Classes, NEW p \in Professors, NEW status \in Statuses,
             Mine(k, p, status), k # c
      PROVE  logged[c] /\ logs'[c] = logs[c]
  BY <1>3, MineTyped DEF TypeOK
<1>4. UNCHANGED <<logged, logs>> => logged[c] /\ logs'[c] = logs[c]
  OBVIOUS
<1> QED
  BY <1>1, <1>2, <1>3, <1>4, MinedWithGrounds

\* A request goes on by itself, or is dropped; no other thread moves it.
LEMMA RequestEffect ==
  ASSUME TypeOK, [Next]_vars, NEW r \in Requests
  PROVE  \/ req'[r] = req[r]
         \/ req'[r] = IdleRequest
         \/ \E c \in Classes : StartChecks(r, c)
         \/ \E t \in DOMAIN tokens : RedeemChecks(r, t)
         \/ \E s \in DOMAIN sessions : ScanChecks(r, s) \/ ZeroChecks(r, s)
         \/ ReadAttendanceSessions(r) \/ ReadWorkloadSessions(r) \/ AnchorMined(r)
<1>1. CASE Clock \/ Job \/ UNCHANGED vars
  BY <1>1 DEF Clock, ClassOpens, ClassOverdue, TokenExpires, Job, FlagClass, JobTick,
       JobFlagMined, JobFlagRefused, JobFlagUnconfirmed, JobFlagRaises, JobCommit,
       JobCommitFails, vars
<1>2. CASE Crash
  BY <1>2 DEF Crash
<1>3. ASSUME NEW tx \in pending, MinePending(tx)
      PROVE  req' = req
  BY <1>3 DEF MinePending
<1>4. CASE Handlers
  <2>1. ASSUME NEW c \in Classes, NEW p \in Professors, IssueSubstitute(c, p)
        PROVE  req' = req
    BY <2>1 DEF IssueSubstitute
  <2>2. ASSUME NEW s \in DOMAIN sessions, EndSession(s)
        PROVE  req' = req
    BY <2>2 DEF EndSession
  <2>3. ASSUME NEW q \in Requests, NEW c \in Classes, StartChecks(q, c), q # r
        PROVE  req'[r] = req[r]
    BY <2>3 DEF StartChecks, BeginOpening, TypeOK
  <2>4. ASSUME NEW q \in Requests, NEW t \in DOMAIN tokens, RedeemChecks(q, t), q # r
        PROVE  req'[r] = req[r]
    BY <2>4 DEF RedeemChecks, BeginOpening, TypeOK
  <2>5. ASSUME NEW q \in Requests, NEW s \in DOMAIN sessions,
               ScanChecks(q, s) \/ ZeroChecks(q, s), q # r
        PROVE  req'[r] = req[r]
    BY <2>5 DEF ScanChecks, ZeroChecks, BeginAnchor, TypeOK
  <2> QED
    BY <1>4, <2>1, <2>2, <2>3, <2>4, <2>5 DEF Handlers
<1>5. ASSUME NEW q \in Requests, Thread(q)
      PROVE  \/ req'[r] = req[r]
             \/ req'[r] = IdleRequest
             \/ ReadAttendanceSessions(r) \/ ReadWorkloadSessions(r) \/ AnchorMined(r)
  <2>1. CASE ReadAttendanceSessions(q) \/ ReadWorkloadSessions(q) \/ AnchorMined(q)
    <3>1. q # r => req'[r] = req[r]
      BY <2>1 DEF ReadAttendanceSessions, ReadWorkloadSessions, AnchorMined, TypeOK
    <3> QED
      BY <2>1, <3>1
  <2>2. CASE ~(ReadAttendanceSessions(q) \/ ReadWorkloadSessions(q) \/ AnchorMined(q))
    <3>1. Finish(q)
      BY <1>5, <2>2 DEF Thread, OpenCommit, OpenFails, AnchorRefused, AnchorUnconfirmed,
         AnchorMinedThenRaises, AnchorCommit, AnchorCommitFails
    <3> QED
      BY <3>1 DEF Finish, TypeOK
  <2> QED
    BY <2>1, <2>2
<1> QED
  BY <1>1, <1>2, <1>3, <1>4, <1>5 DEF Next

\* What is sent, asked for or listed has its grounds by then.
LEMMA SentWithGrounds ==
  ASSUME TypeOK, JustifiedInv, [Next]_vars, NEW tx \in pending'
  PROVE  tx \in Tx /\ Grounds(tx.class, tx.status)
<1>1. CASE tx \in pending
  BY <1>1 DEF TypeOK, JustifiedInv
<1>2. ASSUME NEW r \in Requests, AnchorUnconfirmed(r), tx \notin pending
      PROVE  tx \in Tx /\ Grounds(tx.class, tx.status)
  <2>1. req[r] \in AnchorRequest /\ Grounds(req[r].class, req[r].status)
    BY <1>2, RequestKinds DEF AnchorUnconfirmed, JustifiedInv
  <2>2. tx = [class |-> req[r].class, professor |-> Primary[req[r].class],
              status |-> req[r].status]
    BY <1>2 DEF AnchorUnconfirmed
  <2>3. /\ req[r].class \in Classes
        /\ req[r].status \in Statuses
        /\ Primary[req[r].class] \in Professors
    BY <2>1, PrimaryAssumption DEF AnchorRequest, Statuses
  <2>4. tx.class = req[r].class /\ tx.status = req[r].status
    BY <2>2
  <2>5. tx \in Tx
    BY <2>2, <2>3 DEF Tx
  <2> QED
    BY <2>1, <2>4, <2>5
<1>3. ASSUME NEW c \in Classes, JobFlagUnconfirmed(c), tx \notin pending
      PROVE  tx \in Tx /\ Grounds(tx.class, tx.status)
  <2>1. Grounds(c, Unconducted)
    BY <1>3 DEF JobFlagUnconfirmed, JustifiedInv
  <2>2. tx = [class |-> c, professor |-> Primary[c], status |-> Unconducted]
    BY <1>3 DEF JobFlagUnconfirmed
  <2>3. tx.class = c /\ tx.status = Unconducted
    BY <2>2
  <2>4. tx \in Tx
    BY <2>2, PrimaryAssumption DEF Tx, Statuses
  <2> QED
    BY <2>1, <2>3, <2>4
<1>4. \/ pending' \subseteq pending
      \/ \E r \in Requests : AnchorUnconfirmed(r)
      \/ \E c \in Classes : JobFlagUnconfirmed(c)
  <2>1. CASE Clock \/ Handlers \/ Crash \/ UNCHANGED vars
    BY <2>1 DEF Clock, ClassOpens, ClassOverdue, TokenExpires, Handlers, StartChecks,
         RedeemChecks, BeginOpening, ScanChecks, ZeroChecks, BeginAnchor,
         IssueSubstitute, EndSession, Crash, vars, chainVars
  <2>2. ASSUME NEW r \in Requests, Thread(r)
        PROVE  pending' = pending \/ AnchorUnconfirmed(r)
    BY <2>2 DEF Thread, ReadAttendanceSessions, ReadWorkloadSessions, OpenCommit,
         OpenFails, AnchorMined, AnchorMinedThenRaises, AnchorRefused, AnchorCommit,
         AnchorCommitFails, chainVars
  <2>3. ASSUME NEW x \in pending, MinePending(x)
        PROVE  pending' \subseteq pending
    BY <2>3 DEF MinePending
  <2>4. CASE Job
    BY <2>4 DEF Job, FlagClass, JobTick, JobFlagMined, JobFlagRefused, JobFlagRaises,
         JobCommit, JobCommitFails, chainVars
  <2> QED
    BY <2>1, <2>2, <2>3, <2>4 DEF Next
<1> QED
  BY <1>1, <1>2, <1>3, <1>4

LEMMA AskedWithGrounds ==
  ASSUME TypeOK, JustifiedInv, [Next]_vars, NEW r \in Requests, req'[r].pc = "anchor"
  PROVE  /\ req'[r].class \in Classes
         /\ Grounds(req'[r].class, req'[r].status)
<1>1. CASE req'[r] = req[r]
  <2>1. req[r].class \in Classes
    BY <1>1, RequestKinds DEF AnchorRequest
  <2> QED
    BY <1>1, <2>1 DEF JustifiedInv
<1>2. ASSUME NEW s \in DOMAIN sessions, ScanChecks(r, s) \/ ZeroChecks(r, s)
      PROVE  /\ req'[r].class \in Classes
             /\ Grounds(req'[r].class, req'[r].status)
  <2>1. sessions[s].class \in Classes
    BY SessionRows DEF Session
  <2>2. /\ req'[r].class = sessions[s].class
        /\ req'[r].status \in {Conducted, ZeroStudents}
    BY <1>2 DEF ScanChecks, ZeroChecks, BeginAnchor, TypeOK
  <2>3. req'[r].status # Unconducted
    BY <2>2 DEF Conducted, ZeroStudents, Unconducted
  <2> QED
    BY <2>1, <2>2, <2>3 DEF Grounds
<1>3. ASSUME \/ \E c \in Classes : StartChecks(r, c)
             \/ \E t \in DOMAIN tokens : RedeemChecks(r, t)
             \/ ReadAttendanceSessions(r) \/ ReadWorkloadSessions(r) \/ AnchorMined(r)
             \/ req'[r] = IdleRequest
      PROVE  FALSE
  <2>1. CASE req'[r] = IdleRequest
    BY <2>1 DEF IdleRequest
  <2>2. CASE ReadAttendanceSessions(r) \/ ReadWorkloadSessions(r) \/ AnchorMined(r)
    <3>1. req[r] \in OpenRequest \cup AnchorRequest
      BY <2>2, RequestKinds DEF ReadAttendanceSessions, ReadWorkloadSessions, AnchorMined,
         Opening
    <3> QED
      BY <2>2, <3>1 DEF ReadAttendanceSessions, ReadWorkloadSessions, AnchorMined, TypeOK,
         OpenRequest, AnchorRequest
  <2>3. ASSUME NEW c, NEW p, NEW t, BeginOpening(r, c, p, t)
        PROVE  FALSE
    BY <2>3 DEF BeginOpening, TypeOK
  <2>4. ~ \E c \in Classes : StartChecks(r, c)
    BY <2>3 DEF StartChecks
  <2>5. ~ \E t \in DOMAIN tokens : RedeemChecks(r, t)
    BY <2>3 DEF RedeemChecks
  <2> QED
    BY <1>3, <2>1, <2>2, <2>4, <2>5
<1> QED
  BY <1>1, <1>2, <1>3, RequestEffect

LEMMA ListedWithGrounds ==
  ASSUME TypeOK, JustifiedInv, [Next]_vars, NEW c \in job'.todo
  PROVE  c \in Classes /\ Grounds(c, Unconducted)
<1>0. job' = job \/ job' = IdleJob => job'.todo \subseteq job.todo
  BY DEF IdleJob
<1>1. job'.todo \subseteq job.todo \/ JobTick
  <2>1. CASE Clock \/ Handlers \/ Crash \/ UNCHANGED vars
    <3>1. job' = job \/ job' = IdleJob
      BY <2>1 DEF Clock, ClassOpens, ClassOverdue, TokenExpires, Handlers, StartChecks,
         RedeemChecks, BeginOpening, ScanChecks, ZeroChecks, BeginAnchor,
         IssueSubstitute, EndSession, Crash, vars
    <3> QED
      BY <1>0, <3>1
  <2>2. ASSUME NEW r \in Requests, Thread(r)
        PROVE  job' = job
    BY <2>2 DEF Thread, ReadAttendanceSessions, ReadWorkloadSessions, OpenCommit,
         OpenFails, AnchorMined, AnchorUnconfirmed, AnchorMinedThenRaises, AnchorRefused,
         AnchorCommit, AnchorCommitFails
  <2>3. ASSUME NEW x \in pending, MinePending(x)
        PROVE  job' = job
    BY <2>3 DEF MinePending
  <2>4. ASSUME NEW x \in Classes, FlagClass(x)
        PROVE  job'.todo \subseteq job.todo
    <3>1. job \in [running : BOOLEAN, todo : SUBSET Classes, added : SUBSET Classes]
      BY DEF TypeOK
    <3>2. CASE JobFlagRaises(x)
      BY <1>0, <3>2 DEF JobFlagRaises
    <3>3. CASE JobFlagMined(x) \/ JobFlagRefused(x) \/ JobFlagUnconfirmed(x)
      <4>1. job'.todo = job.todo \ {x}
        BY <3>1, <3>3 DEF JobFlagMined, JobFlagRefused, JobFlagUnconfirmed
      <4> QED
        BY <4>1
    <3> QED
      BY <2>4, <3>2, <3>3 DEF FlagClass
  <2>5. CASE JobCommit \/ JobCommitFails
    BY <1>0, <2>5 DEF JobCommit, JobCommitFails
  <2> QED
    BY <1>0, <2>1, <2>2, <2>3, <2>4, <2>5 DEF Next, Job
<1>2. CASE JobTick
  BY <1>2 DEF JobTick, Overdue, Grounds
<1>3. CASE job'.todo \subseteq job.todo
  BY <1>3 DEF JustifiedInv, TypeOK
<1> QED
  BY <1>1, <1>2, <1>3

LEMMA JustifiedNext == TypeOK /\ JustifiedInv /\ [Next]_vars => JustifiedInv'
<1> SUFFICES ASSUME TypeOK, JustifiedInv, [Next]_vars
             PROVE  JustifiedInv'
  OBVIOUS
<1>1. ASSUME NEW tx \in pending'
      PROVE  Grounds(tx.class, tx.status)'
  BY SentWithGrounds, GroundsLast DEF Grounds, Tx
<1>2. ASSUME NEW r \in Requests, req'[r].pc = "anchor"
      PROVE  Grounds(req[r].class, req[r].status)'
  BY <1>2, AskedWithGrounds, GroundsLast DEF Grounds
<1>3. ASSUME NEW c \in job'.todo
      PROVE  Grounds(c, Unconducted)'
  BY ListedWithGrounds, GroundsLast DEF Grounds
<1> QED
  BY <1>1, <1>2, <1>3, JustifiedChain DEF JustifiedInv

\* Nobody's outcome outruns the facts: a class is on the chain as held only if
\* a session of it was opened, as not held only if its grace period ran out,
\* also when a transaction is mined long after its sender gave up or died.
THEOREM OutcomesAreJustified == Spec => []OutcomeJustified
<1>1. Init => JustifiedInv
  BY JustifiedInit
<1>2. TypeOK /\ JustifiedInv /\ [Next]_vars => JustifiedInv'
  BY JustifiedNext
<1>3. JustifiedInv => OutcomeJustified
  BY DEF JustifiedInv
<1> QED
  BY <1>1, <1>2, <1>3, TypeCorrect, PTL DEF Spec

-----------------------------------------------------------------------------
(* Who may conduct *)

\* p is the class's professor, or a token redeemed for this class names p.
MayConduct(p, c) ==
    \/ p = Primary[c]
    \/ \E t \in DOMAIN tokens :
          /\ tokens[t].class = c
          /\ tokens[t].substitute = p
          /\ tokens[t].redeemed

\* A request that opens a session is the professor's start, or holds a token
\* that names its class and its caller; its commit redeems the token.
MayOpen(r) ==
    \/ req[r].conductor = Primary[req[r].class]
    \/ /\ req[r].token \in DOMAIN tokens
       /\ tokens[req[r].token].class = req[r].class
       /\ tokens[req[r].token].substitute = req[r].conductor

AuthInv ==
    /\ ConductorAuthorised
    /\ \A r \in Requests : Opening(r) => MayOpen(r)
    /\ \A r \in Requests : req[r].pc \in {"anchor", "anchored"} =>
          MayConduct(req[r].conductor, req[r].class)

LEMMA AuthInit == Init => AuthInv
BY DEF Init, AuthInv, ConductorAuthorised, IdleRequest, Opening

\* Tokens are issued, expire and are redeemed: they never change hands and are
\* never unredeemed.
LEMMA TokensKept ==
  ASSUME TypeOK, [Next]_vars, NEW t \in DOMAIN tokens
  PROVE  /\ t \in DOMAIN tokens'
         /\ tokens'[t].class = tokens[t].class
         /\ tokens'[t].substitute = tokens[t].substitute
         /\ tokens[t].redeemed => tokens'[t].redeemed
<1>0. tokens[t] \in Token
  BY TokenRows
<1>1. ASSUME NEW x \in DOMAIN tokens, TokenExpires(x)
      PROVE  /\ t \in DOMAIN tokens'
             /\ tokens'[t].class = tokens[t].class
             /\ tokens'[t].substitute = tokens[t].substitute
             /\ tokens[t].redeemed => tokens'[t].redeemed
  BY <1>0, <1>1 DEF TokenExpires, Token
<1>2. ASSUME NEW r \in Requests, OpenCommit(r)
      PROVE  /\ t \in DOMAIN tokens'
             /\ tokens'[t].class = tokens[t].class
             /\ tokens'[t].substitute = tokens[t].substitute
             /\ tokens[t].redeemed => tokens'[t].redeemed
  BY <1>0, <1>2 DEF OpenCommit, Token
<1>3. ASSUME NEW c \in Classes, NEW p \in Professors, IssueSubstitute(c, p)
      PROVE  t \in DOMAIN tokens' /\ tokens'[t] = tokens[t]
  <2>1. [class |-> c, substitute |-> p, redeemed |-> FALSE, expired |-> FALSE] \in Token
    BY DEF Token
  <2> QED
    BY <1>3, <2>1, TokenRows, AppendRow DEF IssueSubstitute, TypeOK
<1>4. \/ tokens' = tokens
      \/ \E x \in DOMAIN tokens : TokenExpires(x)
      \/ \E r \in Requests : OpenCommit(r)
      \/ \E c \in Classes, p \in Professors : IssueSubstitute(c, p)
  <2>1. CASE Clock \/ Job \/ Crash \/ UNCHANGED vars
    BY <2>1 DEF Clock, ClassOpens, ClassOverdue, Job, FlagClass, JobTick, JobFlagMined,
         JobFlagRefused, JobFlagUnconfirmed, JobFlagRaises, JobCommit, JobCommitFails,
         Crash, vars
  <2>2. CASE Handlers
    BY <2>2 DEF Handlers, StartChecks, RedeemChecks, BeginOpening, ScanChecks, ZeroChecks,
         BeginAnchor, EndSession
  <2>3. ASSUME NEW r \in Requests, Thread(r)
        PROVE  tokens' = tokens \/ OpenCommit(r)
    BY <2>3 DEF Thread, ReadAttendanceSessions, ReadWorkloadSessions, OpenFails,
         AnchorMined, AnchorRefused, AnchorUnconfirmed, AnchorMinedThenRaises,
         AnchorCommit, AnchorCommitFails
  <2>4. ASSUME NEW tx \in pending, MinePending(tx)
        PROVE  tokens' = tokens
    BY <2>4 DEF MinePending
  <2> QED
    BY <2>1, <2>2, <2>3, <2>4 DEF Next
<1> QED
  BY <1>1, <1>2, <1>3, <1>4

LEMMA MayConductLasts ==
  ASSUME TypeOK, [Next]_vars, NEW p, NEW c, MayConduct(p, c)
  PROVE  MayConduct(p, c)'
BY TokensKept DEF MayConduct

\* A row is added by a request that anchored its outcome, or by the job.
LEMMA RowEffect ==
  ASSUME TypeOK, [Next]_vars
  PROVE  sessionLogs' = sessionLogs \/ JobCommit \/ \E r \in Requests : AnchorCommit(r)
<1>1. CASE Clock \/ Job \/ Crash \/ UNCHANGED vars
  BY <1>1 DEF Clock, ClassOpens, ClassOverdue, TokenExpires, Job, FlagClass, JobTick,
       JobFlagMined, JobFlagRefused, JobFlagUnconfirmed, JobFlagRaises, JobCommitFails,
       Crash, vars
<1>2. CASE Handlers
  BY <1>2 DEF Handlers, StartChecks, RedeemChecks, BeginOpening, ScanChecks, ZeroChecks,
       BeginAnchor, IssueSubstitute, EndSession
<1>3. ASSUME NEW r \in Requests, Thread(r)
      PROVE  sessionLogs' = sessionLogs \/ AnchorCommit(r)
  BY <1>3 DEF Thread, ReadAttendanceSessions, ReadWorkloadSessions, OpenCommit, OpenFails,
       AnchorMined, AnchorRefused, AnchorUnconfirmed, AnchorMinedThenRaises,
       AnchorCommitFails
<1>4. ASSUME NEW tx \in pending, MinePending(tx)
      PROVE  sessionLogs' = sessionLogs
  BY <1>4 DEF MinePending
<1> QED
  BY <1>1, <1>2, <1>3, <1>4 DEF Next

LEMMA AuthSessions ==
  ASSUME TypeOK, AuthInv, [Next]_vars, NEW s \in DOMAIN sessions'
  PROVE  MayConduct(sessions[s].conductor, sessions[s].class)'
<1>1. CASE s \in DOMAIN sessions
  <2>1. MayConduct(sessions[s].conductor, sessions[s].class)
    BY <1>1 DEF AuthInv, ConductorAuthorised, MayConduct
  <2>2. MayConduct(sessions[s].conductor, sessions[s].class)
           => \/ sessions[s].conductor = Primary[sessions[s].class]
              \/ \E t \in DOMAIN tokens' :
                    /\ tokens'[t].class = sessions[s].class
                    /\ tokens'[t].substitute = sessions[s].conductor
                    /\ tokens'[t].redeemed
    BY TokensKept DEF MayConduct
  <2> QED
    BY <1>1, <2>1, <2>2, SessionsKept DEF MayConduct
<1>2. ASSUME NEW r \in Requests, OpenCommit(r), s \notin DOMAIN sessions
      PROVE  MayConduct(sessions[s].conductor, sessions[s].class)'
  <2>1. sessions'[s] = NewSession(r)
    BY <1>2, OpenEffect
  <2>2. sessions'[s].class = req[r].class /\ sessions'[s].conductor = req[r].conductor
    BY <2>1 DEF NewSession
  <2>3. Opening(r) /\ MayOpen(r)
    BY <1>2 DEF OpenCommit, Opening, AuthInv
  <2>4. CASE req[r].conductor = Primary[req[r].class]
    BY <2>2, <2>4 DEF MayConduct
  <2>5. ASSUME req[r].token \in DOMAIN tokens,
               tokens[req[r].token].class = req[r].class,
               tokens[req[r].token].substitute = req[r].conductor
        PROVE  MayConduct(sessions[s].conductor, sessions[s].class)'
    <3>1. tokens[req[r].token] \in Token
      BY <2>5, TokenRows
    <3>2. /\ req[r].token \in DOMAIN tokens'
          /\ tokens'[req[r].token] = [tokens[req[r].token] EXCEPT !.redeemed = TRUE]
      BY <1>2, <2>5 DEF OpenCommit
    <3>3. /\ tokens'[req[r].token].class = req[r].class
          /\ tokens'[req[r].token].substitute = req[r].conductor
          /\ tokens'[req[r].token].redeemed
      BY <2>5, <3>1, <3>2 DEF Token
    <3> QED
      BY <2>2, <3>2, <3>3 DEF MayConduct
  <2> QED
    BY <2>3, <2>4, <2>5 DEF MayOpen
<1>3. ASSUME NEW z \in DOMAIN sessions, EndSession(z)
      PROVE  s \in DOMAIN sessions
  BY <1>3, EndEffect
<1> QED
  BY <1>1, <1>2, <1>3, SessionEffect

LEMMA AuthRows ==
  ASSUME TypeOK, AuthInv, [Next]_vars, NEW c \in Classes, NEW i \in DOMAIN sessionLogs'[c]
  PROVE  MayConduct(sessionLogs[c][i].conductedBy, c)'
<1>0. /\ sessionLogs[c] \in Seq(Row)
      /\ DOMAIN sessionLogs[c] = 1..Len(sessionLogs[c]) /\ Len(sessionLogs[c]) \in Nat
  BY LenProperties DEF TypeOK
<1>1. ASSUME i \in DOMAIN sessionLogs[c], sessionLogs'[c][i] = sessionLogs[c][i]
      PROVE  MayConduct(sessionLogs[c][i].conductedBy, c)'
  <2>1. MayConduct(sessionLogs[c][i].conductedBy, c)
    BY <1>1 DEF AuthInv, ConductorAuthorised, MayConduct
  <2> QED
    BY <1>1, <2>1, TokensKept DEF MayConduct
<1>2. ASSUME NEW row \in Row, sessionLogs'[c] = Append(sessionLogs[c], row),
             i \notin DOMAIN sessionLogs[c] \/ sessionLogs'[c][i] # sessionLogs[c][i]
      PROVE  sessionLogs'[c][i] = row
  BY <1>0, <1>2, AppendRow
<1>3. CASE sessionLogs' = sessionLogs
  BY <1>1, <1>3
<1>4. ASSUME NEW r \in Requests, AnchorCommit(r),
             i \notin DOMAIN sessionLogs[c] \/ sessionLogs'[c][i] # sessionLogs[c][i]
      PROVE  MayConduct(sessionLogs[c][i].conductedBy, c)'
  <2>1. req[r] \in AnchorRequest /\ MayConduct(req[r].conductor, req[r].class)
    BY <1>4, RequestKinds DEF AnchorCommit, AuthInv
  <2>2. AnchoredRow(r) \in Row
    BY <2>1, PrimaryAssumption DEF AnchoredRow, AnchorRequest, Row, Statuses
  <2>3. c = req[r].class /\ sessionLogs'[c] = Append(sessionLogs[c], AnchoredRow(r))
    BY <1>4 DEF AnchorCommit, TypeOK
  <2>4. sessionLogs'[c][i] = AnchoredRow(r)
    BY <1>2, <1>4, <2>2, <2>3
  <2>5. sessionLogs'[c][i].conductedBy = req[r].conductor
    BY <2>4 DEF AnchoredRow
  <2> QED
    BY <2>1, <2>3, <2>5, TokensKept DEF MayConduct
<1>5. ASSUME JobCommit,
             i \notin DOMAIN sessionLogs[c] \/ sessionLogs'[c][i] # sessionLogs[c][i]
      PROVE  MayConduct(sessionLogs[c][i].conductedBy, c)'
  <2>1. FlaggedRow(c) \in Row
    BY PrimaryAssumption DEF FlaggedRow, Row, Statuses
  <2>2. sessionLogs'[c] = Append(sessionLogs[c], FlaggedRow(c))
    BY <1>5 DEF JobCommit
  <2>3. sessionLogs'[c][i] = FlaggedRow(c)
    BY <1>2, <1>5, <2>1, <2>2
  <2>4. sessionLogs'[c][i].conductedBy = Primary[c]
    BY <2>3 DEF FlaggedRow
  <2> QED
    BY <2>4 DEF MayConduct
<1> QED
  BY <1>1, <1>3, <1>4, <1>5, RowEffect

\* What a request passes its guards with is authorised from the start.
LEMMA AuthBegun ==
  ASSUME TypeOK, AuthInv, [Next]_vars, NEW r \in Requests,
         \/ \E c \in Classes : StartChecks(r, c)
         \/ \E t \in DOMAIN tokens : RedeemChecks(r, t)
  PROVE  req'[r].pc = "checked" /\ MayOpen(r)'
<1>1. ASSUME NEW c, NEW p, NEW t, BeginOpening(r, c, p, t)
      PROVE  /\ req'[r].pc = "checked" /\ req'[r].class = c
             /\ req'[r].conductor = p /\ req'[r].token = t
             /\ tokens' = tokens
  BY <1>1 DEF BeginOpening, TypeOK
<1>2. ASSUME NEW c \in Classes, StartChecks(r, c)
      PROVE  req'[r].pc = "checked" /\ MayOpen(r)'
  <2>1. BeginOpening(r, c, Primary[c], NoToken)
    BY <1>2 DEF StartChecks
  <2> QED
    BY <1>1, <2>1 DEF MayOpen
<1>3. ASSUME NEW t \in DOMAIN tokens, RedeemChecks(r, t)
      PROVE  req'[r].pc = "checked" /\ MayOpen(r)'
  <2>1. BeginOpening(r, tokens[t].class, tokens[t].substitute, t)
    BY <1>3 DEF RedeemChecks
  <2> QED
    BY <1>1, <2>1 DEF MayOpen
<1> QED
  BY <1>2, <1>3

\* The reads of a request that opens a session leave what it opens alone.
LEMMA ReadsKeep ==
  ASSUME TypeOK, NEW r \in Requests, ReadAttendanceSessions(r) \/ ReadWorkloadSessions(r)
  PROVE  /\ Opening(r) /\ Opening(r)'
         /\ req'[r].class = req[r].class
         /\ req'[r].conductor = req[r].conductor
         /\ req'[r].token = req[r].token
<1>1. Opening(r) /\ req[r] \in OpenRequest
  BY RequestKinds DEF ReadAttendanceSessions, ReadWorkloadSessions, Opening
<1> QED
  BY <1>1 DEF ReadAttendanceSessions, ReadWorkloadSessions, Opening, OpenRequest, TypeOK

LEMMA AuthOpening ==
  ASSUME TypeOK, AuthInv, [Next]_vars, NEW r \in Requests, Opening(r)'
  PROVE  MayOpen(r)'
<1>1. ASSUME Opening(r), req'[r].class = req[r].class,
             req'[r].conductor = req[r].conductor, req'[r].token = req[r].token
      PROVE  MayOpen(r)'
  BY <1>1, TokensKept DEF AuthInv, MayOpen
<1>2. CASE req'[r] = req[r]
  BY <1>1, <1>2 DEF Opening
<1>3. CASE ReadAttendanceSessions(r) \/ ReadWorkloadSessions(r)
  BY <1>1, <1>3, ReadsKeep
<1>4. ~(req'[r] = IdleRequest)
  BY DEF IdleRequest, Opening
<1>5. ASSUME NEW s \in DOMAIN sessions, ScanChecks(r, s) \/ ZeroChecks(r, s)
      PROVE  FALSE
  BY <1>5 DEF ScanChecks, ZeroChecks, BeginAnchor, Opening, TypeOK
<1>6. ~AnchorMined(r)
  BY RequestKinds DEF AnchorMined, AnchorRequest, Opening, TypeOK
<1> QED
  BY <1>2, <1>3, <1>4, <1>5, <1>6, AuthBegun, RequestEffect

LEMMA AuthAnchoring ==
  ASSUME TypeOK, AuthInv, [Next]_vars, NEW r \in Requests,
         req'[r].pc \in {"anchor", "anchored"}
  PROVE  MayConduct(req[r].conductor, req[r].class)'
<1>1. ASSUME req[r].pc \in {"anchor", "anchored"}, req'[r].class = req[r].class,
             req'[r].conductor = req[r].conductor
      PROVE  MayConduct(req[r].conductor, req[r].class)'
  BY <1>1, TokensKept DEF AuthInv, MayConduct
<1>2. CASE req'[r] = req[r]
  BY <1>1, <1>2
<1>3. CASE AnchorMined(r)
  <2>1. req[r].pc = "anchor" /\ req[r] \in AnchorRequest
    BY <1>3, RequestKinds DEF AnchorMined
  <2>2. req'[r].class = req[r].class /\ req'[r].conductor = req[r].conductor
    BY <1>3, <2>1 DEF AnchorMined, AnchorRequest, TypeOK
  <2> QED
    BY <1>1, <2>1, <2>2
<1>4. ASSUME NEW s \in DOMAIN sessions, ScanChecks(r, s) \/ ZeroChecks(r, s)
      PROVE  MayConduct(req[r].conductor, req[r].class)'
  <2>1. /\ req'[r].class = sessions[s].class
        /\ req'[r].conductor = sessions[s].conductor
    BY <1>4 DEF ScanChecks, ZeroChecks, BeginAnchor, TypeOK
  <2>2. MayConduct(sessions[s].conductor, sessions[s].class)
    BY DEF AuthInv, ConductorAuthorised, MayConduct
  <2> QED
    BY <2>1, <2>2, TokensKept DEF MayConduct
<1>5. ~(req'[r] = IdleRequest)
  BY DEF IdleRequest
<1>6. ~(ReadAttendanceSessions(r) \/ ReadWorkloadSessions(r))
  BY ReadsKeep DEF Opening
<1> QED
  BY <1>2, <1>3, <1>4, <1>5, <1>6, AuthBegun, RequestEffect

LEMMA AuthNext == TypeOK /\ AuthInv /\ [Next]_vars => AuthInv'
<1> SUFFICES ASSUME TypeOK, AuthInv, [Next]_vars
             PROVE  AuthInv'
  OBVIOUS
<1>1. ConductorAuthorised'
  BY AuthSessions, AuthRows DEF ConductorAuthorised, MayConduct
<1> QED
  BY <1>1, AuthOpening, AuthAnchoring DEF AuthInv

\* Nobody conducts a class, or is recorded as having conducted it, who is not
\* its professor or the substitute of a token redeemed for that class.
THEOREM ConductorsAreAuthorised == Spec => []ConductorAuthorised
<1>1. Init => AuthInv
  BY AuthInit
<1>2. TypeOK /\ AuthInv /\ [Next]_vars => AuthInv'
  BY AuthNext
<1>3. AuthInv => ConductorAuthorised
  BY DEF AuthInv
<1> QED
  BY <1>1, <1>2, <1>3, TypeCorrect, PTL DEF Spec

-----------------------------------------------------------------------------
(* The newest session of a class *)

\* What a request is about to close belongs to the class it opens.
LiveInv ==
    /\ NewestSessionLive
    /\ \A r \in Requests : Opening(r) =>
          \A s \in req[r].prevAtt \cup req[r].prevWl :
              s \in DOMAIN sessions /\ sessions[s].class = req[r].class

LEMMA LiveInit == Init => LiveInv
BY DEF Init, LiveInv, NewestSessionLive, IdleRequest, Opening

LEMMA LiveEnd ==
  ASSUME TypeOK, LiveInv, NEW z \in DOMAIN sessions, EndSession(z)
  PROVE  NewestSessionLive'
<1> SUFFICES ASSUME NEW s \in DOMAIN sessions',
                    \A k \in DOMAIN sessions' :
                        sessions'[k].class = sessions'[s].class => k <= s
             PROVE  /\ sessions'[s].wlActive
                    /\ sessions'[s].attActive <=> ~sessions'[s].ended
  BY DEF NewestSessionLive
<1>1. /\ s \in DOMAIN sessions
      /\ \A k \in DOMAIN sessions : /\ sessions[k] \in Session
                                    /\ sessions'[k].class = sessions[k].class
  BY EndEffect, SessionRows DEF Session
<1>2. sessions[s].wlActive /\ (sessions[s].attActive <=> ~sessions[s].ended)
  BY <1>1, EndEffect DEF LiveInv, NewestSessionLive
<1>3. CASE s = z
  <2>1. /\ sessions[s] \in Session
        /\ sessions'[s] = [sessions[s] EXCEPT !.attActive = FALSE, !.ended = TRUE]
    BY <1>1, <1>3, EndEffect
  <2>2. /\ sessions'[s].wlActive = sessions[s].wlActive
        /\ sessions'[s].attActive = FALSE
        /\ sessions'[s].ended = TRUE
    BY <2>1 DEF Session
  <2> QED
    BY <1>2, <2>2
<1>4. CASE s # z
  BY <1>1, <1>2, <1>4, EndEffect
<1> QED
  BY <1>3, <1>4

LEMMA LiveOpen ==
  ASSUME TypeOK, LiveInv, NEW r \in Requests, OpenCommit(r)
  PROVE  NewestSessionLive'
<1> DEFINE n == Len(sessions) + 1
<1> SUFFICES ASSUME NEW s \in DOMAIN sessions',
                    \A k \in DOMAIN sessions' :
                        sessions'[k].class = sessions'[s].class => k <= s
             PROVE  /\ sessions'[s].wlActive
                    /\ sessions'[s].attActive <=> ~sessions'[s].ended
  BY DEF NewestSessionLive
<1>0. /\ DOMAIN sessions' = DOMAIN sessions \cup {n}
      /\ sessions'[n] = NewSession(r)
      /\ \A k \in DOMAIN sessions : /\ sessions'[k] = Deactivated(k, r)
                                    /\ sessions[k] \in Session
                                    /\ k \in Nat /\ k < n
  <2>1. /\ DOMAIN sessions' = DOMAIN sessions \cup {n}
        /\ sessions'[n] = NewSession(r)
        /\ \A k \in DOMAIN sessions : sessions'[k] = Deactivated(k, r) /\ k < n
    BY OpenEffect
  <2>2. \A k \in DOMAIN sessions : sessions[k] \in Session /\ k \in Nat
    BY SessionRows
  <2> QED
    BY <2>1, <2>2
<1> n \in Nat
  BY SessionRows
<1> HIDE DEF n
<1>1. CASE s = n
  BY <1>0, <1>1 DEF NewSession
<1>2. CASE s \in DOMAIN sessions
  <2>1. /\ n \in DOMAIN sessions'
        /\ sessions'[n].class = req[r].class
        /\ ~(n <= s)
    BY <1>0, <1>2 DEF NewSession
  <2>2. \A k \in DOMAIN sessions : /\ k \in DOMAIN sessions'
                                   /\ sessions[k] \in Session
                                   /\ sessions'[k] = Deactivated(k, r)
                                   /\ sessions'[k].class = sessions[k].class
    BY <1>0 DEF Deactivated, Session
  <2>3. sessions[s].class # req[r].class
    BY <1>2, <2>1, <2>2
  <2>4. s \notin req[r].prevAtt /\ s \notin req[r].prevWl
    BY <2>3 DEF LiveInv, OpenCommit, Opening
  <2>5. /\ sessions'[s].wlActive <=> sessions[s].wlActive
        /\ sessions'[s].attActive <=> sessions[s].attActive
        /\ sessions'[s].ended <=> sessions[s].ended
    BY <1>2, <2>2, <2>4 DEF Deactivated, Session
  <2>6. sessions[s].wlActive /\ (sessions[s].attActive <=> ~sessions[s].ended)
    BY <1>2, <2>2 DEF LiveInv, NewestSessionLive
  <2> QED
    BY <2>5, <2>6
<1> QED
  BY <1>0, <1>1, <1>2

LEMMA LiveClosing ==
  ASSUME TypeOK, LiveInv, [Next]_vars, NEW r \in Requests, Opening(r)',
         NEW s \in req'[r].prevAtt \cup req'[r].prevWl
  PROVE  s \in DOMAIN sessions' /\ sessions'[s].class = req'[r].class
<1>1. ASSUME s \in DOMAIN sessions, sessions[s].class = req'[r].class
      PROVE  s \in DOMAIN sessions' /\ sessions'[s].class = req'[r].class
  BY <1>1, SessionsKept
<1>2. CASE req'[r] = req[r]
  BY <1>1, <1>2 DEF LiveInv, Opening
<1>3. CASE ReadAttendanceSessions(r) \/ ReadWorkloadSessions(r)
  <2>1. Opening(r) /\ req[r] \in OpenRequest /\ req'[r].class = req[r].class
    BY <1>3, ReadsKeep, RequestKinds
  <2>2. CASE s \in req[r].prevAtt \cup req[r].prevWl
    BY <1>1, <2>1, <2>2 DEF LiveInv
  <2>3. CASE s \notin req[r].prevAtt \cup req[r].prevWl
    <3>1. ASSUME ReadAttendanceSessions(r)
          PROVE  s \in DOMAIN sessions /\ sessions[s].class = req[r].class
      <4>1. req'[r] = [req[r] EXCEPT !.pc = "attRead",
                                     !.prevAtt = {z \in DOMAIN sessions :
                                             /\ sessions[z].class = req[r].class
                                             /\ sessions[z].attActive}]
        BY <3>1 DEF ReadAttendanceSessions, TypeOK
      <4>2. /\ req'[r].prevWl = req[r].prevWl
            /\ req'[r].prevAtt = {z \in DOMAIN sessions :
                                     /\ sessions[z].class = req[r].class
                                     /\ sessions[z].attActive}
        BY <2>1, <4>1 DEF OpenRequest
      <4> QED
        BY <2>3, <4>2
    <3>2. ASSUME ReadWorkloadSessions(r)
          PROVE  s \in DOMAIN sessions /\ sessions[s].class = req[r].class
      <4>1. req'[r] = [req[r] EXCEPT !.pc = "wlRead",
                                     !.prevWl = {z \in DOMAIN sessions :
                                             /\ sessions[z].class = req[r].class
                                             /\ sessions[z].wlActive}]
        BY <3>2 DEF ReadWorkloadSessions, TypeOK
      <4>2. /\ req'[r].prevAtt = req[r].prevAtt
            /\ req'[r].prevWl = {z \in DOMAIN sessions :
                                    /\ sessions[z].class = req[r].class
                                    /\ sessions[z].wlActive}
        BY <2>1, <4>1 DEF OpenRequest
      <4> QED
        BY <2>3, <4>2
    <3> QED
      BY <1>1, <1>3, <2>1, <3>1, <3>2
  <2> QED
    BY <2>2, <2>3
<1>4. ASSUME NEW c, NEW p, NEW t, BeginOpening(r, c, p, t)
      PROVE  FALSE
  BY <1>4 DEF BeginOpening, TypeOK
<1>5. ~(\E c \in Classes : StartChecks(r, c))
  BY <1>4 DEF StartChecks
<1>6. ~(\E t \in DOMAIN tokens : RedeemChecks(r, t))
  BY <1>4 DEF RedeemChecks
<1>7. ASSUME NEW z \in DOMAIN sessions, ScanChecks(r, z) \/ ZeroChecks(r, z)
      PROVE  FALSE
  BY <1>7 DEF ScanChecks, ZeroChecks, BeginAnchor, Opening, TypeOK
<1>8. ~(req'[r] = IdleRequest)
  BY DEF IdleRequest, Opening
<1>9. ~AnchorMined(r)
  BY RequestKinds DEF AnchorMined, AnchorRequest, Opening, TypeOK
<1> QED
  BY <1>2, <1>3, <1>5, <1>6, <1>7, <1>8, <1>9, RequestEffect

LEMMA LiveNext == TypeOK /\ LiveInv /\ [Next]_vars => LiveInv'
<1> SUFFICES ASSUME TypeOK, LiveInv, [Next]_vars
             PROVE  LiveInv'
  OBVIOUS
<1>1. NewestSessionLive'
  BY LiveEnd, LiveOpen, SessionEffect DEF LiveInv, NewestSessionLive
<1> QED
  BY <1>1, LiveClosing DEF LiveInv

\* Whichever order two openings of a class read and commit in, and whatever
\* the database locks let through, the class's newest session is the one open
\* to scans and to a zero-attendance declaration until its conductor ends it.
THEOREM NewestSessionIsLive == Spec => []NewestSessionLive
<1>1. Init => LiveInv
  BY LiveInit
<1>2. TypeOK /\ LiveInv /\ [Next]_vars => LiveInv'
  BY LiveNext
<1>3. LiveInv => NewestSessionLive
  BY DEF LiveInv
<1> QED
  BY <1>1, <1>2, <1>3, TypeCorrect, PTL DEF Spec
=============================================================================
