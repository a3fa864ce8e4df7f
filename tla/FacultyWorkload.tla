--------------------------- MODULE FacultyWorkload ---------------------------
(***************************************************************************)
(* The faculty workload module of the backend: the /faculty endpoints      *)
(* (app/api/faculty.py), the auto-flag job (app/scheduler.py), the tables  *)
(* of app/models/workload.py and the WorkloadLedger contract they write.   *)
(*                                                                         *)
(* Every endpoint runs in a thread of its own and the job in another; each *)
(* is split at the points where another thread can get in between: after   *)
(* the reads that guard it, around the chain transaction, and before the   *)
(* commit.  The chain is written BEFORE the database ("a failed            *)
(* transaction must never leave a local row behind").                      *)
(***************************************************************************)
EXTENDS Naturals, Sequences, FiniteSets

CONSTANTS
    Classes,       \* ScheduledClass rows
    Professors,    \* users with the FACULTY role
    NoProfessor,   \* professor id 0
    Primary,       \* Primary[c] = ScheduledClass.professor_id
    Requests,      \* request threads of the server
    MaxSessions,   \* bound: sessions ever opened
    MaxTokens,     \* bound: substitute tokens ever issued
    SingleWriter,  \* TRUE: SQLite (one writer at a time); FALSE: PostgreSQL
    Faults         \* which of AllFaults may happen

AllFaults == {"chain",    \* node down, nonce clash: the transaction is not accepted
              "receipt",  \* no receipt within 30s: the transaction may be mined later
              "block",    \* get_block raises after the receipt arrived
              "commit",   \* the database refuses the commit
              "crash"}    \* the server process dies and is restarted

ASSUME PrimaryAssumption == Primary \in [Classes -> Professors]
ASSUME NoProfessorAssumption == NoProfessor \notin Professors
ASSUME BoundAssumption == MaxSessions \in Nat /\ MaxTokens \in Nat
ASSUME FaultAssumption == Faults \subseteq AllFaults /\ SingleWriter \in BOOLEAN

VARIABLES
    logged, logs,  \* the WorkloadLedger contract
    pending,       \* logWorkload transactions sent but not mined
    phase,         \* where the clock stands with respect to a class's start
    sessions,      \* attendance_sessions joined with workload_sessions
    tokens,        \* substitute_tokens
    sessionLogs,   \* session_logs rows of each class, oldest first
    req,           \* the request threads
    job            \* the auto-flag job

chainVars == <<logged, logs, pending>>
vars == <<logged, logs, pending, phase, sessions, tokens, sessionLogs, req, job>>

Conducted == "CONDUCTED"
ZeroStudents == "CONDUCTED_ZERO_STUDENTS"
Unconducted == "UNCONDUCTED"
Statuses == {Conducted, ZeroStudents, Unconducted}

\* The backend signer deployed the ledger, so it is its admin, and the deploy
\* script granted it BACKEND_ROLE; nothing in the backend changes roles.
Signer == "backend"
ChainRoles == [role \in {"DEFAULT_ADMIN_ROLE", "BACKEND_ROLE"} |-> {Signer}]

Ledger == INSTANCE WorkloadLedger WITH
    Accounts <- {Signer}, Admin <- Signer, roles <- ChainRoles

(***************************************************************************)
(* Rows and threads                                                        *)
(***************************************************************************)

NoToken == 0

\* An AttendanceSession and the WorkloadSession created with it.  Each has an
\* is_active flag of its own.  `token` records which token opened the session
\* (NoToken: /faculty/session/start); the code does not store it.
Session == [class : Classes, conductor : Professors, attActive : BOOLEAN,
            wlActive : BOOLEAN, ended : BOOLEAN, token : Nat]

Token == [class : Classes, substitute : Professors, redeemed : BOOLEAN,
          expired : BOOLEAN]

Row == [status : Statuses, professor : Professors, conductedBy : Professors]

Tx == [class : Classes, professor : Professors, status : Statuses]

IdleRequest == [pc |-> "idle"]

\* A request that opens a session (start, redeem) and one that anchors an
\* outcome (scan, zero-attendance).
OpenRequest == [pc : {"checked", "attRead", "wlRead"}, class : Classes,
                conductor : Professors, token : Nat,
                prevAtt : SUBSET Nat, prevWl : SUBSET Nat]
AnchorRequest == [pc : {"anchor", "anchored"}, class : Classes,
                  conductor : Professors, status : {Conducted, ZeroStudents}]

IdleJob == [running |-> FALSE, todo |-> {}, added |-> {}]

TypeOK ==
    /\ logged \in [Classes -> BOOLEAN]
    /\ logs \in [Classes -> Ledger!Entry \cup {Ledger!ZeroEntry}]
    /\ pending \in SUBSET Tx
    /\ phase \in [Classes -> {"early", "open", "overdue"}]
    /\ sessions \in Seq(Session)
    /\ tokens \in Seq(Token)
    /\ sessionLogs \in [Classes -> Seq(Row)]
    /\ req \in [Requests -> {IdleRequest} \cup OpenRequest \cup AnchorRequest]
    /\ job \in [running : BOOLEAN, todo : SUBSET Classes, added : SUBSET Classes]

Init ==
    /\ logged = [c \in Classes |-> FALSE]
    /\ logs = [c \in Classes |-> Ledger!ZeroEntry]
    /\ pending = {}
    /\ phase = [c \in Classes |-> "early"]
    /\ sessions = <<>>
    /\ tokens = <<>>
    /\ sessionLogs = [c \in Classes |-> <<>>]
    /\ req = [r \in Requests |-> IdleRequest]
    /\ job = IdleJob

Finish(r) == req' = [req EXCEPT ![r] = IdleRequest]

Opening(r) == req[r].pc \in {"checked", "attRead", "wlRead"}

(***************************************************************************)
(* The database's write lock.  A request that opens a session flushes      *)
(* before it commits: the token row when the attendance sessions are       *)
(* queried, the old attendance rows when the workload sessions are.  From  *)
(* then to its commit SQLite lets no other thread write; PostgreSQL only   *)
(* blocks threads that update the same rows.                               *)
(***************************************************************************)

Flushed(r) ==
    /\ Opening(r)
    /\ \/ req[r].pc # "checked" /\ req[r].token # NoToken
       \/ req[r].pc = "wlRead" /\ req[r].prevAtt # {}

SameRows(r, q) ==
    \/ req[r].token # NoToken /\ req[r].token = req[q].token
    \/ req[q].pc = "wlRead" /\ req[r].prevAtt \cap req[q].prevAtt # {}

\* r, which opens a session, may send its next UPDATE or INSERT.
CanFlush(r) ==
    \A q \in Requests \ {r} : Flushed(q) => ~SingleWriter /\ ~SameRows(r, q)

\* A thread that only touches rows no opening request updates may commit.
CanCommit == SingleWriter => \A q \in Requests : ~Flushed(q)

(***************************************************************************)
(* The clock                                                               *)
(***************************************************************************)

\* start_gate lets the class start: start_time - SESSION_START_GRACE_MINUTES.
ClassOpens(c) ==
    /\ phase[c] = "early"
    /\ phase' = [phase EXCEPT ![c] = "open"]
    /\ UNCHANGED <<chainVars, sessions, tokens, sessionLogs, req, job>>

\* start_time + UNCONDUCTED_THRESHOLD_MINUTES has passed.
ClassOverdue(c) ==
    /\ phase[c] = "open"
    /\ phase' = [phase EXCEPT ![c] = "overdue"]
    /\ UNCHANGED <<chainVars, sessions, tokens, sessionLogs, req, job>>

TokenExpires(t) ==
    /\ t \in DOMAIN tokens /\ ~tokens[t].expired
    /\ tokens' = [tokens EXCEPT ![t].expired = TRUE]
    /\ UNCHANGED <<chainVars, phase, sessions, sessionLogs, req, job>>

StartGate(c) == phase[c] # "early"

(***************************************************************************)
(* POST /faculty/session/start and /faculty/substitute/redeem: both open a *)
(* session with _start_live_session; they differ in their guards and in    *)
(* the token redeem marks in the same commit.                              *)
(***************************************************************************)

BeginOpening(r, c, p, t) ==
    /\ Len(sessions) + Cardinality({q \in Requests : Opening(q)}) < MaxSessions
    /\ req' = [req EXCEPT ![r] = [pc |-> "checked", class |-> c, conductor |-> p,
                                  token |-> t, prevAtt |-> {}, prevWl |-> {}]]
    /\ UNCHANGED <<chainVars, phase, sessions, tokens, sessionLogs, job>>

\* The caller is the class's professor (403 not_class_professor otherwise).
StartChecks(r, c) ==
    /\ req[r].pc = "idle"
    /\ sessionLogs[c] = <<>>       \* 409 class_already_logged
    /\ StartGate(c)
    /\ BeginOpening(r, c, Primary[c], NoToken)

\* A redeem that forgets who the token was issued for.
RedeemChecksAnyFaculty(r, t) ==
    /\ req[r].pc = "idle"
    /\ t \in DOMAIN tokens /\ ~tokens[t].expired /\ ~tokens[t].redeemed
    /\ sessionLogs[tokens[t].class] = <<>>
    /\ StartGate(tokens[t].class)
    /\ \E p \in Professors : BeginOpening(r, tokens[t].class, p, t)

\* Only the named substitute passes the substitute_mismatch check.
RedeemChecks(r, t) ==
    /\ req[r].pc = "idle"
    /\ t \in DOMAIN tokens
    /\ ~tokens[t].expired          \* verify(): substitute_token_expired
    /\ ~tokens[t].redeemed         \* 409 token_already_redeemed
    /\ sessionLogs[tokens[t].class] = <<>>
    /\ StartGate(tokens[t].class)
    /\ BeginOpening(r, tokens[t].class, tokens[t].substitute, t)

\* The query for the class's active attendance sessions.  A redeem has a dirty
\* token row by now, which the query flushes first.
ReadAttendanceSessions(r) ==
    /\ req[r].pc = "checked"
    /\ req[r].token # NoToken => CanFlush(r)
    /\ req' = [req EXCEPT ![r].pc = "attRead",
                          ![r].prevAtt = {s \in DOMAIN sessions :
                                             /\ sessions[s].class = req[r].class
                                             /\ sessions[s].attActive}]
    /\ UNCHANGED <<chainVars, phase, sessions, tokens, sessionLogs, job>>

\* The same for its active workload sessions; the old attendance rows are
\* dirty now.
ReadWorkloadSessions(r) ==
    /\ req[r].pc = "attRead"
    /\ req[r].prevAtt # {} \/ req[r].token # NoToken => CanFlush(r)
    /\ req' = [req EXCEPT ![r].pc = "wlRead",
                          ![r].prevWl = {s \in DOMAIN sessions :
                                            /\ sessions[s].class = req[r].class
                                            /\ sessions[s].wlActive}]
    /\ UNCHANGED <<chainVars, phase, sessions, tokens, sessionLogs, job>>

NewSession(r) ==
    [class |-> req[r].class, conductor |-> req[r].conductor, attActive |-> TRUE,
     wlActive |-> TRUE, ended |-> FALSE, token |-> req[r].token]

Deactivated(s, r) ==
    [sessions[s] EXCEPT !.attActive = @ /\ s \notin req[r].prevAtt,
                        !.wlActive = @ /\ s \notin req[r].prevWl]

\* The rows created first and every active row of the class closed afterwards.
OpenedClosingLast(r) ==
    Append([s \in DOMAIN sessions |-> Deactivated(s, r)],
           [NewSession(r) EXCEPT !.attActive = FALSE, !.wlActive = FALSE])

Opened(r) ==
    Append([s \in DOMAIN sessions |-> Deactivated(s, r)], NewSession(r))

OpenCommit(r) ==
    /\ req[r].pc = "wlRead"
    /\ CanFlush(r)
    /\ sessions' = Opened(r)
    /\ tokens' = [t \in DOMAIN tokens |->
                     IF t = req[r].token THEN [tokens[t] EXCEPT !.redeemed = TRUE]
                                         ELSE tokens[t]]
    /\ Finish(r)
    /\ UNCHANGED <<chainVars, phase, sessionLogs, job>>

\* The commit fails, or the wait for the write lock runs out: rolled back.
OpenFails(r) ==
    /\ "commit" \in Faults
    /\ req[r].pc = "wlRead"
    /\ Finish(r)
    /\ UNCHANGED <<chainVars, phase, sessions, tokens, sessionLogs, job>>

(***************************************************************************)
(* POST /faculty/substitute/issue: the primary professor names a FACULTY   *)
(* user other than itself.  Its guards read only rows that never change    *)
(* while the class exists, so the whole handler is one step.               *)
(***************************************************************************)

IssueSubstitute(c, substitute) ==
    /\ Len(tokens) < MaxTokens
    /\ CanCommit
    /\ substitute # Primary[c]     \* 400 invalid_substitute
    /\ tokens' = Append(tokens, [class |-> c, substitute |-> substitute,
                                 redeemed |-> FALSE, expired |-> FALSE])
    /\ UNCHANGED <<chainVars, phase, sessions, sessionLogs, req, job>>

\* POST /session/<id>/end by the session's conductor (sessions.py): only the
\* attendance row is closed; the WorkloadSession row stays active.
EndSession(s) ==
    /\ s \in DOMAIN sessions /\ ~sessions[s].ended
    /\ CanCommit
    /\ sessions' = [sessions EXCEPT ![s].attActive = FALSE, ![s].ended = TRUE]
    /\ UNCHANGED <<chainVars, phase, tokens, sessionLogs, req, job>>

(***************************************************************************)
(* POST /faculty/session/scan and /faculty/session/zero-attendance: read,  *)
(* anchor on the chain, then add the SessionLog row.                       *)
(***************************************************************************)

BeginAnchor(r, s, status) ==
    /\ sessionLogs[sessions[s].class] = <<>>
    /\ req' = [req EXCEPT ![r] = [pc |-> "anchor", class |-> sessions[s].class,
                                  conductor |-> sessions[s].conductor,
                                  status |-> status]]
    /\ UNCHANGED <<chainVars, phase, sessions, tokens, sessionLogs, job>>

\* A student presents the current, unexpired nonce of session s.
ScanChecks(r, s) ==
    /\ req[r].pc = "idle"
    /\ s \in DOMAIN sessions
    /\ sessions[s].attActive       \* 409 session_inactive
    /\ BeginAnchor(r, s, Conducted)

\* The conductor declares zero attendance.  `.first()` names no order, so any
\* active WorkloadSession of the class may be the one found.
ZeroChecks(r, s) ==
    /\ req[r].pc = "idle"
    /\ s \in DOMAIN sessions
    /\ sessions[s].wlActive        \* 409 session_not_started
    /\ sessions[s].attActive       \* 409 session_inactive
    /\ BeginAnchor(r, s, ZeroStudents)

\* logWorkload is mined.
Mine(c, p, status) == Ledger!LogWorkload(Signer, c, p, status)

\* Credit goes to the scheduled professor, whoever conducted (decision D1).
AnchorMined(r) ==
    /\ req[r].pc = "anchor"
    /\ Mine(req[r].class, Primary[req[r].class], req[r].status)
    /\ req' = [req EXCEPT ![r].pc = "anchored"]
    /\ UNCHANGED <<pending, phase, sessions, tokens, sessionLogs, job>>

\* A handler that takes "already logged" for success and goes on.
AnchorRefusedIgnored(r) ==
    /\ req[r].pc = "anchor"
    /\ logged[req[r].class]
    /\ req' = [req EXCEPT ![r].pc = "anchored"]
    /\ UNCHANGED <<chainVars, phase, sessions, tokens, sessionLogs, job>>

\* estimate_gas or the transaction reverts with WorkloadAlreadyLogged, or the
\* transaction is not accepted at all: a WorkloadError, no row.
AnchorRefused(r) ==
    /\ req[r].pc = "anchor"
    /\ logged[req[r].class] \/ "chain" \in Faults
    /\ Finish(r)
    /\ UNCHANGED <<chainVars, phase, sessions, tokens, sessionLogs, job>>

\* The receipt does not come within 30 seconds: the same WorkloadError, but
\* the transaction is out and may still be mined.
AnchorUnconfirmed(r) ==
    /\ "receipt" \in Faults
    /\ req[r].pc = "anchor" /\ ~logged[req[r].class]
    /\ pending' = pending \cup {[class |-> req[r].class,
                                 professor |-> Primary[req[r].class],
                                 status |-> req[r].status]}
    /\ Finish(r)
    /\ UNCHANGED <<logged, logs, phase, sessions, tokens, sessionLogs, job>>

\* Mined, but the get_block after the receipt raises: an unhandled exception.
AnchorMinedThenRaises(r) ==
    /\ "block" \in Faults
    /\ req[r].pc = "anchor"
    /\ Mine(req[r].class, Primary[req[r].class], req[r].status)
    /\ Finish(r)
    /\ UNCHANGED <<pending, phase, sessions, tokens, sessionLogs, job>>

\* A row that credits the conductor instead of the scheduled professor.
AnchoredRowCreditsConductor(r) ==
    [status |-> req[r].status, professor |-> req[r].conductor,
     conductedBy |-> req[r].conductor]

AnchoredRow(r) ==
    [status |-> req[r].status, professor |-> Primary[req[r].class],
     conductedBy |-> req[r].conductor]

AnchorCommit(r) ==
    /\ req[r].pc = "anchored"
    /\ CanCommit
    /\ sessionLogs' = [sessionLogs EXCEPT ![req[r].class] = Append(@, AnchoredRow(r))]
    /\ Finish(r)
    /\ UNCHANGED <<chainVars, phase, sessions, tokens, job>>

AnchorCommitFails(r) ==
    /\ "commit" \in Faults
    /\ req[r].pc = "anchored"
    /\ Finish(r)
    /\ UNCHANGED <<chainVars, phase, sessions, tokens, sessionLogs, job>>

\* A transaction whose sender gave up is mined, or reverts because the class
\* has an entry by now.
MinePending(tx) ==
    /\ tx \in pending
    /\ pending' = pending \ {tx}
    /\ IF logged[tx.class]
       THEN UNCHANGED <<logged, logs>>
       ELSE Mine(tx.class, tx.professor, tx.status)
    /\ UNCHANGED <<phase, sessions, tokens, sessionLogs, req, job>>

(***************************************************************************)
(* flag_unconducted_classes: one thread, never two at a time               *)
(* (max_instances=1).  The overdue list is read once; rows pile up in the  *)
(* ORM session and one commit at the end of the tick writes them all.      *)
(***************************************************************************)

\* The query without its start_time filter.
OverdueIgnoringStart == {c \in Classes : sessionLogs[c] = <<>>}

\* The query reading "no session activity" instead of "no SessionLog".
OverdueWithoutSessions ==
    {c \in Classes : /\ phase[c] = "overdue"
                     /\ sessionLogs[c] = <<>>
                     /\ \A s \in DOMAIN sessions : sessions[s].class # c}

Overdue == {c \in Classes : phase[c] = "overdue" /\ sessionLogs[c] = <<>>}

JobTick ==
    /\ ~job.running
    /\ Overdue # {}
    /\ job' = [running |-> TRUE, todo |-> Overdue, added |-> {}]
    /\ UNCHANGED <<chainVars, phase, sessions, tokens, sessionLogs, req>>

JobFlagMined(c) ==
    /\ c \in job.todo
    /\ Mine(c, Primary[c], Unconducted)
    /\ job' = [job EXCEPT !.todo = @ \ {c}, !.added = @ \cup {c}]
    /\ UNCHANGED <<pending, phase, sessions, tokens, sessionLogs, req>>

\* WorkloadError: warn and continue with the next class.
JobFlagRefused(c) ==
    /\ c \in job.todo
    /\ logged[c] \/ "chain" \in Faults
    /\ job' = [job EXCEPT !.todo = @ \ {c}]
    /\ UNCHANGED <<chainVars, phase, sessions, tokens, sessionLogs, req>>

JobFlagUnconfirmed(c) ==
    /\ "receipt" \in Faults
    /\ c \in job.todo /\ ~logged[c]
    /\ pending' = pending \cup {[class |-> c, professor |-> Primary[c],
                                 status |-> Unconducted]}
    /\ job' = [job EXCEPT !.todo = @ \ {c}]
    /\ UNCHANGED <<logged, logs, phase, sessions, tokens, sessionLogs, req>>

\* Mined, then get_block raises something other than a WorkloadError: the job
\* rolls back the rows of every class of the tick.
JobFlagRaises(c) ==
    /\ "block" \in Faults
    /\ c \in job.todo
    /\ Mine(c, Primary[c], Unconducted)
    /\ job' = IdleJob
    /\ UNCHANGED <<pending, phase, sessions, tokens, sessionLogs, req>>

FlaggedRow(c) ==
    [status |-> Unconducted, professor |-> Primary[c], conductedBy |-> Primary[c]]

JobCommit ==
    /\ job.running /\ job.todo = {}
    /\ job.added # {} => CanCommit
    /\ sessionLogs' = [c \in Classes |->
                          IF c \in job.added THEN Append(sessionLogs[c], FlaggedRow(c))
                                             ELSE sessionLogs[c]]
    /\ job' = IdleJob
    /\ UNCHANGED <<chainVars, phase, sessions, tokens, req>>

JobCommitFails ==
    /\ "commit" \in Faults
    /\ job.running /\ job.todo = {} /\ job.added # {}
    /\ job' = IdleJob
    /\ UNCHANGED <<chainVars, phase, sessions, tokens, sessionLogs, req>>

(***************************************************************************)
(* The process dies: threads and uncommitted rows are gone, the database   *)
(* and the chain (a process of its own) stay.                              *)
(***************************************************************************)

Crash ==
    /\ "crash" \in Faults
    /\ job.running \/ \E r \in Requests : req[r].pc # "idle"
    /\ req' = [r \in Requests |-> IdleRequest]
    /\ job' = IdleJob
    /\ UNCHANGED <<chainVars, phase, sessions, tokens, sessionLogs>>

(***************************************************************************)
(* The specification                                                       *)
(***************************************************************************)

Clock ==
    \/ \E c \in Classes : ClassOpens(c) \/ ClassOverdue(c)
    \/ \E t \in DOMAIN tokens : TokenExpires(t)

Handlers ==
    \/ \E r \in Requests, c \in Classes : StartChecks(r, c)
    \/ \E r \in Requests, t \in DOMAIN tokens : RedeemChecks(r, t)
    \/ \E r \in Requests, s \in DOMAIN sessions : ScanChecks(r, s) \/ ZeroChecks(r, s)
    \/ \E c \in Classes, p \in Professors : IssueSubstitute(c, p)
    \/ \E s \in DOMAIN sessions : EndSession(s)

\* What a request thread does once its guards have passed.
Thread(r) ==
    \/ ReadAttendanceSessions(r)
    \/ ReadWorkloadSessions(r)
    \/ OpenCommit(r)
    \/ OpenFails(r)
    \/ AnchorMined(r)
    \/ AnchorRefused(r)
    \/ AnchorUnconfirmed(r)
    \/ AnchorMinedThenRaises(r)
    \/ AnchorCommit(r)
    \/ AnchorCommitFails(r)

FlagClass(c) ==
    \/ JobFlagMined(c)
    \/ JobFlagRefused(c)
    \/ JobFlagUnconfirmed(c)
    \/ JobFlagRaises(c)

Job ==
    \/ JobTick
    \/ \E c \in Classes : FlagClass(c)
    \/ JobCommit
    \/ JobCommitFails

Next ==
    \/ Clock
    \/ Handlers
    \/ \E r \in Requests : Thread(r)
    \/ \E tx \in pending : MinePending(tx)
    \/ Job
    \/ Crash

Spec == Init /\ [][Next]_vars

\* Threads the operating system runs get on with their work, and the scheduler
\* keeps ticking.  A class the job goes on submitting is eventually mined: the
\* chain is not broken forever (strong, because a crash or an error between
\* two ticks disables the step again and again).
Fairness ==
    /\ \A r \in Requests : WF_vars(Thread(r))
    /\ WF_vars(Job)
    /\ \A c \in Classes : SF_vars(JobFlagMined(c))

FairSpec == Spec /\ Fairness

(***************************************************************************)
(* Properties that hold                                                    *)
(***************************************************************************)

\* The rule the chain-first order exists for (faculty.py:130-131, "a failed
\* transaction must never leave a local row behind"): every SessionLog row
\* stands for the class's on-chain entry and agrees with it, whatever thread
\* lost which race and wherever the process died.
LogMatchesLedger ==
    \A c \in Classes : \A i \in DOMAIN sessionLogs[c] :
        /\ logged[c]
        /\ logs[c] = [professor |-> sessionLogs[c][i].professor,
                      status |-> sessionLogs[c][i].status]

\* session_logs.class_id is not unique and every writer checks for a row long
\* before it inserts one; that a class still never gets two rows ("one entry
\* per class", faculty.py:184-186) rests on the contract arbitrating.
OneLogPerClass == \A c \in Classes : Len(sessionLogs[c]) <= 1

\* The inductive form of the two: a thread between its mined transaction and
\* its commit, and a class the job has anchored in this tick, hold the only
\* right to add the class's row - the entry is theirs and no row exists yet.
TicketInv ==
    /\ LogMatchesLedger
    /\ OneLogPerClass
    /\ \A r \in Requests : req[r].pc = "anchored" =>
          /\ logged[req[r].class]
          /\ logs[req[r].class] = [professor |-> Primary[req[r].class],
                                  status |-> req[r].status]
          /\ sessionLogs[req[r].class] = <<>>
          /\ req[r].class \notin job.added
          /\ \A q \in Requests \ {r} :
                req[q].pc = "anchored" => req[q].class # req[r].class
    /\ \A c \in job.added :
          /\ logged[c]
          /\ logs[c] = [professor |-> Primary[c], status |-> Unconducted]
          /\ sessionLogs[c] = <<>>

\* A session or an outcome conducted by somebody other than the scheduled
\* professor goes back to a token that professor issued for this class to
\* this very substitute, and that was redeemed (faculty.py:489-500).
ConductorAuthorised ==
    LET Authorised(p, c) ==
            \/ p = Primary[c]
            \/ \E t \in DOMAIN tokens :
                  /\ tokens[t].class = c
                  /\ tokens[t].substitute = p
                  /\ tokens[t].redeemed
    IN  /\ \A s \in DOMAIN sessions :
              Authorised(sessions[s].conductor, sessions[s].class)
        /\ \A c \in Classes : \A i \in DOMAIN sessionLogs[c] :
              Authorised(sessionLogs[c][i].conductedBy, c)

\* What the entry on the chain certifies, however late its transaction was
\* mined: a class is CONDUCTED (with or without students) only if a session of
\* it was opened, UNCONDUCTED only if its grace period ran out.
OutcomeJustified ==
    \A c \in Classes : logged[c] =>
        IF logs[c].status = Unconducted
        THEN phase[c] = "overdue"
        ELSE \E s \in DOMAIN sessions : sessions[s].class = c

\* Opening a session closes the earlier ones of the class, never itself and
\* never a later one: the newest session of a class stays open to scans and to
\* a zero-attendance declaration until its conductor ends it.
NewestSessionLive ==
    \A s \in DOMAIN sessions :
        (\A z \in DOMAIN sessions : sessions[z].class = sessions[s].class => z <= s)
            => /\ sessions[s].wlActive
               /\ sessions[s].attActive <=> ~sessions[s].ended

\* Through every race, retry, late transaction and restart, the chain keeps
\* the promise of the ledger: the first outcome anchored for a class is the
\* only one.  The backend checks its own rows, never the chain, so this rests
\* on each path reaching the chain through logWorkload's guard.
LedgerSpec == Ledger!OneEntryPerClass

\* The auto-flag's promise (scheduler.py:17-20): a class whose grace period
\* has passed ends up with an outcome on the chain, through node outages, lost
\* receipts, raised exceptions and restarts.
OverdueIsAnchored == \A c \in Classes : phase[c] = "overdue" ~> logged[c]

(***************************************************************************)
(* What comments and docstrings of the repository say, and the code does   *)
(* not do                                                                  *)
(***************************************************************************)

\* scheduler.py:85-87: a class whose transaction fails is skipped, "one bad
\* class never blocks the others" - a class the tick has anchored leaves the
\* job only with its row.
BadClassNeverBlocks ==
    [][\A c \in job.added : c \notin job'.added => sessionLogs'[c] # <<>>]_vars
=============================================================================
