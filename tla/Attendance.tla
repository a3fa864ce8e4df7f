----------------------------- MODULE Attendance -----------------------------
(***************************************************************************)
(* Attendance through the backend: the session endpoints                   *)
(* (app/api/sessions.py), the nonce rotation of app/scheduler.py, the scan *)
(* endpoint (app/api/attendance.py), the tables of app/models/session.py   *)
(* and the AttendanceLedger contract that app/services/blockchain.py       *)
(* drives.                                                                 *)
(*                                                                         *)
(* A request is split wherever another thread can get in between: after    *)
(* the reads that guard it, around each chain call and before its commit.  *)
(* Only the columns a handler has set are in its UPDATE.  A nonce is a     *)
(* number that grows with each rotation, and `fresh` says that its         *)
(* nonce_expires_at lies ahead.  The numeric code stands for the nonce it  *)
(* is derived from: two nonces never share a code here.                    *)
(***************************************************************************)
EXTENDS Naturals, Sequences

CONSTANTS
    Classes,       \* class_id values: scheduled classes and "workload-<id>"
    Students,      \* student ids
    Requests,      \* request threads of the server
    MaxSessions,   \* bound: attendance sessions ever started
    MaxRotations,  \* bound: a nonce expires this often per session
    Faults         \* which of AllFaults may happen

AllFaults == {"chain",    \* the call or transaction is not accepted
              "receipt",  \* no receipt within 30s: it may be mined later
              "block",    \* get_block fails after the receipt arrived
              "commit",   \* the database refuses the commit
              "crash"}    \* the server process dies and is restarted

ASSUME AttendanceBounds == MaxSessions \in Nat /\ MaxRotations \in Nat
ASSUME AttendanceFaults == Faults \subseteq AllFaults

VARIABLES
    locked, announced,  \* the AttendanceLedger contract
    pending,            \* transactions sent but not mined
    sessions,           \* attendance_sessions; a row's position is its id
    checkIns,           \* attendance_check_ins, by session
    req,                \* the request threads
    job                 \* rotate_expired_nonces

chainVars == <<locked, announced, pending>>
vars == <<locked, announced, pending, sessions, checkIns, req, job>>

SessionIds == 1..MaxSessions

\* deploy-attendance.js grants BACKEND_ROLE to the deployer, the backend's
\* signer, and nothing in the backend changes roles.
Signer == "deployer"
ChainRoles == [role \in {"DEFAULT_ADMIN_ROLE", "BACKEND_ROLE"} |-> {Signer}]

Ledger == INSTANCE AttendanceLedger WITH Accounts <- {Signer}, roles <- ChainRoles

Session == [class : Classes, active : BOOLEAN, ended : BOOLEAN, nonce : Nat,
            fresh : BOOLEAN]

Tx == [student : Students, session : SessionIds]

IdleRequest == [pc |-> "idle"]
StartRequest == [pc : {"start"}, class : Classes, previous : SUBSET SessionIds]
RefreshRequest == [pc : {"refresh"}, session : SessionIds]
ScanRequest == [pc : {"isLocked", "lock", "mirror"}, student : Students,
                session : SessionIds]

IdleJob == [running |-> FALSE, expired |-> {}]

TypeOK ==
    /\ locked \in [SessionIds -> SUBSET Students]
    /\ announced \in [SessionIds -> [Students -> Nat]]
    /\ pending \in SUBSET Tx
    /\ sessions \in Seq(Session) /\ Len(sessions) <= MaxSessions
    /\ checkIns \in [SessionIds -> SUBSET Students]
    /\ req \in [Requests ->
                   {IdleRequest} \cup StartRequest \cup RefreshRequest \cup ScanRequest]
    /\ job \in [running : BOOLEAN, expired : SUBSET SessionIds]

Init ==
    /\ Ledger!LedgerInit
    /\ pending = {}
    /\ sessions = <<>>
    /\ checkIns = [s \in SessionIds |-> {}]
    /\ req = [r \in Requests |-> IdleRequest]
    /\ job = IdleJob

Finish(r) == req' = [req EXCEPT ![r] = IdleRequest]

(***************************************************************************)
(* POST /session/start.  The schedule gate decides when a class may start, *)
(* not what a start does.                                                  *)
(***************************************************************************)

StartReads(r, c) ==
    /\ req[r].pc = "idle"
    /\ Len(sessions) < MaxSessions
    /\ req' = [req EXCEPT ![r] =
                  [pc |-> "start", class |-> c,
                   previous |-> {s \in DOMAIN sessions :
                                    sessions[s].class = c /\ sessions[s].active}]]
    /\ UNCHANGED <<chainVars, sessions, checkIns, job>>

NewSession(c) ==
    [class |-> c, active |-> TRUE, ended |-> FALSE, nonce |-> 0, fresh |-> TRUE]

StartCommit(r) ==
    /\ req[r].pc = "start"
    /\ Len(sessions) < MaxSessions
    /\ sessions' = Append([s \in DOMAIN sessions |->
                              [sessions[s] EXCEPT !.active = @ /\ s \notin req[r].previous]],
                          NewSession(req[r].class))
    /\ Finish(r)
    /\ UNCHANGED <<chainVars, checkIns, job>>

StartFails(r) ==
    /\ req[r].pc = "start"
    /\ "commit" \in Faults \/ Len(sessions) = MaxSessions
    /\ Finish(r)
    /\ UNCHANGED <<chainVars, sessions, checkIns, job>>

(***************************************************************************)
(* POST /session/<id>/end, by its conductor.  One step: whatever changes   *)
(* between its read and its commit, it sets the same two columns.          *)
(***************************************************************************)

\* An end that closes by class.
EndByClass(s) ==
    /\ s \in DOMAIN sessions
    /\ ~sessions[s].ended
    /\ sessions' = [z \in DOMAIN sessions |->
                       [sessions[z] EXCEPT
                           !.active = @ /\ sessions[z].class # sessions[s].class,
                           !.ended = @ \/ z = s]]
    /\ UNCHANGED <<chainVars, checkIns, req, job>>

End(s) ==
    /\ s \in DOMAIN sessions
    /\ ~sessions[s].ended     \* ending twice is a no-op
    /\ sessions' = [sessions EXCEPT ![s].active = FALSE, ![s].ended = TRUE]
    /\ UNCHANGED <<chainVars, checkIns, req, job>>

(***************************************************************************)
(* Nonce rotation: the background job, and the fallback of                 *)
(* GET /session/<id>/qr                                                    *)
(***************************************************************************)

\* Time passes.  The expiry of an inactive session's nonce is never read.
NonceExpires(s) ==
    /\ s \in DOMAIN sessions
    /\ sessions[s].active /\ sessions[s].fresh
    /\ sessions[s].nonce < MaxRotations
    /\ sessions' = [sessions EXCEPT ![s].fresh = FALSE]
    /\ UNCHANGED <<chainVars, checkIns, req, job>>

\* A rotation that writes the whole row as it was read.
RotateWholeRow(ids) ==
    sessions' = [s \in DOMAIN sessions |->
                    IF s \in ids
                    THEN [sessions[s] EXCEPT !.nonce = @ + 1, !.fresh = TRUE, !.active = TRUE]
                    ELSE sessions[s]]

Rotate(ids) ==
    sessions' = [s \in DOMAIN sessions |->
                    IF s \in ids
                    THEN [sessions[s] EXCEPT !.nonce = @ + 1, !.fresh = TRUE]
                    ELSE sessions[s]]

Stale(s) == sessions[s].active /\ ~sessions[s].fresh

QrReads(r, s) ==
    /\ req[r].pc = "idle"
    /\ s \in DOMAIN sessions
    /\ Stale(s)                        \* 409 when inactive; else nothing to do
    /\ req' = [req EXCEPT ![r] = [pc |-> "refresh", session |-> s]]
    /\ UNCHANGED <<chainVars, sessions, checkIns, job>>

QrCommit(r) ==
    /\ req[r].pc = "refresh"
    /\ Rotate({req[r].session})
    /\ Finish(r)
    /\ UNCHANGED <<chainVars, checkIns, job>>

QrFails(r) ==
    /\ "commit" \in Faults
    /\ req[r].pc = "refresh"
    /\ Finish(r)
    /\ UNCHANGED <<chainVars, sessions, checkIns, job>>

JobReads ==
    /\ ~job.running
    /\ \E s \in DOMAIN sessions : Stale(s)
    /\ job' = [running |-> TRUE, expired |-> {s \in DOMAIN sessions : Stale(s)}]
    /\ UNCHANGED <<chainVars, sessions, checkIns, req>>

JobCommit ==
    /\ job.running /\ job.expired # {}
    /\ Rotate(job.expired)
    /\ job' = IdleJob
    /\ UNCHANGED <<chainVars, checkIns, req>>

\* A job that an exception kills.
JobFailsForGood ==
    /\ "commit" \in Faults
    /\ job.running
    /\ job' = [running |-> TRUE, expired |-> {}]
    /\ UNCHANGED <<chainVars, sessions, checkIns, req>>

JobFails ==
    /\ "commit" \in Faults
    /\ job.running
    /\ job' = IdleJob                  \* rollback, logged, next tick
    /\ UNCHANGED <<chainVars, sessions, checkIns, req>>

(***************************************************************************)
(* POST /attendance/scan                                                   *)
(***************************************************************************)

BeginScan(r, st, s) ==
    /\ req' = [req EXCEPT ![r] = [pc |-> "isLocked", student |-> st, session |-> s]]
    /\ UNCHANGED <<chainVars, sessions, checkIns, job>>

\* A scan that only asks whether the conductor ended the session.
ScanChecksEndedOnly(r, st, s, nonce) ==
    /\ req[r].pc = "idle"
    /\ s \in DOMAIN sessions
    /\ ~sessions[s].ended
    /\ nonce = sessions[s].nonce
    /\ sessions[s].fresh
    /\ BeginScan(r, st, s)

\* The verification token and the bound device are taken to be in order; a
\* scan that fails either changes nothing.
ScanChecks(r, st, s, nonce) ==
    /\ req[r].pc = "idle"
    /\ s \in DOMAIN sessions           \* 404 session_not_found
    /\ ~sessions[s].ended              \* 409 session_ended
    /\ sessions[s].active              \* 409 session_inactive
    /\ nonce = sessions[s].nonce       \* nonce_mismatch, code_mismatch
    /\ sessions[s].fresh               \* nonce_expired, code_mismatch
    /\ BeginScan(r, st, s)

IsLocked(r) == req[r].student \in locked[req[r].session]

NotLocked(r) ==
    /\ req[r].pc = "isLocked"
    /\ ~IsLocked(r)
    /\ req' = [req EXCEPT ![r].pc = "lock"]
    /\ UNCHANGED <<chainVars, sessions, checkIns, job>>

AlreadyLocked(r) ==
    /\ req[r].pc = "isLocked"
    /\ IsLocked(r) \/ "chain" \in Faults
    /\ Finish(r)
    /\ UNCHANGED <<chainVars, sessions, checkIns, job>>

Mine(st, s) == Ledger!LockAttendance(Signer, st, s)

LockMined(r) ==
    /\ req[r].pc = "lock"
    /\ Mine(req[r].student, req[r].session)
    /\ req' = [req EXCEPT ![r].pc = "mirror"]
    /\ UNCHANGED <<pending, sessions, checkIns, job>>

\* A caller that takes the contract's refusal for success.
LockRefusedIgnored(r) ==
    /\ req[r].pc = "lock"
    /\ IsLocked(r) \/ "chain" \in Faults
    /\ req' = [req EXCEPT ![r].pc = "mirror"]
    /\ UNCHANGED <<chainVars, sessions, checkIns, job>>

LockRefused(r) ==
    /\ req[r].pc = "lock"
    /\ IsLocked(r) \/ "chain" \in Faults
    /\ Finish(r)
    /\ UNCHANGED <<chainVars, sessions, checkIns, job>>

\* A caller that takes a receipt that never came for success.
LockUnconfirmedIgnored(r) ==
    /\ "receipt" \in Faults
    /\ req[r].pc = "lock" /\ ~IsLocked(r)
    /\ pending' = pending \cup {[student |-> req[r].student, session |-> req[r].session]}
    /\ req' = [req EXCEPT ![r].pc = "mirror"]
    /\ UNCHANGED <<locked, announced, sessions, checkIns, job>>

LockUnconfirmed(r) ==
    /\ "receipt" \in Faults
    /\ req[r].pc = "lock" /\ ~IsLocked(r)
    /\ pending' = pending \cup {[student |-> req[r].student, session |-> req[r].session]}
    /\ Finish(r)
    /\ UNCHANGED <<locked, announced, sessions, checkIns, job>>

LockMinedThenRaises(r) ==
    /\ "block" \in Faults
    /\ req[r].pc = "lock"
    /\ Mine(req[r].student, req[r].session)
    /\ Finish(r)
    /\ UNCHANGED <<pending, sessions, checkIns, job>>

\* record_check_in: the row that exists, or a new one.
MirrorCommit(r) ==
    /\ req[r].pc = "mirror"
    /\ checkIns' = [checkIns EXCEPT ![req[r].session] = @ \cup {req[r].student}]
    /\ Finish(r)
    /\ UNCHANGED <<chainVars, sessions, job>>

MirrorFails(r) ==
    /\ "commit" \in Faults
    /\ req[r].pc = "mirror"
    /\ Finish(r)
    /\ UNCHANGED <<chainVars, sessions, checkIns, job>>

(***************************************************************************)
(* The environment                                                         *)
(***************************************************************************)

\* A transaction outlives its request: it is mined, or reverts.
MinePending(tx) ==
    /\ pending' = pending \ {tx}
    /\ \/ Mine(tx.student, tx.session)
       \/ tx.student \in locked[tx.session] /\ UNCHANGED <<locked, announced>>
    /\ UNCHANGED <<sessions, checkIns, req, job>>

Crash ==
    /\ "crash" \in Faults
    /\ req' = [r \in Requests |-> IdleRequest]
    /\ job' = IdleJob
    /\ UNCHANGED <<chainVars, sessions, checkIns>>

SessionSteps(r) ==
    \/ \E c \in Classes : StartReads(r, c)
    \/ StartCommit(r)
    \/ StartFails(r)
    \/ \E s \in SessionIds : QrReads(r, s)
    \/ QrCommit(r)
    \/ QrFails(r)

ScanSteps(r) ==
    \/ \E st \in Students, s \in DOMAIN sessions :
          \E nonce \in 0..sessions[s].nonce : ScanChecks(r, st, s, nonce)
    \/ NotLocked(r)
    \/ AlreadyLocked(r)
    \/ LockMined(r)
    \/ LockRefused(r)
    \/ LockUnconfirmed(r)
    \/ LockMinedThenRaises(r)
    \/ MirrorCommit(r)
    \/ MirrorFails(r)

Next ==
    \/ \E r \in Requests : SessionSteps(r) \/ ScanSteps(r)
    \/ \E s \in SessionIds : End(s) \/ NonceExpires(s)
    \/ JobReads
    \/ JobCommit
    \/ JobFails
    \/ \E tx \in pending : MinePending(tx)
    \/ Crash

Spec == Init /\ [][Next]_vars

\* The scheduler keeps ticking, and not every tick meets a refused commit or a
\* restart.  Nothing else is promised: no request is ever made.
Fairness == WF_vars(JobReads) /\ SF_vars(JobCommit)

FairSpec == Spec /\ Fairness

(***************************************************************************)
(* Properties                                                              *)
(***************************************************************************)

\* The no-resubmission rule, AttendanceLedger.sol:71-73, under scans of one
\* student that all found isLocked() false: one lock, announced once.
LockedOnce == Ledger!EmittedOnce

\* models/session.py:8-10, "chain first, then the DB": whoever stands on the
\* roster, or is about to be put there, is locked on the chain.
RosterIsAnchored ==
    /\ \A s \in SessionIds : checkIns[s] \subseteq locked[s]
    /\ \A r \in Requests : req[r].pc = "mirror" => IsLocked(r)

\* live_attendance.py:75 provides for "two concurrent scans of the same
\* student"; the chain refuses the second, so a lock is mirrored by one
\* request at most and never a second time.
MirroredByOne ==
    \A r \in Requests : req[r].pc = "mirror" =>
        /\ req[r].student \notin checkIns[req[r].session]
        /\ \A q \in Requests \ {r} :
              req[q].pc = "mirror" => req[q].student # req[r].student
                                      \/ req[q].session # req[r].session

\* sessions.py:85, "close the previous one": a start closes earlier sessions
\* of its class, never a later one, so the newest is open until it is ended.
NewestSessionLive ==
    \A s \in DOMAIN sessions :
        (\A z \in DOMAIN sessions : sessions[z].class = sessions[s].class => z <= s)
            => (sessions[s].active <=> ~sessions[s].ended)

\* models/session.py:50, "for good": a rotation that read the session while it
\* was active, and commits after it was ended or replaced, does not revive it.
ClosedForGood ==
    [][\A s \in DOMAIN sessions :
          /\ ~sessions[s].active => ~sessions'[s].active
          /\ sessions[s].ended => sessions'[s].ended]_vars

InFlight(s) ==
    \/ \E r \in Requests :
          req[r].pc \in {"isLocked", "lock", "mirror"} /\ req[r].session = s
    \/ \E tx \in pending : tx.session = s

\* A scan that was validated before the session closed may still lock, and its
\* transaction may be mined much later; once the last of them is through, the
\* attendance of a closed session, on the chain and on the roster, is final.
\* The export is made from it.
SettledIsFinal ==
    [][\A s \in DOMAIN sessions :
          ~sessions[s].active /\ ~InFlight(s) =>
              /\ ~InFlight(s)'
              /\ locked'[s] = locked[s] /\ checkIns'[s] = checkIns[s]]_vars

\* A projector never keeps an expired code for good: the job's exceptions do
\* not kill it (scheduler.py:44-45), and what it read before a refused commit
\* or a restart it reads again.
RotationKeepsUp ==
    \A s \in SessionIds :
        (s \in DOMAIN sessions /\ Stale(s)) ~> (s \in DOMAIN sessions /\ ~Stale(s))
=============================================================================
