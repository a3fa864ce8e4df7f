# A TLA+ model of EduLedger

EduLedger records what must not be altered quietly - who attended, who taught,
which grade changed and who signed for it - in smart contracts, and serves it
through a Flask backend that keeps a relational copy of every record. Most of
what can go wrong lies between the two: the backend writes the chain first and
the database after, a server runs every request in a thread of its own beside a
background scheduler, and any of the steps in between may fail, time out, be
repeated or be cut short by a restart. This directory models those parts in
TLA+, checks them with TLC and proves the most important facts with TLAPS.

Paths are relative to the repository's root; `app/` stands for
`src/backend/app/`, `contracts/` for `src/contracts/contracts/`.

## The system

| part | state it keeps | operations | talks to |
|---|---|---|---|
| WorkloadLedger (`contracts/WorkloadLedger.sol`) | one entry per class | logWorkload | called by the workload module |
| RecordAuditTrail (`contracts/RecordAuditTrail.sol`) | proposals, signatures | proposeChange, approve | called by the records and grades modules |
| AttendanceLedger (`contracts/AttendanceLedger.sol`) | one lock per session and student | lockAttendance | called by the attendance module |
| GovernanceRegistry (`contracts/GovernanceRegistry.sol`) | the governance root | lockRoot | called by the governance module |
| Workload module (`app/api/faculty.py`, `app/services/workload.py`, `app/models/workload.py`) | workload sessions, session logs, substitute tokens | start, scan, zero-attendance, issue, redeem, list | WorkloadLedger, attendance sessions |
| Scheduler (`app/scheduler.py`) | - | flag_unconducted_classes, rotate_expired_nonces | workload and attendance tables, WorkloadLedger |
| Grades and records (`app/api/grades.py`, `app/api/records.py`, `app/services/audit_trail.py`, `app/models/proposal.py`, `app/models/grade.py`) | grades, proposal mirrors | propose, approve, reject, read | RecordAuditTrail, IPFS |
| Attendance (`app/api/sessions.py`, `app/api/attendance.py`, `app/services/live_attendance.py`, `app/services/attendance_code.py`, `app/sockets.py`) | sessions with a rotating nonce, check-ins | start, end, qr, scan, verify identity, join | AttendanceLedger, Redis, sockets |
| Transaction signing (`log_workload`, `lock_attendance`, `lock_root`, `_send_transaction` in `app/services/`) | the account's nonces, on the node | estimate, count, sign, send, wait | the node, for every module above |
| Accounts (`app/api/governance.py`, `app/api/auth.py`, `app/api/students.py`, `app/api/admin.py`, `app/services/profile_metadata.py`, `backfill_profile_cids.py`) | users, profiles with their CIDs, students with their devices | bootstrap_admin, register, enroll_face, register_device, rebind_device, the script | GovernanceRegistry, IPFS |
| Timetable (`app/api/timetable.py`, `app/services/timetable.py`) | scheduled classes | upload, list, start gate | the workload and attendance modules ask its gate |
| Frontend (`src/frontend`) | what a page shows | polls, socket events | all endpoints |

What is hard in it:

- **Concurrency.** Every request has a thread of its own and the two scheduler
  jobs run beside them. A handler reads, decides, waits for the chain and only
  then commits; any other thread can get in between. Row locks exist only in
  `grades.py`, and only on PostgreSQL.
- **Two stores, no transaction over both.** The chain is written first. What is
  between the mined transaction and the commit can fail on its own.
- **Timeouts.** A missing receipt after 30 seconds is treated as a failure, but
  the transaction may be mined at any later time.
- **Restarts.** Threads, uncommitted rows and the counters in memory are lost;
  the database, Redis and the chain stay.
- **One account, many threads.** Every transaction takes the next nonce of the
  same account, read by each thread for itself.
- **A second process.** The script that pins missing profiles works on the tables
  the server's registrations write.
- **Lost and reordered events.** The live panel combines a load over HTTP with
  socket events of several connections.

`PROJECT.json` lists these hazards one by one, at the line where each bites,
with the property that covers it or the reason why none does.

What makes each part correct:

| part | it is correct if |
|---|---|
| WorkloadLedger | the first outcome of a class is the only one, and the view never shows a zero entry as logged |
| RecordAuditTrail | a change is executed only with two different signatures, and anchored exactly once |
| AttendanceLedger | a student is locked and announced once per session |
| Workload module, scheduler | rows agree with the chain, a class has one row, outcomes and conductors are justified, the newest session is live, an overdue class is anchored in the end |
| Grades and records | a grade changes only with two signatures, its lock and its pending correction stay paired, no update is lost, the mirror never runs ahead of the chain |
| Transaction signing | a call answered with success took effect, exactly once; a failed one leaves at most a call that takes effect late; no nonce is skipped |
| Accounts | one administrator per lock, an account and a device binding are never lost, a CID describes its owner, every profile is pinned in the end |
| Attendance | the roster is what the chain locked, a closed session stays closed and its attendance settles, an expired nonce is replaced |
| Wrong-code limit | a counter overshoots its limit by less than the number of threads, and only a thread that holds a client another one gave up can lose its miss, once |
| Live panel | a panel that caught up shows the roster, every check-in and every end reach the viewer |

## The modules

Contracts, each on its own:

| module | models | form |
|---|---|---|
| `AccessControl` | grant, revoke and renounce of a role (external: OpenZeppelin, as the contracts use it) | operators and a role-changing action, instantiated by the contracts |
| `WriteOnce` | what a ledger promises: a key's first value is its only one | abstract specification |
| `WorkloadLedger` | `logWorkload`, its guards in their order, the view | a specification of its own, and an action `LogWorkload` the backend's model uses |
| `DualControl` | what the audit trail promises: signatures only grow, execution takes two and happens once | abstract specification |
| `RecordAuditTrail` | `proposeChange`, `approve` with the implied second signature, the views | the same |
| `AttendanceLedger` | `lockAttendance`, `isLocked`, the event | used by `Attendance` |
| `GovernanceRegistry` | `lockRoot` and its guards | extended by `Accounts` |
| `ChainCall` | what the backend takes a chain call to be: asked, executed, answered, or abandoned and perhaps executed late | abstract specification |

The backend, each composed with its contract by `INSTANCE ... WITH`:

| module | models | contract |
|---|---|---|
| `FacultyWorkload` | `/faculty` start, redeem, issue, scan, zero-attendance, `/session/end`, the auto-flag job, the tables of `models/workload.py` | `Ledger == INSTANCE WorkloadLedger` |
| `GradeCorrections` | grade corrections (propose, approve, reject) and the generic `/records` propose and approve, over the proposal mirror and the grade lock, under a contract that may be deployed anew | `Trail == INSTANCE RecordAuditTrail` |
| `Attendance` | start, end, the two nonce rotations (job and QR poll), scan with its chain calls and mirror | `Ledger == INSTANCE AttendanceLedger` |
| `Signer` | the steps of sending a transaction, over the node's pool and a ledger whose roles change; shown to implement `ChainCall` | extends `WorkloadLedger` |
| `Accounts` | bootstrap, the three registrations, enrolment and devices, the backfill script, a registry deployed anew | extends `GovernanceRegistry` |
| `AttendanceCode` | both wrong-code counters, in Redis and in memory, the lookup of the client apart from the operation on it, and every way Redis fails | - |
| `LiveRoster` | server room and emits, roster load, panel and session card of one viewer | - |

`MCFacultyWorkload`, `MCGradeCorrections` and `MCAccounts` give the constants their values and
the symmetries for TLC. The `...Proofs` modules extend a specification with its
theorems.

### How state and actions correspond to the code

A table is a sequence of records in insertion order, so a row's position is its
primary key (`sessions`, `tokens`, `mirrors`), or a function when rows are fixed
(`grades`). `req[r]` is a request thread: `pc` says between which two steps of
its handler it stands and the other fields are the handler's local variables,
that is, what it read and may use after it has gone stale. `job` is the same for
a scheduler job. `pending` holds the transactions that were sent but whose
receipt did not come in time.

A handler is split exactly where another thread can get in between:

1. **Checks** (`StartChecks`, `ScanChecks`, `CorrectionChecks`, ...): the reads
   and early returns that guard it. A guard's error answer changes nothing and
   has no action.
2. **The chain call**, with four outcomes: mined; refused (by the contract's own
   guard, or not accepted by the node); unconfirmed (no receipt, the
   transaction goes to `pending` and `MinePending` may mine it later, or the
   contract refuses it then); mined, but a read after the receipt raises.
3. **The commit**, or its failure with the rollback.

`Crash` resets every thread and job and leaves tables and chain. The values that
nothing compares - timestamps on the chain, hashes, evidence files, names - are
left out; times are the order of a class's phases (`early`, `open`, `overdue`)
and of expiries.

The database is modelled as far as it decides what may interleave:
`SingleWriter` (FacultyWorkload) is SQLite's one write lock, taken at the first
flush; otherwise PostgreSQL blocks threads that update the same rows.
`RowLocks` (GradeCorrections) says whether `with_for_update()` locks anything.
In `Accounts` the unique columns (`users.email`, employee ids, roll numbers,
`students.device_id`) decide between two commits: the loser's is `Conflict`.

`FacultyWorkload`, `GradeCorrections` and `Attendance` take a chain call to be one
step with the outcomes above. `Signer` is where that is justified: it splits the
call into estimate, nonce, send and receipt, lets the node mine, replace or drop
what is in its pool, and implements `ChainCall`, whose steps are those outcomes.

`/session/end` appears both in FacultyWorkload, where it closes the workload
session, and in Attendance, where the nonce and the roster are.

## The runs

| run | instance | states | shows |
|---|---|---|---|
| `signer` | 1 class and a call to another contract, 2 threads, 3 transactions mined, roles change at any time | 93,796 | `NoNonceGap`; the ledger implements `WriteOnce`, the steps implement `ChainCall` |
| `audit_trail` | 3 accounts, 2 changes (one incomplete), 2 proposals | 520,192 | counts, signatures and status agree; one anchor per execution; the contract implements `DualControl` |
| `faculty_workload` | 1 class, 3 professors, 2 threads, 2 sessions, 1 token, PostgreSQL, all faults | 212,815 | the safety properties of FacultyWorkload |
| `faculty_job` | 2 classes, 1 thread, 1 session, SQLite, all faults, fairness | 26,848 | the backend implements `WriteOnce`; `OverdueIsAnchored` |
| `grade_corrections` | 1 grade, 2 values, 2 threads, 3 proposals, row locks, all faults but `event` and `redeploy` | 849,482 | lock, correction, mirror and chain stay together |
| `grade_redeploy` | 2 grades, 2 values, 2 threads, 2 proposals, row locks, faults `event`, `readback`, `commit`, `redeploy` | 326,074 | what survives ids that are issued twice: pending corrections hold their grades and are current, locks are settled by decisions only, closed corrections stay closed, grade changes are signed |
| `attendance` | 1 class, 1 student, 2 threads, 2 sessions, 1 expiry per session, all faults, fairness | 624,180 | the safety properties of Attendance and `RotationKeepsUp` |
| `attendance_code` | 2 counters (one of a student, one of a pair), 2 threads, limit 5, Redis failures, restarts | 691,929 | `GuessesBounded`, `MissIsCounted` |
| `live_roster` | 1 student, 3 connections, fairness | 47,136 | `CaughtUp`, `CheckInShown`, `EndReachesView` |
| `accounts` | 2 addresses, 4 forms (one HOD, two students who claim one roll number), 1 device, 2 threads, 6 requests, 2 deployments, 1 fault, fairness | 577,872 | `AdminPerLock`, `AccountsKept`, `CidDescribesOwner`, `BindingNeverLost`, `ProfilesPinned` |
| `faculty_bad_class` | 2 classes, only `block` | violation | one class's exception rolls back the rows of the others |
| `grade_rejected` | 1 proposal, only `receipt` | violation | a rejected correction is executed on the chain |

Deadlock checking is off where the system really may stop: every bounded
resource of an instance can be used up, and nobody has to send a request. `signer` and
`audit_trail` keep it on.

### Why these bounds are enough

The races of the code are between two handlers of one class, grade or session,
or between a handler and a job, over rows no third party needs. Two threads next
to a job, with two sessions of one class, hold every pair of handlers and every
pair of stale reads. A second class matters only to the auto-flag job, which
handles several per tick and commits once: that is `faculty_job`. Three
professors are the scheduled one, the substitute named in a token and another
colleague; three proposals are two corrections in a row of one grade beside a
generic change, so an approve can meet a closed row, its successor and the wrong
kind of row. In `grade_redeploy` two proposals per contract collide on both
ids, and a second grade is there for a lock to be confused with. Three accounts in the audit trail are a proposer, an approver and a
third who signs although he may not. One student is enough for the roster and the
panel: the rows of two students are written and shown independently, and the
check that matters - two scans of one student - has its two threads. Two threads that sign hold every race over one nonce, and three mined
transactions let a slot be replaced, dropped and taken again after one that
succeeded and one that reverted. In `accounts` two addresses suffice because
every race is over one address, one identifier, one device or the one lock; six
requests are two registrations, an enrolment and a binding, with two more to
race them; the one fault may fall anywhere, and two deployments are the first lock and
a second one that meets an administrator of the first. Three
connections are a first one, one that replaces it while the loads of the first
are still on the way, and one after that. Five wrong codes is the limit of the
code itself.

The theorems below remove the bounds for the properties they cover.

Symmetry is used in `faculty_workload` (threads; colleagues, `p1` who is
scheduled excepted), `grade_corrections` and
`grade_redeploy` (threads, grade strings), none of which checks a liveness property.

### Fairness, and what in the code justifies it

- **FacultyWorkload.** Weak fairness of every request thread (the operating
  system runs it, every chain call has a timeout) and of the job (APScheduler
  ticks forever; an exception in a tick is caught, `scheduler.py:134-139`).
  Strong fairness of a flag being mined: the step is disabled again by each
  crash and each raised exception, and the chain is not broken forever.
- **Attendance.** Weak fairness of the job's query, strong fairness of its
  commit: not every tick meets a refused commit or a restart. Nothing is assumed
  of requests.
- **Accounts.** Weak fairness of the script's steps: it is run again as long as a
  profile has no CID (`backfill_profile_cids.py:95`, "re-run once IPFS is
  reachable"), and `MaxFaults` says that IPFS, the database and the process stop
  failing at some time. Nothing is assumed of requests.
- **LiveRoster.** Weak fairness of the browser's event loop, the server's
  threads, the network in both directions and reconnecting (Socket.IO retries);
  strong fairness of the poll every two seconds, which the card suspends while
  an End call is under way. Nobody has to check in, end or lose a connection.

### Disagreements the runs show

1. `faculty_bad_class`: `scheduler.py:87` says that one bad class never blocks the
   others. `get_block` (`workload.py:150`) is outside the `try` that turns
   failures into `WorkloadError`, so its exception reaches the job's outer
   `except`, which rolls back the rows of the classes already mined in the tick.
   The ledger refuses them ever after.
2. `grade_rejected`: `grades.py:360-361` says that after a reject the on-chain
   proposal stays Pending forever. An approve whose receipt timed out may be
   mined after the reject.

Met while modelling, and left without a run of their own because a reading of the
lines shows them:

- `faculty.py:556` calls redemption one-shot. The test of `redeemed_at` (530) and its
  UPDATE are two statements and nothing in between holds the row: both of two
  concurrent redeems pass, and each opens a session for the named substitute.
- Two first bindings of a student, or a first binding and a rebinding, both find
  no device and the last commit wins (`students.py:101-114`, `admin.py:36-55`),
  against `students.py:82` ("Only the FIRST binding is allowed here") and `admin.py:24`
  ("the only path that may do so"). `BindingNeverLost` states what does hold.
- A bootstrap whose email is registered while it waits for the chain, or whose
  commit fails, leaves a locked root without an administrator for good
  (`governance.py:161-177`); likewise a lost receipt.
- Two registrations that race for an email, an employee id or a roll number both
  pass the checks; the loser's commit violates a unique column and is answered
  with 500, where the docstrings (`auth.py:170`, 267) promise 409.
- A class whose substitute redeemed a token but where nobody scanned is flagged
  UNCONDUCTED (`scheduler.py:101`), although `scheduler.py:77-79` excludes it.
- The ledger always credits the scheduled professor (`faculty.py:134`); the
  contract's comment (`WorkloadLedger.sol:99-100`) speaks of the one who taught.
- Two active sessions of a class are possible, against `models/workload.py:90-91`.
  `NewestSessionLive` states what does hold.
- A crash between the mined transaction and the commit leaves a ledger entry, an
  attendance lock or an executed proposal without its row; nothing repairs it.
  Every retry is refused by the contract.
- A start may commit its session after the class was logged (`faculty.py:181`
  against 156-157).
- With an event that cannot be decoded, `audit_trail.py:271` takes
  `proposalCount()` for its own id. With the fault `event`, `MirrorMatchesChain`
  and `LockPaired` fail; the run that checks them leaves it out, and
  `grade_redeploy` shows what holds with it.
- After a new deployment a `/records` proposal may get the id of an old pending
  correction, and its upsert (`records.py:128-136`) makes that row a generic one. The
  grade stays locked by it, against `grade.py:34` ("id of the pending correction
  holding the row, else null"), and no endpoint can decide or release it.
- After a new deployment the generic route can execute a grade correction, against
  `records.py:186-187`: it asks the chain only for an id without a local row (190), and a
  generic row left over from the old contract answers for the correction.
- After a new deployment an approve of an old correction executes whatever proposal
  has its id on the new contract, and writes the old correction's grade
  (`grades.py:298-320`).
- On SQLite, after a new deployment, an upsert of `/records` can rewrite the row of a
  correction while its approve is on the chain: the grade then changes and no
  correction is closed by it (`records.py:128-136`, `grades.py:320-350`). Row locks, or
  one contract, prevent it (`GradeChangesAreSigned`).
- An approve that the contract refuses because the proposal is executed does not
  refresh the mirror (`records.py:210` against 269-271).
- On SQLite `with_for_update()` renders nothing (`grades.py:24-27`, 158;
  `config.py:32`); `LockPaired` needs `RowLocks`.
- A QR poll and the job may both rotate one expired nonce (`sessions.py:47-51`).
- A thread that looked the Redis client up before another thread gave it up
  (`attendance_code.py:173` against 91-95; likewise 213) still counts its miss in Redis,
  where no later scan reads: that wrong code is free. Each thread can do so
  once until the server restarts.
- A restart between INCR and EXPIRE leaves a wrong-code counter that never
  expires, and the per-session counters in memory never do
  (`attendance_code.py:177-179` against 36).
- A failed load of the roster is not retried (`LiveAttendancePanel.jsx:78`), and an
  emit that fails is only logged (`sockets.py:158`).

## The proofs

Each theorem is about `Spec` with every constant arbitrary: any classes,
students, professors, threads and bounds, any subset of the faults, either
database. The assumptions on the constants are the named `ASSUME`s of the modules
(the scheduled professor of a class is a professor, the bounds are natural
numbers, `NoProfessor` is none, the admin and the signer are accounts, a row of the
whitelist belongs to one email, the request threads are finitely many, a student's
name is not an event's); TLC evaluates them in
the runs. What a theorem needs beyond them (`RowLocks`, a fault left out) stands in its
statement.

Every safety invariant and every action property of the runs is the subject of a
theorem.

- **`SignerProofs`.** First the contract by itself: `LedgerTypeCorrect`,
  `LedgerViewConsistent`, and `LedgerIsWriteOnce`: with `store` read as the logged
  entries, every step of the contract is a step of `WriteOnce` or a stutter. Then the
  path to it. `NonceGapFree` is not inductive: a thread sends with a count it
  took long ago. `SlotInv` adds that no thread holds a count above what is mined.
  `SignerKeepsLedgerPromise` needs only the contract's guard.
  `SignerImplementsChainCall` needs `OwnInv` (what is out and not orphaned belongs to
  the thread that waits for it, which has no receipt yet) and maps each step: a
  transaction that is mined and succeeds is an `Execute` of its sender, one that
  reverts is no step; a sender that gives up, or dies, is an `Abandon` that may
  leave its call behind; the call of somebody who gave up ends as `Late`.
- **`AccountsProofs`.** `AccountsInv` carries the same facts over the requests in
  flight: a CID about to be stored, or pinned by the script, already describes its
  owner, the account of a registration past its commit exists and has the form's
  role and identifier, and a student about to get a device has a row. With it
  `StoredCidsDescribe`, and the action properties `AccountsAreKept` and
  `BindingsAreKept`. `OneAdminPerLock` rests on `LockInv`: the thread between its
  lock and its INSERT holds the only claim to that deployment's lock, no account
  owes itself to it yet, and the lock is closed.
- **`RecordAuditTrailProofs`.** The inductive invariant `TrailInv` adds to type
  and `SignaturesAgree` that nobody has signed an id that is not yet given out;
  without it a new proposal could inherit a signature. From it follow
  `TwoSignatures`, `AuditAnchor` and the refinement
  `TrailImplementsDualControl`. Roles change at any time, and no argument needs
  them to stay.
- **`FacultyWorkloadProofs`.** `TypeCorrect`, then the inductive invariant
  `TicketInv`. `LogMatchesLedger` and `OneLogPerClass` are not inductive: a
  commit step inserts a row on the strength of a transaction mined several steps
  before. `TicketInv` says what the thread holds in between: a thread that stands
  at its commit, and a class the job has anchored in this tick, hold the only
  right to add that class's row - the entry on the chain is theirs, there is no
  row, and no other thread holds the same. The contract hands the right out,
  because it mines one transaction per class; a crash, a late transaction or a
  failed commit only ever lose it. `TicketsAreExclusive`, `RowsMatchTheLedger` and
  `NoSecondRow` follow, and `BackendKeepsLedgerPromise`: the whole backend
  implements the write-once ledger. The other three invariants follow, each
  with what the threads in flight carry. `JustifiedInv`: a request that is about to
  anchor, a class on the job's list and a transaction whose sender gave up have the
  grounds for their outcome already, and grounds once given stay (`GroundsLast`).
  `AuthInv`: a request that opens a session is the professor's own start or holds a
  token naming its class and caller, which its commit redeems; tokens never change
  hands. `LiveInv`: what a request is about to close belongs to the class it opens.
  From them `OutcomesAreJustified`, `ConductorsAreAuthorised`, `NewestSessionIsLive`.
- **`GradeCorrectionsProofs`.** `CorrectionsTypeCorrect`, with every fault. Then what the
  row locks give, also with undecodable events and contracts deployed anew:
  `PendingHoldsLock` and `PendingIsCurrent` say nothing of the requests in flight, so
  `LockInv` adds that what a thread has read stays true until it commits
  (`ThreadInv`: its grade is still free and unchanged, or its correction still
  pending) and that two threads never work on one grade (`Apart`). Only four steps
  write the tables (`TableSteps`), and each has a lemma that says what it writes. From
  `LockInv` follow `PendingCorrectionsHold`, `PendingCorrectionsCurrent`,
  `LocksAreSettled` and `ClosedStaysClosed`, all under `RowLocks`.
  `LocksNameTheirOwn` needs no row locks: a new lock names a row that is new.
  `SignedInv` needs none either: who has signed follows from a proposal's status
  (`SignedChain`), and a thread past its approve works on a row with its id and on an
  executed proposal (`DecidesOwn`).

  The rest is about one contract whose events are decoded: `"event" \notin Faults` and
  `"redeploy" \notin Faults` are hypotheses, because without them the properties are
  false (see the disagreements above). `MatchInv` carries through the requests in
  flight what `MirrorMatchesChain` and `OnlyMirroredExecute` say of the tables: an id
  a thread has read back is its own, unmirrored and no further than the chain
  (`OwnsId`, `OwnIds`), and what the HOD is about to sign, or has signed in a
  transaction whose sender gave up, is a generic proposal or has its row
  (`DecidesRoute`, `MayExecute`). `MirrorsMatchTheChain` and
  `CorrectionsExecuteByTheirRoute` need no row locks, which is more than the run
  checks. With row locks the two halves meet in `PairedInv`: a new lock names a
  Pending row because the route of a correction is the only one that executes it, and
  the only closed row a decision can still write is a generic one, Executed as it was.
  From it follow `LocksArePaired` and `ClosedCorrectionsAreFinal`.

  `GradeChangesAreSigned` says what closes with a changed grade: an open correction of
  that grade, with that value. That the row of a thread past its approve is still that
  correction and still open follows from `LockInv` under row locks, with every fault.
  Without them it follows from `ApplyInv`, which rests on `MatchInv`: a row matches the
  chain, so it is not Executed while its proposal is Pending, and the chain lets one
  approve of a proposal through (`ApplyOnce`). There an approve that races a reject
  applies a correction that is Rejected by then (`Applicable`). With neither row locks
  nor one contract the property is false (see the disagreements above). The runs use row
  locks; what is known of SQLite are `LocksNameTheirOwn`, the two theorems of
  `MatchInv` and the second half of `GradeChangesAreSigned`.
- **`AttendanceProofs`.** `AttendanceTypeCorrect`; `RosterInv`, the conjunction of
  `LockedOnce`, `RosterIsAnchored` and `MirroredByOne`, is inductive as a whole
  but not in its parts (a mirror is inserted because its thread alone has the
  lock; it alone has it because a lock is mined once). `NewestInv` adds to
  `NewestSessionLive` that a start which stands before its commit has read
  sessions of its own class only. `ClosedStaysClosed` and `AttendanceSettles` are
  action properties, proved from the types by what each step does to the flags
  (`SessionEffect`) and to the scans in flight (`SettlesNext`).
- **`AttendanceCodeProofs`.** `CodeTypeCorrect`; `WrongCodesAreBounded`, for any
  number of threads and any limit. `GuessesBounded` counts the scans past the limit in
  the store in use; `BoundInv` adds that memory is empty and nobody is about to read it or
  to count in it until Redis has been given up, and that afterwards two sums stay below
  the bound: memory with every thread that may count there without reading it first
  (`Counting`, which includes one that still holds a client), and Redis with the threads
  about to send an INCR (`Recording`). The proof is about cardinalities: a thread that counts
  leaves the set it was counted in (`ThreadLeaves`), and one that starts to judge has
  read a count below the limit while the other threads are one less than all.
  `EveryMissIsCounted` is an action property of a step from `BoundInv`, which says
  which store is in use.
- **`LiveRosterProofs`.** `RosterTypeCorrect`; `PanelCatchesUp`. `CaughtUp` is only about
  a panel that waits for nothing, so `RosterInv` says what it waits for: a check-in
  that a live panel does not show is an event on its way, or in the answer of the one
  load that counts, or will be (`NothingLost`, `OneLast`); nothing on its way is
  invented (`Genuine`); and a live panel is in its room, so no emit passes it by
  (`Connected`).

The type invariants of the modules with proofs are theorems, and no run repeats a
type invariant; the strengthened invariants were checked by TLC before they were
proved.

Only model-checked: the liveness properties (`OverdueIsAnchored`, `RotationKeepsUp`,
`CheckInShown`, `EndReachesView`, `ProfilesPinned`), which are out of the prover's
reach, and the two runs that expect a violation. No module here needs a recursive
operator.

## What is not modelled, and why

- **The identity checks** (verification token, face and WebAuthn): signatures with
  an expiry and vector arithmetic, without state of their own between requests. A
  scan takes these guards to hold; who has which device is in `Accounts`.
- **Passwords, names, departments, `is_active`** of an account, login and the JWT:
  nothing that is modelled depends on them.
- **How the 6-digit code is derived**, and that two sessions may share one: a code
  stands for its nonce.
- **IPFS itself, export, health, error pages, seed scripts, other pages of the frontend**:
  input and output, or reads without state of their own. The pin before a proposal
  is part of the fault `chain`.
- **Redeployment of the ledgers** of attendance and workload: their keys are the ids of
  the database's own rows, so a new, empty contract has nothing that could be taken for
  an old entry. Those of
  RecordAuditTrail and GovernanceRegistry are actions of `GradeCorrections` and
  `Accounts`.
- **An emit that Socket.IO swallows** in LiveRoster: `CheckInShown` would fail by it
  at once, which a reading shows as well.
- **Deployment roles**: the contracts' own runs let roles change at any time; in the
  compositions the backend's signers keep the roles the scripts gave them, since
  nothing in the backend changes them. In `Signer` they change.
- **The script's autoflush**: with a CID set, the next query of the loop flushes it
  and holds the row until the commit at the end. A registration that stores its own
  CID meanwhile waits; the order of the two writes, which `Accounts` leaves open,
  is all that shows.

## Plan

Done, in this order: (1) WorkloadLedger and FacultyWorkload, the heart of the
workload module; (2) RecordAuditTrail with its abstract specification and
GradeCorrections over it; (3) AttendanceLedger and Attendance, AttendanceCode,
LiveRoster; (4) ChainCall and Signer, the ground the compositions stand on;
(5) GovernanceRegistry and Accounts; (6) the audit trail deployed anew under the old
tables, in GradeCorrections.

Next modules:

1. **Timetable**: the start gate and the row validation as operators, checked
   against a reference definition over bounded inputs.
2. **Identity**: one-shot use of WebAuthn challenges, and a device rebound
   between token and scan.

Next theorems: what the liveness properties rest on, as far as it is safety (that a
flag, a rotation or a load stays possible until it is made); that `/session/end`, which
both FacultyWorkload and Attendance contain, ends the same sessions in both.

## Running

    tlc -workers 2 -config FacultyWorkload.cfg MCFacultyWorkload
    tlapm FacultyWorkloadProofs.tla

`PROJECT.json` names the module, the configuration and the properties of every
run, the mutated definition each property must notice, and for every definition
the lines it translates. Runs take from a second to two and a half minutes
with two workers; the proofs together about nine minutes.

