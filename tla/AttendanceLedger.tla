-------------------------- MODULE AttendanceLedger --------------------------
(***************************************************************************)
(* contracts/contracts/AttendanceLedger.sol: one lock per student and      *)
(* session, which is never taken back.  In Attendance it is the part that  *)
(* stands for the chain.                                                   *)
(***************************************************************************)
EXTENDS Naturals

CONSTANTS
    Students,    \* student ids
    SessionIds,  \* attendance session ids
    Accounts     \* accounts that send transactions

VARIABLES
    locked,     \* _locked: the students recorded PRESENT, per session
    announced,  \* AttendanceLocked events emitted, per session and student
    roles       \* AccessControl's role members

BackendRole == "BACKEND_ROLE"
LedgerRoles == {"DEFAULT_ADMIN_ROLE", "BACKEND_ROLE"}

Access == INSTANCE AccessControl WITH Roles <- LedgerRoles

LedgerInit ==
    /\ locked = [s \in SessionIds |-> {}]
    /\ announced = [s \in SessionIds |-> [st \in Students |-> 0]]

Write(st, s) ==
    /\ locked' = [locked EXCEPT ![s] = @ \cup {st}]
    /\ announced' = [announced EXCEPT ![s][st] = @ + 1]  \* emit AttendanceLocked

\* A careless edit of lockAttendance: the resubmission check is gone.
LockAttendanceUnchecked(caller, st, s) ==
    /\ Access!HasRole(BackendRole, caller)
    /\ Write(st, s)

LockAttendance(caller, st, s) ==
    /\ Access!HasRole(BackendRole, caller)  \* onlyRole(BACKEND_ROLE)
    /\ st \notin locked[s]                  \* revert AttendanceAlreadyLocked
    /\ Write(st, s)

\* AttendanceLedger.sol:41-42: AttendanceLocked is "emitted exactly once per
\* student+session pair", for the pairs that are locked and no others.
EmittedOnce ==
    \A s \in SessionIds, st \in Students :
        announced[s][st] = IF st \in locked[s] THEN 1 ELSE 0
=============================================================================
