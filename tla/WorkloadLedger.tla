--------------------------- MODULE WorkloadLedger ---------------------------
(***************************************************************************)
(* contracts/contracts/WorkloadLedger.sol: the on-chain ledger that holds  *)
(* the final outcome of every scheduled class.  It is both a component of  *)
(* its own and the part of FacultyWorkload that stands for the chain, and  *)
(* it implements WriteOnce.  The block timestamp of an entry is left out:  *)
(* it is one more field that never changes.                                *)
(***************************************************************************)
CONSTANTS
    Classes,      \* scheduled class ids
    Professors,   \* user ids a class can be credited to (never 0)
    NoProfessor,  \* 0, the value an unwritten mapping slot reads as
    Accounts,     \* accounts that send transactions
    Admin         \* the account the constructor makes admin

ASSUME NoProfessorAssumption == NoProfessor \notin Professors
ASSUME AdminAssumption == Admin \in Accounts

VARIABLES
    logged,  \* _logged: whether the class already has an entry
    logs,    \* _logs: the entry, or the zero value
    roles    \* AccessControl's role members

ledgerVars == <<logged, logs, roles>>

BackendRole == "BACKEND_ROLE"
LedgerRoles == {"DEFAULT_ADMIN_ROLE", "BACKEND_ROLE"}

Access == INSTANCE AccessControl WITH Roles <- LedgerRoles

\* enum WorkloadStatus
WorkloadStatus == {"CONDUCTED", "CONDUCTED_ZERO_STUDENTS", "UNCONDUCTED"}

Entry == [professor : Professors, status : WorkloadStatus]

\* What getWorkloadLog returns before anything was logged: the enum's first
\* member and professor 0.
ZeroEntry == [professor |-> NoProfessor, status |-> "CONDUCTED"]

TypeOK ==
    /\ logged \in [Classes -> BOOLEAN]
    /\ logs \in [Classes -> Entry \cup {ZeroEntry}]
    /\ Access!RolesTypeOK

Init ==
    /\ logged = [c \in Classes |-> FALSE]
    /\ logs = [c \in Classes |-> ZeroEntry]
    /\ Access!RolesInit(Admin)

Write(c, p, status) ==
    /\ logged' = [logged EXCEPT ![c] = TRUE]
    /\ logs' = [logs EXCEPT ![c] = [professor |-> p, status |-> status]]

\* A careless edit of logWorkload: the duplicate check is gone.
MayLogAgain(caller, c) == Access!HasRole(BackendRole, caller)

\* onlyRole(BACKEND_ROLE), then revert WorkloadAlreadyLogged.
MayLog(caller, c) == Access!HasRole(BackendRole, caller) /\ ~logged[c]

LogWorkload(caller, c, p, status) ==
    /\ MayLog(caller, c)
    /\ Write(c, p, status)
    /\ roles' = roles

ChangeRoles == Access!RoleChange /\ UNCHANGED <<logged, logs>>

Next ==
    \/ \E caller \in Accounts, c \in Classes, p \in Professors,
          status \in WorkloadStatus : LogWorkload(caller, c, p, status)
    \/ ChangeRoles

Spec == Init /\ [][Next]_ledgerVars

(***************************************************************************)
(* Properties                                                              *)
(***************************************************************************)

\* WorkloadLedger.sol:93-97, "permanently ... exactly once": whatever the
\* admin does to the roles and whoever calls logWorkload again, a class gets
\* one entry and keeps it.
Outcomes == INSTANCE WriteOnce WITH
    Keys <- Classes, Values <- Entry, None <- ZeroEntry,
    store <- [c \in Classes |-> IF logged[c] THEN logs[c] ELSE ZeroEntry]

OneEntryPerClass == Outcomes!Spec

\* getWorkloadLog's contract (WorkloadLedger.sol:123-130): the stored entry
\* is the zero value for exactly the classes whose `logged` flag is false, so
\* a reader that checks `logged` never takes a zero for a CONDUCTED entry.
ViewConsistent == \A c \in Classes : logged[c] <=> logs[c] # ZeroEntry
=============================================================================
