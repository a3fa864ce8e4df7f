------------------------------- MODULE Accounts -------------------------------
(***************************************************************************)
(* Who is who: the bootstrap of the administrator (api/governance.py), the *)
(* three registrations with their profile documents on IPFS (api/auth.py,  *)
(* services/profile_metadata.py), the script that pins what they could not *)
(* pin (backfill_profile_cids.py), and the students' devices               *)
(* (api/students.py, api/admin.py).  All requests run in the server's      *)
(* threads; the script is a process of its own.                            *)
(***************************************************************************)
EXTENDS GovernanceRegistry, Naturals

CONSTANTS
    Emails,          \* institutional addresses
    Idents, NoIdent, \* employee ids and roll numbers
    Forms,           \* what people may send to register
    Whitelist,       \* rows of institution_whitelist
    Devices, NoDevice,
    NoUser, NoCid, NoRow, \* no row for an address; profile_cid and row read as None
    AdminRoot,       \* ADMIN_ROOT_ADDRESS
    Threads,         \* request threads
    MaxRequests,     \* bound: requests sent
    MaxFaults,       \* bound: faults that happen
    MaxDeployments   \* bound: deployments of the registry

Roles == {"ADMIN", "HOD", "FACULTY", "STUDENT"}

Form == [email : Emails, role : Roles \ {"ADMIN"}, ident : Idents]

ASSUME FormAssumption == Forms \subseteq Form
ASSUME IdentAssumption == NoIdent \notin Idents
\* Both columns of institution_whitelist are unique.
ASSUME WhitelistAssumption ==
    /\ Whitelist \subseteq [email : Emails, ident : Idents]
    /\ \A v, w \in Whitelist : v.email = w.email => v = w
\* lock_root takes no other ADMIN_ROOT_ADDRESS.
ASSUME RootAssumption == AdminRoot \in Addresses \ {ZeroAddress}
ASSUME BoundAssumption == MaxRequests \in Nat /\ MaxFaults \in Nat /\ MaxDeployments \in Nat \ {0}

\* The profile document: account stands for what it copies from the users row
\* (name, department, time of registration).
Document == [role : Roles, account : Emails, ident : Idents \cup {NoIdent}]

ASSUME NothingAssumption ==
    /\ NoCid \notin Document
    /\ NoUser \notin [role : Roles, ident : Idents \cup {NoIdent},
                      cid : Document \cup {NoCid}, root : 0..MaxDeployments]
    /\ NoDevice \notin Devices
    /\ NoRow \notin [device : Devices \cup {NoDevice}]

VARIABLES
    deployment, \* which deployment of the registry the chain holds
    lateLock,   \* a lockRoot transaction whose sender has given up is still out
    users,      \* the users table with its profiles, by email
    students,   \* the students table (devices), by the account's email
    req,        \* what each request thread is doing
    backfill,   \* the script
    started, faults  \* counters for the bounds

chainVars == <<locked, rootAdmin, deployment, lateLock>>
vars == <<chainVars, users, students, req, backfill, started, faults>>

\* root is the deployment whose lock an ADMIN owes the account to; an HOD has no
\* profile row and so no ident.
User == [role : Roles, ident : Idents \cup {NoIdent}, cid : Document \cup {NoCid},
         root : 0..MaxDeployments]
Student == [device : Devices \cup {NoDevice}]

Idle == [pc |-> "idle"]
Registering == [pc : {"creating", "pinning"}, form : Forms]
Storing == [pc : {"storing"}, form : Forms, cid : Document]
Locking == [pc : {"locking"}, email : Emails, existing : BOOLEAN]
Admitting == [pc : {"admitting"}, email : Emails, existing : BOOLEAN,
              root : 1..MaxDeployments]
Equipping == [pc : {"enrolling", "binding", "rebinding"}, student : Emails,
              device : Devices \cup {NoDevice}, row : Student \cup {NoRow}]

NoScript == [pc |-> "idle"]
Script == [pc : {"running"}, todo : SUBSET Emails,
           pins : [Emails -> Document \cup {NoCid}]]

TypeOK ==
    /\ RegistryTypeOK
    /\ deployment \in 1..MaxDeployments
    /\ lateLock \in BOOLEAN
    /\ users \in [Emails -> User \cup {NoUser}]
    /\ students \in [Emails -> Student \cup {NoRow}]
    /\ req \in [Threads -> {Idle} \cup Registering \cup Storing \cup Locking
                                \cup Admitting \cup Equipping]
    /\ backfill \in {NoScript} \cup Script
    /\ started \in 0..MaxRequests
    /\ faults \in 0..MaxFaults

Init ==
    /\ Unlocked
    /\ deployment = 1
    /\ lateLock = FALSE
    /\ users = [e \in Emails |-> NoUser]
    /\ students = [e \in Emails |-> NoRow]
    /\ req = [t \in Threads |-> Idle]
    /\ backfill = NoScript
    /\ started = 0
    /\ faults = 0

Step(t, r) == req' = [req EXCEPT ![t] = r]
Done(t) == Step(t, Idle)

Begin(t, r) ==
    /\ req[t] = Idle
    /\ started < MaxRequests
    /\ started' = started + 1
    /\ Step(t, r)
    /\ UNCHANGED <<chainVars, users, students, backfill, faults>>

Fault ==
    /\ faults < MaxFaults
    /\ faults' = faults + 1

-----------------------------------------------------------------------------
(* Registration *)

Exists(e, roles) == users[e] # NoUser /\ users[e].role \in roles

\* employee_id and roll_number are unique among the profiles of their kind.
IdentTaken(f) == \E e \in Emails : Exists(e, {f.role}) /\ users[e].ident = f.ident

Whitelisted(f) == f.role = "HOD" => [email |-> f.email, ident |-> f.ident] \in Whitelist

RegisterChecks(t, f) ==
    /\ Whitelisted(f)
    /\ ~IdentTaken(f)
    /\ users[f.email] = NoUser
    /\ Begin(t, [pc |-> "creating", form |-> f])

NewUser(f) == [role |-> f.role, ident |-> IF f.role = "HOD" THEN NoIdent ELSE f.ident,
               cid |-> NoCid, root |-> 0]

\* The INSERTs and their commit; the unique columns decide between two requests.
CreateAccount(t) ==
    /\ req[t].pc = "creating"
    /\ LET f == req[t].form IN
          /\ users[f.email] = NoUser /\ ~IdentTaken(f)
          /\ users' = [users EXCEPT ![f.email] = NewUser(f)]
          /\ Step(t, [pc |-> "pinning", form |-> f])
    /\ UNCHANGED <<chainVars, students, backfill, started, faults>>

BuildDocument(e, ident) == [role |-> users[e].role, account |-> e, ident |-> ident]

PinProfile(t) ==
    /\ req[t].pc = "pinning"
    /\ LET f == req[t].form IN
          Step(t, [pc |-> "storing", form |-> f, cid |-> BuildDocument(f.email, f.ident)])
    /\ UNCHANGED <<chainVars, users, students, backfill, started, faults>>

StoreCid(t) ==
    /\ req[t].pc = "storing"
    /\ users' = [users EXCEPT ![req[t].form.email].cid = req[t].cid]
    /\ Done(t)
    /\ UNCHANGED <<chainVars, students, backfill, started, faults>>

-----------------------------------------------------------------------------
(* Bootstrap: the chain is locked first, the ADMIN row is inserted after it *)

BootstrapChecks(t, e) ==
    /\ users[e] = NoUser \/ Exists(e, {"ADMIN"})
    /\ ~locked
    /\ Begin(t, [pc |-> "locking", email |-> e, existing |-> users[e] # NoUser])

LockMined(t) ==
    /\ req[t].pc = "locking"
    /\ LockRoot(Deployer, AdminRoot)
    /\ Step(t, [pc |-> "admitting", email |-> req[t].email,
                existing |-> req[t].existing, root |-> deployment])
    /\ UNCHANGED <<deployment, lateLock, users, students, backfill, started, faults>>

\* No receipt in time, or get_block raises: the request ends in an error.
LockUnconfirmed(t) ==
    /\ req[t].pc = "locking"
    /\ Fault
    /\ lateLock' = TRUE
    /\ Done(t)
    /\ UNCHANGED <<locked, rootAdmin, deployment, users, students, backfill, started>>

\* The transaction left behind is mined, or reverts, or is dropped.
LateLock ==
    /\ lateLock
    /\ lateLock' = FALSE
    /\ LockRoot(Deployer, AdminRoot) \/ UNCHANGED registryVars
    /\ UNCHANGED <<deployment, users, students, req, backfill, started, faults>>

\* A careless edit of the insert: an account with the email becomes the ADMIN.
AdmitAnyEmail(e) == TRUE

\* users.email is unique.
MayAdmit(e) == users[e] = NoUser

\* An ADMIN that was there already stays as it is.
CreateAdmin(t) ==
    /\ req[t].pc = "admitting"
    /\ LET e == req[t].email IN
          \/ req[t].existing /\ users' = users
          \/ /\ ~req[t].existing /\ MayAdmit(e)
             /\ users' = [users EXCEPT ![e] = [role |-> "ADMIN", ident |-> NoIdent,
                                               cid |-> NoCid, root |-> req[t].root]]
    /\ Done(t)
    /\ UNCHANGED <<chainVars, students, backfill, started, faults>>

\* The local chain is started anew and the registry deployed again.
Redeploy ==
    /\ deployment < MaxDeployments
    /\ deployment' = deployment + 1
    /\ locked' = FALSE /\ rootAdmin' = ZeroAddress
    /\ lateLock' = FALSE
    /\ UNCHANGED <<users, students, req, backfill, started, faults>>

-----------------------------------------------------------------------------
(* Students and their devices *)

Taken(e, d) == \E o \in Emails \ {e} : students[o] # NoRow /\ students[o].device = d

EnrollChecks(t, e) ==
    /\ Exists(e, {"STUDENT"})
    /\ Begin(t, [pc |-> "enrolling", student |-> e, device |-> NoDevice,
                 row |-> students[e]])

\* A careless edit of enroll_face: the row is written as it was read.
EnrollWholeRow(t) ==
    /\ req[t].pc = "enrolling"
    /\ students' = [students EXCEPT ![req[t].student] =
                       IF req[t].row = NoRow THEN [device |-> NoDevice] ELSE req[t].row]
    /\ Done(t)
    /\ UNCHANGED <<chainVars, users, backfill, started, faults>>

\* A new row is inserted; an existing one is updated in the columns that changed,
\* and device_id is none of them.
EnrollCommit(t) ==
    /\ req[t].pc = "enrolling"
    /\ LET e == req[t].student IN
          \/ req[t].row # NoRow /\ students' = students
          \/ /\ req[t].row = NoRow /\ students[e] = NoRow
             /\ students' = [students EXCEPT ![e] = [device |-> NoDevice]]
    /\ Done(t)
    /\ UNCHANGED <<chainVars, users, backfill, started, faults>>

BindChecks(t, e, d) ==
    /\ students[e] # NoRow
    /\ students[e].device = NoDevice
    /\ ~Taken(e, d)
    /\ Begin(t, [pc |-> "binding", student |-> e, device |-> d, row |-> students[e]])

RebindChecks(t, e, d) ==
    /\ \E h \in Emails : Exists(h, {"HOD", "ADMIN"})
    /\ students[e] # NoRow
    /\ ~Taken(e, d)
    /\ Begin(t, [pc |-> "rebinding", student |-> e, device |-> d, row |-> students[e]])

\* The commit of both: no UPDATE if the row was read with this device already;
\* device_id is unique.
WriteDevice(t) ==
    /\ req[t].pc \in {"binding", "rebinding"}
    /\ LET e == req[t].student
           d == req[t].device IN
          \/ req[t].row.device = d /\ students' = students
          \/ /\ req[t].row.device # d /\ ~Taken(e, d)
             /\ students' = [students EXCEPT ![e].device = d]
    /\ Done(t)
    /\ UNCHANGED <<chainVars, users, backfill, started, faults>>

-----------------------------------------------------------------------------
(* Failures of a request *)

\* A unique column, a primary key or the contract refuses what the checks allowed.
Conflict(t) ==
    /\ \/ /\ req[t].pc = "creating"
          /\ users[req[t].form.email] # NoUser \/ IdentTaken(req[t].form)
       \/ req[t].pc = "locking" /\ ~MayLock(Deployer, AdminRoot)
       \/ req[t].pc = "admitting" /\ ~req[t].existing /\ users[req[t].email] # NoUser
       \/ /\ req[t].pc = "enrolling"
          /\ req[t].row = NoRow /\ students[req[t].student] # NoRow
       \/ /\ req[t].pc \in {"binding", "rebinding"}
          /\ req[t].row.device # req[t].device
          /\ Taken(req[t].student, req[t].device)
    /\ Done(t)
    /\ UNCHANGED <<chainVars, users, students, backfill, started, faults>>

\* IPFS is down, the node refuses the transaction, or a commit fails and is rolled
\* back.
RequestFails(t) ==
    /\ req[t] # Idle
    /\ Fault
    /\ Done(t)
    /\ UNCHANGED <<chainVars, users, students, backfill, started>>

\* The server dies and is restarted.
Crash ==
    /\ Fault
    /\ req' = [t \in Threads |-> Idle]
    /\ UNCHANGED <<chainVars, users, students, backfill, started>>

-----------------------------------------------------------------------------
(* backfill_profile_cids.py, with one commit at its end *)

\* A careless edit of _targets: only the profile tables are searched.
TargetsWithoutHods ==
    {e \in Emails : Exists(e, {"FACULTY", "STUDENT"}) /\ users[e].cid = NoCid}

\* Its three queries, taken as one.
Targets ==
    {e \in Emails : Exists(e, {"FACULTY", "STUDENT", "HOD"}) /\ users[e].cid = NoCid}

StartBackfill ==
    /\ backfill = NoScript
    /\ Targets # {}
    /\ backfill' = [pc |-> "running", todo |-> Targets, pins |-> [e \in Emails |-> NoCid]]
    /\ UNCHANGED <<chainVars, users, students, req, started, faults>>

\* A careless edit of pin_for_user: the whitelist is not asked.
IdentFromProfile(e) == users[e].ident

\* An HOD's employee id comes from the whitelist, by email.
IdentOf(e) ==
    IF users[e].role # "HOD" THEN users[e].ident
    ELSE IF \E w \in Whitelist : w.email = e
         THEN (CHOOSE w \in Whitelist : w.email = e).ident
         ELSE NoIdent

BackfillPin(e) ==
    /\ backfill # NoScript /\ e \in backfill.todo
    /\ backfill' = [backfill EXCEPT !.todo = @ \ {e},
                                    !.pins[e] = BuildDocument(e, IdentOf(e))]
    /\ UNCHANGED <<chainVars, users, students, req, started, faults>>

BackfillSkips(e) ==
    /\ backfill # NoScript /\ e \in backfill.todo
    /\ Fault
    /\ backfill' = [backfill EXCEPT !.todo = @ \ {e}]
    /\ UNCHANGED <<chainVars, users, students, req, started>>

BackfillCommit ==
    /\ backfill # NoScript /\ backfill.todo = {}
    /\ users' = [e \in Emails |->
                    IF backfill.pins[e] = NoCid THEN users[e]
                    ELSE [users[e] EXCEPT !.cid = backfill.pins[e]]]
    /\ backfill' = NoScript
    /\ UNCHANGED <<chainVars, students, req, started, faults>>

\* The script dies, or its commit fails: nothing it pinned is stored.
BackfillDies ==
    /\ backfill # NoScript
    /\ Fault
    /\ backfill' = NoScript
    /\ UNCHANGED <<chainVars, users, students, req, started>>

-----------------------------------------------------------------------------

RequestStep(t) ==
    \/ \E f \in Forms : RegisterChecks(t, f)
    \/ CreateAccount(t) \/ PinProfile(t) \/ StoreCid(t)
    \/ \E e \in Emails : BootstrapChecks(t, e)
    \/ LockMined(t) \/ LockUnconfirmed(t) \/ CreateAdmin(t)
    \/ \E e \in Emails : EnrollChecks(t, e)
    \/ \E e \in Emails, d \in Devices : BindChecks(t, e, d) \/ RebindChecks(t, e, d)
    \/ EnrollCommit(t) \/ WriteDevice(t)
    \/ Conflict(t) \/ RequestFails(t)

ScriptStep == StartBackfill \/ (\E e \in Emails : BackfillPin(e)) \/ BackfillCommit

Next ==
    \/ \E t \in Threads : RequestStep(t)
    \/ LateLock
    \/ Redeploy
    \/ Crash
    \/ ScriptStep
    \/ \E e \in Emails : BackfillSkips(e)
    \/ BackfillDies

\* The script is run again for as long as it has something to do, and comes to its
\* end once faults have ceased.
Fairness == WF_vars(ScriptStep)

Spec == Init /\ [][Next]_vars /\ Fairness

(***************************************************************************)
(* Properties                                                              *)
(***************************************************************************)

\* bootstrap_admin (governance.py:84-86, "the permanent on-chain lock - not a local
\* check - is what makes this a one-time operation"): however many bootstraps race,
\* and whatever fails between the lock and the INSERT, two administrators
\* never owe their accounts to the same lock.
AdminPerLock ==
    \A e, o \in Emails :
        Exists(e, {"ADMIN"}) /\ Exists(o, {"ADMIN"}) /\ users[e].root = users[o].root
            => e = o

\* An account that exists keeps its role and its identifier: a bootstrap that
\* found the email free and inserts after somebody else registered it
\* (governance.py:138 and 176) takes nothing over.
AccountsKept ==
    [][\A e \in Emails : users[e] # NoUser =>
          /\ users'[e] # NoUser
          /\ users'[e].role = users[e].role
          /\ users'[e].ident = users[e].ident]_vars

\* Whoever pinned it and however late it is stored - a registration after its
\* commit (auth.py:48-70) or a run of the script beside it
\* (backfill_profile_cids.py:92) - a stored CID is that of the owner's own document,
\* with the identifier the account was verified by.
Describes(doc, e) ==
    /\ doc.account = e
    /\ doc.role = users[e].role
    /\ IF doc.role = "HOD" THEN [email |-> e, ident |-> doc.ident] \in Whitelist
                           ELSE doc.ident = users[e].ident

CidDescribesOwner ==
    \A e \in Emails : users[e] # NoUser /\ users[e].cid # NoCid => Describes(users[e].cid, e)

\* A student who has a device bound is never without one again: an enrolment that
\* read the row before the binding and writes it after (students.py:46-59)
\* leaves the device alone.
BindingNeverLost ==
    [][\A e \in Emails : students[e] # NoRow =>
          /\ students'[e] # NoRow
          /\ students[e].device # NoDevice => students'[e].device # NoDevice]_vars

\* auth.py:11-13: a profile that registration could not pin is pinned by the
\* script in the end.
ProfilesPinned ==
    \A e \in Emails :
        Exists(e, {"HOD", "FACULTY", "STUDENT"}) ~> Exists(e, Roles) /\ users[e].cid # NoCid
=============================================================================
