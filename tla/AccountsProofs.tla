---------------------------- MODULE AccountsProofs ----------------------------
(***************************************************************************)
(* Accounts for any number of addresses, forms, devices, threads and       *)
(* deployments: types; accounts and bindings are kept; a stored CID is the *)
(* owner's; one administrator for each lock of the root.                   *)
(***************************************************************************)
EXTENDS Accounts, TLAPS

-----------------------------------------------------------------------------
(* What a thread's local variables are *)

LEMMA RequestKinds ==
  ASSUME TypeOK, NEW t \in Threads
  PROVE  /\ req[t].pc = "idle" => req[t] = Idle
         /\ req[t].pc \in {"creating", "pinning"} => req[t] \in Registering
         /\ req[t].pc = "storing" => req[t] \in Storing
         /\ req[t].pc = "locking" => req[t] \in Locking
         /\ req[t].pc = "admitting" => req[t] \in Admitting
         /\ req[t].pc \in {"enrolling", "binding", "rebinding"} => req[t] \in Equipping
<1>1. req[t] \in {Idle} \cup Registering \cup Storing \cup Locking \cup Admitting \cup Equipping
  BY DEF TypeOK
<1>2. CASE req[t] = Idle
  BY <1>2 DEF Idle
<1>3. CASE req[t] \in Registering
  BY <1>3 DEF Registering
<1>4. CASE req[t] \in Storing
  BY <1>4 DEF Storing
<1>5. CASE req[t] \in Locking
  BY <1>5 DEF Locking
<1>6. CASE req[t] \in Admitting
  BY <1>6 DEF Admitting
<1>7. CASE req[t] \in Equipping
  BY <1>7 DEF Equipping
<1> QED
  BY <1>1, <1>2, <1>3, <1>4, <1>5, <1>6, <1>7

\* The types of rows: nothing stands for a row that is none.
LEMMA RowKinds ==
  /\ NoUser \notin User /\ NoRow \notin Student /\ NoCid \notin Document
  /\ NoDevice \notin Devices /\ 0 \in 0..MaxDeployments
  /\ 1..MaxDeployments \subseteq 0..MaxDeployments
  /\ \A f \in Forms : /\ f.email \in Emails /\ f.ident \in Idents
                      /\ f.role \in {"HOD", "FACULTY", "STUDENT"}
                      /\ NewUser(f) \in User
                      /\ NewUser(f).cid = NoCid /\ NewUser(f).role = f.role
<1>1. NoUser \notin User /\ NoRow \notin Student /\ NoCid \notin Document /\ NoDevice \notin Devices
  BY NothingAssumption DEF User, Student
<1>2. 0 \in 0..MaxDeployments /\ 1..MaxDeployments \subseteq 0..MaxDeployments
  BY BoundAssumption
<1>3. ASSUME NEW f \in Forms
      PROVE  /\ f.email \in Emails /\ f.ident \in Idents
             /\ f.role \in {"HOD", "FACULTY", "STUDENT"}
             /\ NewUser(f) \in User /\ NewUser(f).cid = NoCid /\ NewUser(f).role = f.role
  BY <1>2, FormAssumption DEF Form, Roles, NewUser, User
<1> QED
  BY <1>1, <1>2, <1>3

-----------------------------------------------------------------------------
(* The inductive invariant: what is still to be written fits the row it is for *)

\* Thread t writes to rows that are there, and a document it holds is the owner's.
RequestOK(t) ==
    /\ req[t].pc \in {"creating", "pinning", "storing"} => Whitelisted(req[t].form)
    /\ req[t].pc \in {"pinning", "storing"} =>
          /\ users[req[t].form.email] # NoUser
          /\ users[req[t].form.email].role = req[t].form.role
          /\ users[req[t].form.email].ident = NewUser(req[t].form).ident
    /\ req[t].pc = "storing" => Describes(req[t].cid, req[t].form.email)
    /\ req[t].pc = "enrolling" /\ req[t].row # NoRow => students[req[t].student] # NoRow
    /\ req[t].pc \in {"binding", "rebinding"} =>
          /\ students[req[t].student] # NoRow /\ req[t].row # NoRow
          /\ req[t].device \in Devices

ScriptOK ==
    backfill # NoScript =>
        \A e \in Emails :
            /\ e \in backfill.todo => Exists(e, {"HOD", "FACULTY", "STUDENT"})
            /\ backfill.pins[e] # NoCid => users[e] # NoUser /\ Describes(backfill.pins[e], e)

HodsListed == \A e \in Emails : Exists(e, {"HOD"}) => \E w \in Whitelist : w.email = e

AccountsInv ==
    /\ TypeOK
    /\ \A t \in Threads : RequestOK(t)
    /\ ScriptOK
    /\ HodsListed
    /\ CidDescribesOwner

\* What no step takes away.
UsersKept ==
    \A e \in Emails : users[e] # NoUser =>
        /\ users'[e] # NoUser
        /\ users'[e].role = users[e].role
        /\ users'[e].ident = users[e].ident

StudentsKept ==
    \A e \in Emails : students[e] # NoRow =>
        /\ students'[e] # NoRow
        /\ students[e].device # NoDevice => students'[e].device # NoDevice

\* A document that describes an account keeps describing it, and a thread or a script
\* that does not move keeps its part of the invariant.
LEMMA Lasting ==
  ASSUME TypeOK, UsersKept, StudentsKept
  PROVE  /\ \A e \in Emails : \A doc : users[e] # NoUser /\ Describes(doc, e)
                                     => Describes(doc, e)'
         /\ \A t \in Threads : RequestOK(t) /\ req'[t] = req[t] => RequestOK(t)'
         /\ ScriptOK /\ backfill' = backfill => ScriptOK'
<1>1. ASSUME NEW e \in Emails, NEW doc, users[e] # NoUser, Describes(doc, e)
      PROVE  Describes(doc, e)'
  BY <1>1 DEF UsersKept, Describes
<1>2. ASSUME NEW t \in Threads, RequestOK(t), req'[t] = req[t]
      PROVE  RequestOK(t)'
  <2>1. /\ req[t].pc \in {"creating", "pinning", "storing"} => req[t].form \in Forms
        /\ req[t].pc \in {"enrolling", "binding", "rebinding"} => req[t].student \in Emails
    BY RequestKinds DEF Registering, Storing, Equipping
  <2>2. req[t].pc \in {"creating", "pinning", "storing"} => req[t].form.email \in Emails
    BY <2>1, RowKinds
  <2>3. req[t].pc = "storing" => Describes(req[t].cid, req[t].form.email)'
    BY <1>1, <1>2, <2>2 DEF RequestOK
  <2> QED
    BY <1>2, <2>1, <2>2, <2>3 DEF RequestOK, UsersKept, StudentsKept, Whitelisted, NewUser
<1>3. ASSUME ScriptOK, backfill' = backfill
      PROVE  ScriptOK'
  BY <1>1, <1>3 DEF ScriptOK, Exists, UsersKept
<1> QED
  BY <1>1, <1>2, <1>3

\* A thread that ends leaves nothing behind.
LEMMA EndedOK ==
  ASSUME NEW t \in Threads, req'[t] = Idle
  PROVE  RequestOK(t)'
BY DEF RequestOK, Idle

\* The table of users is as it was.
LEMMA SameUsers ==
  ASSUME users' = users
  PROVE  /\ UsersKept
         /\ HodsListed => HodsListed'
         /\ CidDescribesOwner => CidDescribesOwner'
BY DEF UsersKept, HodsListed, Exists, CidDescribesOwner, Describes

\* A request begins.
LEMMA BeginStep ==
  ASSUME AccountsInv, NEW t \in Threads, NEW r, Begin(t, r),
         r \in Registering \cup Locking \cup Equipping, RequestOK(t)'
  PROVE  AccountsInv' /\ UsersKept /\ StudentsKept
<1>1. UsersKept /\ StudentsKept /\ HodsListed' /\ CidDescribesOwner'
  BY SameUsers DEF AccountsInv, Begin, StudentsKept
<1>2. TypeOK'
  BY BoundAssumption
     DEF AccountsInv, TypeOK, Begin, Step, RegistryTypeOK, chainVars
<1>3. ASSUME NEW u \in Threads
      PROVE  RequestOK(u)'
  <2>1. CASE u = t
    BY <2>1
  <2>2. CASE u # t
    BY <1>1, <2>2, Lasting DEF AccountsInv, TypeOK, Begin, Step
  <2> QED
    BY <2>1, <2>2
<1> QED
  BY <1>1, <1>2, <1>3, Lasting DEF AccountsInv, Begin

\* A request ends, and no row changes.
LEMMA EndStep ==
  ASSUME AccountsInv, NEW t \in Threads, Done(t),
         UNCHANGED <<users, students, backfill>>, TypeOK'
  PROVE  AccountsInv' /\ UsersKept /\ StudentsKept
<1>1. UsersKept /\ StudentsKept /\ HodsListed' /\ CidDescribesOwner'
  BY SameUsers DEF AccountsInv, StudentsKept
<1>2. ASSUME NEW u \in Threads
      PROVE  RequestOK(u)'
  <2>1. CASE u = t
    BY <2>1, EndedOK DEF Done, Step, AccountsInv, TypeOK
  <2>2. CASE u # t
    BY <1>1, <2>2, Lasting DEF AccountsInv, TypeOK, Done, Step
  <2> QED
    BY <2>1, <2>2
<1> QED
  BY <1>1, <1>2, Lasting DEF AccountsInv

\* Thread t moves on, or ends, having written to the tables.
LEMMA WriteStep ==
  ASSUME AccountsInv, NEW t \in Threads, NEW r, Step(t, r),
         backfill' = backfill, TypeOK', UsersKept, StudentsKept,
         RequestOK(t)', HodsListed', CidDescribesOwner'
  PROVE  AccountsInv'
<1>1. ASSUME NEW u \in Threads
      PROVE  RequestOK(u)'
  <2>1. CASE u = t
    BY <2>1
  <2>2. CASE u # t
    BY <2>2, Lasting DEF AccountsInv, TypeOK, Step
  <2> QED
    BY <2>1, <2>2
<1> QED
  BY <1>1, Lasting DEF AccountsInv

-----------------------------------------------------------------------------
(* The steps *)

LEMMA RegistrationSteps ==
  ASSUME AccountsInv, NEW t \in Threads,
         \/ \E f \in Forms : RegisterChecks(t, f)
         \/ CreateAccount(t) \/ PinProfile(t) \/ StoreCid(t)
  PROVE  AccountsInv' /\ UsersKept /\ StudentsKept
<1>1. ASSUME NEW f \in Forms, RegisterChecks(t, f)
      PROVE  AccountsInv' /\ UsersKept /\ StudentsKept
  <2> DEFINE r == [pc |-> "creating", form |-> f]
  <2>1. r \in Registering
    BY DEF Registering
  <2>2. req'[t] = r
    BY <1>1 DEF RegisterChecks, Begin, Step, AccountsInv, TypeOK
  <2>3. RequestOK(t)'
    BY <1>1, <2>2 DEF RegisterChecks, RequestOK, Whitelisted
  <2> QED
    BY <1>1, <2>1, <2>3, BeginStep DEF RegisterChecks
<1>2. CASE CreateAccount(t)
  <2> DEFINE f == req[t].form
             r == [pc |-> "pinning", form |-> f]
  <2>1. f \in Forms /\ f.email \in Emails /\ Whitelisted(f)
    BY <1>2, RequestKinds, RowKinds DEF CreateAccount, Registering, AccountsInv, RequestOK
  <2>2. /\ Step(t, r) /\ req'[t] = r /\ students' = students /\ backfill' = backfill
        /\ users' = [users EXCEPT ![f.email] = NewUser(f)] /\ users[f.email] = NoUser
    BY <1>2 DEF CreateAccount, Step, AccountsInv, TypeOK
  <2>3. NewUser(f) \in User /\ NewUser(f).cid = NoCid /\ NewUser(f).role = f.role
        /\ NewUser(f) # NoUser
    BY <2>1, RowKinds
  <2>4. /\ users'[f.email] = NewUser(f)
        /\ \A e \in Emails \ {f.email} : users'[e] = users[e]
    BY <2>1, <2>2 DEF AccountsInv, TypeOK
  <2>5. UsersKept /\ StudentsKept
    BY <2>2, <2>4 DEF UsersKept, StudentsKept
  <2>6. TypeOK'
    <3>1. r \in Registering
      BY <2>1 DEF Registering
    <3>2. users' \in [Emails -> User \cup {NoUser}]
      BY <2>2, <2>3 DEF AccountsInv, TypeOK
    <3> QED
      BY <1>2, <2>2, <3>1, <3>2
         DEF CreateAccount, AccountsInv, TypeOK, Step, RegistryTypeOK, chainVars
  <2>7. RequestOK(t)'
    BY <2>1, <2>2, <2>3, <2>4 DEF RequestOK, Whitelisted, NewUser
  <2>8. HodsListed'
    BY <2>1, <2>3, <2>4 DEF AccountsInv, HodsListed, Exists, Whitelisted
  <2>9. CidDescribesOwner'
    BY <2>3, <2>4 DEF AccountsInv, CidDescribesOwner, Describes
  <2> QED
    BY <2>2, <2>5, <2>6, <2>7, <2>8, <2>9, WriteStep
<1>3. CASE PinProfile(t)
  <2>1. PICK f \in Forms : f = req[t].form
    BY <1>3, RequestKinds DEF PinProfile, Registering, AccountsInv
  <2>2. /\ f.email \in Emails /\ f.ident \in Idents /\ Whitelisted(f)
        /\ users[f.email] \in User /\ users[f.email] # NoUser
        /\ users[f.email].role = f.role /\ users[f.email].ident = NewUser(f).ident
    BY <1>3, <2>1, RowKinds DEF PinProfile, AccountsInv, TypeOK, RequestOK
  <2>3. PICK doc \in Document : doc = BuildDocument(f.email, f.ident)
    BY <2>2 DEF BuildDocument, Document, User
  <2> DEFINE r == [pc |-> "storing", form |-> f, cid |-> doc]
  <2>4. /\ Step(t, r) /\ req'[t] = r /\ users' = users
        /\ students' = students /\ backfill' = backfill
    BY <1>3, <2>1, <2>3 DEF PinProfile, Step, AccountsInv, TypeOK
  <2>5. TypeOK'
    <3>1. r \in Storing
      BY DEF Storing
    <3> QED
      BY <1>3, <2>4, <3>1 DEF PinProfile, AccountsInv, TypeOK, Step, RegistryTypeOK, chainVars
  <2>6. RequestOK(t)'
    <3>1. Describes(doc, f.email)
      BY <2>2, <2>3 DEF BuildDocument, Describes, NewUser, Whitelisted
    <3>2. Describes(doc, f.email)'
      BY <2>4, <3>1 DEF Describes
    <3> QED
      BY <2>2, <2>4, <3>2 DEF RequestOK, Whitelisted, NewUser
  <2> QED
    BY <2>4, <2>5, <2>6, SameUsers, WriteStep DEF AccountsInv, StudentsKept
<1>4. CASE StoreCid(t)
  <2> DEFINE e == req[t].form.email
  <2>1. /\ req[t].form \in Forms /\ e \in Emails /\ req[t].cid \in Document
        /\ users[e] \in User /\ Describes(req[t].cid, e)
    BY <1>4, RequestKinds, RowKinds
       DEF StoreCid, Storing, AccountsInv, TypeOK, RequestOK
  <2>2. /\ Step(t, Idle) /\ req'[t] = Idle /\ students' = students /\ backfill' = backfill
        /\ users' = [users EXCEPT ![e].cid = req[t].cid]
    BY <1>4 DEF StoreCid, Done, Step, AccountsInv, TypeOK
  <2>3. /\ users'[e] = [users[e] EXCEPT !.cid = req[t].cid]
        /\ \A o \in Emails \ {e} : users'[o] = users[o]
    BY <2>1, <2>2 DEF AccountsInv, TypeOK
  <2>4. /\ users'[e] \in User /\ users'[e].cid = req[t].cid
        /\ users'[e].role = users[e].role /\ users'[e].ident = users[e].ident
    BY <2>1, <2>3 DEF User
  <2>5. UsersKept /\ StudentsKept
    BY <2>2, <2>3, <2>4, RowKinds DEF UsersKept, StudentsKept
  <2>6. TypeOK'
    <3>1. users' \in [Emails -> User \cup {NoUser}]
      BY <2>2, <2>3, <2>4 DEF AccountsInv, TypeOK
    <3> QED
      BY <1>4, <3>1
         DEF StoreCid, Done, AccountsInv, TypeOK, Step, RegistryTypeOK, chainVars
  <2>7. RequestOK(t)'
    BY <2>2, EndedOK
  <2>a. ASSUME NEW o \in Emails
        PROVE  \/ users'[o] = users[o]
               \/ /\ users[o] \in User
                  /\ users'[o].role = users[o].role /\ users'[o].ident = users[o].ident
                  /\ Describes(users'[o].cid, o)
    BY <2>1, <2>3, <2>4
  <2>8. HodsListed'
    BY <2>a, RowKinds DEF AccountsInv, HodsListed, Exists
  <2>9. CidDescribesOwner'
    BY <2>a DEF AccountsInv, CidDescribesOwner, Describes
  <2> QED
    BY <2>2, <2>5, <2>6, <2>7, <2>8, <2>9, WriteStep
<1> QED
  BY <1>1, <1>2, <1>3, <1>4

LEMMA BootstrapSteps ==
  ASSUME AccountsInv, NEW t \in Threads,
         \/ \E e \in Emails : BootstrapChecks(t, e)
         \/ LockMined(t) \/ LockUnconfirmed(t) \/ CreateAdmin(t)
  PROVE  AccountsInv' /\ UsersKept /\ StudentsKept
<1>1. ASSUME NEW e \in Emails, BootstrapChecks(t, e)
      PROVE  AccountsInv' /\ UsersKept /\ StudentsKept
  <2> DEFINE r == [pc |-> "locking", email |-> e, existing |-> users[e] # NoUser]
  <2>1. r \in Locking
    BY DEF Locking
  <2>2. req'[t] = r
    BY <1>1 DEF BootstrapChecks, Begin, Step, AccountsInv, TypeOK
  <2>3. RequestOK(t)'
    BY <2>2 DEF RequestOK
  <2> QED
    BY <1>1, <2>1, <2>3, BeginStep DEF BootstrapChecks
<1>2. CASE LockMined(t)
  <2> DEFINE r == [pc |-> "admitting", email |-> req[t].email,
                   existing |-> req[t].existing, root |-> deployment]
  <2>1. r \in Admitting
    BY <1>2, RequestKinds DEF LockMined, Locking, Admitting, AccountsInv, TypeOK
  <2>2. /\ Step(t, r) /\ req'[t] = r /\ users' = users
        /\ students' = students /\ backfill' = backfill
    BY <1>2 DEF LockMined, Step, AccountsInv, TypeOK
  <2>3. TypeOK'
    BY <1>2, <2>1, RootAssumption
       DEF LockMined, LockRoot, AccountsInv, TypeOK, Step, RegistryTypeOK
  <2>4. RequestOK(t)'
    BY <2>2 DEF RequestOK
  <2> QED
    BY <2>2, <2>3, <2>4, SameUsers, WriteStep DEF AccountsInv, StudentsKept
<1>3. CASE LockUnconfirmed(t)
  <2>1. TypeOK'
    BY <1>3, BoundAssumption
       DEF LockUnconfirmed, Done, Step, Fault, AccountsInv, TypeOK, RegistryTypeOK
  <2> QED
    BY <1>3, <2>1, EndStep DEF LockUnconfirmed
<1>4. CASE CreateAdmin(t) /\ req[t].existing
  <2>1. TypeOK'
    BY <1>4 DEF CreateAdmin, Done, Step, AccountsInv, TypeOK, RegistryTypeOK, chainVars
  <2> QED
    BY <1>4, <2>1, EndStep DEF CreateAdmin
<1>5. CASE CreateAdmin(t) /\ ~req[t].existing
  <2> DEFINE e == req[t].email
             row == [role |-> "ADMIN", ident |-> NoIdent, cid |-> NoCid, root |-> req[t].root]
  <2>1. e \in Emails /\ row \in User /\ row # NoUser
    BY <1>5, RequestKinds, RowKinds DEF CreateAdmin, Admitting, User, Roles, AccountsInv
  <2>2. /\ Step(t, Idle) /\ req'[t] = Idle /\ students' = students /\ backfill' = backfill
        /\ users' = [users EXCEPT ![e] = row] /\ users[e] = NoUser
    BY <1>5 DEF CreateAdmin, MayAdmit, Done, Step, AccountsInv, TypeOK
  <2>3. users'[e] = row /\ \A o \in Emails \ {e} : users'[o] = users[o]
    BY <2>1, <2>2 DEF AccountsInv, TypeOK
  <2>4. UsersKept /\ StudentsKept
    BY <2>2, <2>3 DEF UsersKept, StudentsKept
  <2>5. TypeOK'
    BY <1>5, <2>1, <2>2
       DEF CreateAdmin, AccountsInv, TypeOK, Step, RegistryTypeOK, chainVars
  <2>6. RequestOK(t)'
    BY <2>2, EndedOK
  <2>7. HodsListed'
    BY <2>3 DEF AccountsInv, HodsListed, Exists
  <2>8. CidDescribesOwner'
    BY <2>3 DEF AccountsInv, CidDescribesOwner, Describes
  <2> QED
    BY <2>2, <2>4, <2>5, <2>6, <2>7, <2>8, WriteStep
<1> QED
  BY <1>1, <1>2, <1>3, <1>4, <1>5

LEMMA DeviceSteps ==
  ASSUME AccountsInv, NEW t \in Threads,
         \/ \E e \in Emails : EnrollChecks(t, e)
         \/ \E e \in Emails, d \in Devices : BindChecks(t, e, d) \/ RebindChecks(t, e, d)
         \/ EnrollCommit(t) \/ WriteDevice(t)
  PROVE  AccountsInv' /\ UsersKept /\ StudentsKept
<1>1. ASSUME NEW e \in Emails, EnrollChecks(t, e)
      PROVE  AccountsInv' /\ UsersKept /\ StudentsKept
  <2> DEFINE r == [pc |-> "enrolling", student |-> e, device |-> NoDevice,
                   row |-> students[e]]
  <2>1. r \in Equipping
    BY DEF Equipping, AccountsInv, TypeOK
  <2>2. req'[t] = r /\ students' = students
    BY <1>1 DEF EnrollChecks, Begin, Step, AccountsInv, TypeOK
  <2>3. RequestOK(t)'
    BY <2>2 DEF RequestOK
  <2> QED
    BY <1>1, <2>1, <2>3, BeginStep DEF EnrollChecks
<1>2. ASSUME NEW e \in Emails, NEW d \in Devices, NEW pc \in {"binding", "rebinding"},
             students[e] # NoRow,
             Begin(t, [pc |-> pc, student |-> e, device |-> d, row |-> students[e]])
      PROVE  AccountsInv' /\ UsersKept /\ StudentsKept
  <2> DEFINE r == [pc |-> pc, student |-> e, device |-> d, row |-> students[e]]
  <2>1. r \in Equipping
    BY DEF Equipping, AccountsInv, TypeOK
  <2>2. req'[t] = r /\ students' = students
    BY <1>2 DEF Begin, Step, AccountsInv, TypeOK
  <2>3. RequestOK(t)'
    BY <1>2, <2>2 DEF RequestOK
  <2> QED
    BY <1>2, <2>1, <2>3, BeginStep
<1>3. CASE EnrollCommit(t) \/ WriteDevice(t)
  <2> DEFINE e == req[t].student
  <2>1. e \in Emails
    BY <1>3, RequestKinds DEF EnrollCommit, WriteDevice, Equipping, AccountsInv
  <2>2. /\ Step(t, Idle) /\ req'[t] = Idle /\ users' = users /\ backfill' = backfill
    BY <1>3 DEF EnrollCommit, WriteDevice, Done, Step, AccountsInv, TypeOK
  <2>3. ASSUME StudentsKept, students' \in [Emails -> Student \cup {NoRow}]
        PROVE  AccountsInv' /\ UsersKept /\ StudentsKept
    <3>1. TypeOK'
      BY <1>3, <2>2, <2>3
         DEF EnrollCommit, WriteDevice, AccountsInv, TypeOK, Step, RegistryTypeOK, chainVars
    <3>2. RequestOK(t)'
      BY <2>2, EndedOK
    <3> QED
      BY <2>2, <2>3, <3>1, <3>2, SameUsers, WriteStep DEF AccountsInv
  <2>4. CASE students' = students
    BY <2>3, <2>4 DEF StudentsKept, AccountsInv, TypeOK
  <2>5. CASE students[e] = NoRow /\ students' = [students EXCEPT ![e] = [device |-> NoDevice]]
    BY <2>1, <2>3, <2>5 DEF StudentsKept, AccountsInv, TypeOK, Student
  <2>6. CASE WriteDevice(t) /\ students' = [students EXCEPT ![e].device = req[t].device]
    <3>1. students[e] \in Student /\ req[t].device \in Devices
      BY <2>1, <2>6 DEF WriteDevice, AccountsInv, RequestOK, TypeOK
    <3>2. /\ students'[e] = [device |-> req[t].device]
          /\ \A o \in Emails \ {e} : students'[o] = students[o]
      BY <2>1, <2>6, <3>1 DEF AccountsInv, TypeOK, Student
    <3>3. [device |-> req[t].device] \in Student
      BY <3>1 DEF Student
    <3>4. StudentsKept
      BY <3>1, <3>2, <3>3, RowKinds DEF StudentsKept
    <3>5. students' \in [Emails -> Student \cup {NoRow}]
      BY <2>6, <3>2, <3>3 DEF AccountsInv, TypeOK
    <3> QED
      BY <2>3, <3>4, <3>5
  <2> QED
    BY <1>3, <2>4, <2>5, <2>6 DEF EnrollCommit, WriteDevice
<1> QED
  BY <1>1, <1>2, <1>3 DEF BindChecks, RebindChecks

LEMMA ScriptSteps ==
  ASSUME AccountsInv,
         ScriptStep \/ (\E e \in Emails : BackfillSkips(e)) \/ BackfillDies
  PROVE  AccountsInv' /\ UsersKept /\ StudentsKept
<1> DEFINE Rest == UNCHANGED <<chainVars, students, req, started>>
<1>1. Rest /\ StudentsKept /\ faults' \in 0..MaxFaults
  <2>1. Rest /\ (faults' = faults \/ Fault)
    BY DEF ScriptStep, StartBackfill, BackfillPin, BackfillCommit, BackfillSkips,
           BackfillDies
  <2>2. faults' \in 0..MaxFaults
    BY <2>1, BoundAssumption DEF Fault, AccountsInv, TypeOK
  <2> QED
    BY <2>1, <2>2 DEF StudentsKept
<1>2. ASSUME users' \in [Emails -> User \cup {NoUser}], UsersKept, CidDescribesOwner',
             HodsListed', backfill' \in {NoScript} \cup Script, ScriptOK'
      PROVE  AccountsInv' /\ UsersKept /\ StudentsKept
  <2>1. TypeOK'
    BY <1>1, <1>2 DEF AccountsInv, TypeOK, RegistryTypeOK, chainVars
  <2>2. \A t \in Threads : RequestOK(t)'
    BY <1>1, <1>2, Lasting DEF AccountsInv
  <2> QED
    BY <1>1, <1>2, <2>1, <2>2 DEF AccountsInv
<1>3. ASSUME users' = users, backfill' \in {NoScript} \cup Script, ScriptOK'
      PROVE  AccountsInv' /\ UsersKept /\ StudentsKept
  BY <1>2, <1>3, SameUsers DEF AccountsInv, TypeOK
<1>4. CASE StartBackfill
  <2>1. backfill' = [pc |-> "running", todo |-> Targets, pins |-> [e \in Emails |-> NoCid]]
        /\ users' = users
    BY <1>4 DEF StartBackfill
  <2>2. backfill' \in Script
    BY <2>1 DEF Script, Targets
  <2>3. ScriptOK'
    BY <2>1 DEF ScriptOK, Targets, Exists
  <2> QED
    BY <1>3, <2>1, <2>2, <2>3
<1>5. ASSUME NEW e \in Emails, BackfillPin(e)
      PROVE  AccountsInv' /\ UsersKept /\ StudentsKept
  <2> DEFINE doc == BuildDocument(e, IdentOf(e))
  <2>1. backfill \in Script /\ users' = users
    BY <1>5 DEF BackfillPin, AccountsInv, TypeOK
  <2>2. Exists(e, {"HOD", "FACULTY", "STUDENT"}) /\ users[e] \in User
    BY <1>5 DEF BackfillPin, AccountsInv, ScriptOK, TypeOK, Exists
  <2>3. IdentOf(e) \in Idents \cup {NoIdent}
    <3>1. CASE \E w \in Whitelist : w.email = e
      BY <2>2, <3>1, WhitelistAssumption DEF IdentOf, User
    <3>2. CASE ~\E w \in Whitelist : w.email = e
      BY <2>2, <3>2 DEF IdentOf, User
    <3> QED
      BY <3>1, <3>2
  <2>4. doc \in Document
    BY <2>2, <2>3 DEF BuildDocument, Document, User
  <2>5. Describes(doc, e)
    <3>1. CASE users[e].role = "HOD"
      <4>1. \E w \in Whitelist : w.email = e
        BY <2>2, <3>1 DEF AccountsInv, HodsListed, Exists
      <4>2. PICK w \in Whitelist : w.email = e /\ IdentOf(e) = w.ident
        BY <3>1, <4>1 DEF IdentOf
      <4>3. w = [email |-> e, ident |-> IdentOf(e)]
        BY <4>2, WhitelistAssumption
      <4> QED
        BY <3>1, <4>3 DEF Describes, BuildDocument
    <3>2. CASE users[e].role # "HOD"
      BY <3>2 DEF Describes, BuildDocument, IdentOf
    <3> QED
      BY <3>1, <3>2
  <2>6. /\ backfill' \in Script
        /\ backfill'.todo \subseteq backfill.todo
        /\ backfill'.pins = [backfill.pins EXCEPT ![e] = doc]
    BY <1>5, <2>1, <2>4 DEF BackfillPin, Script
  <2>7. ScriptOK'
    <3>1. ASSUME NEW o \in Emails, backfill'.pins[o] # NoCid
          PROVE  users[o] # NoUser /\ Describes(backfill'.pins[o], o)
      <4>1. CASE o = e
        BY <2>1, <2>2, <2>5, <2>6, <4>1 DEF Script, Exists
      <4>2. CASE o # e
        BY <1>5, <2>1, <2>6, <3>1, <4>2 DEF Script, AccountsInv, ScriptOK, BackfillPin
      <4> QED
        BY <4>1, <4>2
    <3>2. ASSUME NEW o \in Emails, o \in backfill'.todo
          PROVE  Exists(o, {"HOD", "FACULTY", "STUDENT"})
      BY <1>5, <2>6, <3>2 DEF AccountsInv, ScriptOK, BackfillPin
    <3> QED
      BY <2>1, <3>1, <3>2 DEF ScriptOK, Describes, Exists
  <2> QED
    BY <1>3, <2>1, <2>6, <2>7
<1>6. ASSUME NEW e \in Emails, BackfillSkips(e)
      PROVE  AccountsInv' /\ UsersKept /\ StudentsKept
  <2>1. backfill \in Script /\ users' = users /\ backfill # NoScript
    BY <1>6 DEF BackfillSkips, AccountsInv, TypeOK
  <2>2. /\ backfill' \in Script /\ backfill'.pins = backfill.pins
        /\ backfill'.todo \subseteq backfill.todo
    BY <1>6, <2>1 DEF BackfillSkips, Script
  <2>3. ScriptOK'
    BY <2>1, <2>2 DEF AccountsInv, ScriptOK, Exists, Describes
  <2> QED
    BY <1>3, <2>1, <2>2, <2>3
<1>7. CASE BackfillDies
  BY <1>3, <1>7 DEF BackfillDies, ScriptOK
<1>8. CASE BackfillCommit
  <2>1. backfill \in Script /\ backfill # NoScript /\ backfill' = NoScript
    BY <1>8 DEF BackfillCommit, AccountsInv, TypeOK
  <2>2. ASSUME NEW e \in Emails
        PROVE  \/ users'[e] = users[e]
               \/ /\ users[e] \in User /\ users'[e] \in User
                  /\ users'[e].role = users[e].role /\ users'[e].ident = users[e].ident
                  /\ Describes(users'[e].cid, e)
    <3>1. CASE backfill.pins[e] = NoCid
      BY <1>8, <3>1 DEF BackfillCommit
    <3>2. CASE backfill.pins[e] # NoCid
      <4>1. /\ backfill.pins[e] \in Document /\ users[e] \in User
            /\ Describes(backfill.pins[e], e)
        BY <2>1, <3>2 DEF Script, AccountsInv, ScriptOK, TypeOK
      <4>2. users'[e] = [users[e] EXCEPT !.cid = backfill.pins[e]]
        BY <1>8, <3>2 DEF BackfillCommit
      <4> QED
        BY <4>1, <4>2 DEF User
    <3> QED
      BY <3>1, <3>2
  <2>3. users' \in [Emails -> User \cup {NoUser}]
    <3>1. \A e \in Emails : users'[e] \in User \cup {NoUser}
      BY <2>2 DEF AccountsInv, TypeOK
    <3> QED
      BY <1>8, <3>1 DEF BackfillCommit
  <2>4. UsersKept
    BY <2>2, RowKinds DEF UsersKept
  <2>5. CidDescribesOwner'
    BY <2>2 DEF AccountsInv, CidDescribesOwner, Describes
  <2>6. HodsListed'
    BY <2>2, RowKinds DEF AccountsInv, HodsListed, Exists
  <2> QED
    BY <1>2, <2>1, <2>3, <2>4, <2>5, <2>6 DEF ScriptOK
<1> QED
  BY <1>4, <1>5, <1>6, <1>7, <1>8 DEF ScriptStep

LEMMA OtherSteps ==
  ASSUME AccountsInv,
         \/ \E t \in Threads : Conflict(t) \/ RequestFails(t)
         \/ LateLock \/ Redeploy \/ Crash \/ UNCHANGED vars
  PROVE  AccountsInv' /\ UsersKept /\ StudentsKept
<1>1. ASSUME NEW t \in Threads, Conflict(t) \/ RequestFails(t)
      PROVE  AccountsInv' /\ UsersKept /\ StudentsKept
  <2>1. TypeOK'
    BY <1>1, BoundAssumption
       DEF Conflict, RequestFails, Done, Step, Fault, AccountsInv, TypeOK, RegistryTypeOK,
           chainVars
  <2> QED
    BY <1>1, <2>1, EndStep DEF Conflict, RequestFails
<1>2. ASSUME UNCHANGED <<users, students, backfill>>, TypeOK',
             \A t \in Threads : req'[t] = req[t] \/ req'[t] = Idle
      PROVE  AccountsInv' /\ UsersKept /\ StudentsKept
  <2>1. UsersKept /\ StudentsKept /\ HodsListed' /\ CidDescribesOwner'
    BY <1>2, SameUsers DEF AccountsInv, StudentsKept
  <2>2. \A t \in Threads : RequestOK(t)'
    BY <1>2, <2>1, Lasting, EndedOK DEF AccountsInv
  <2> QED
    BY <1>2, <2>1, <2>2, Lasting DEF AccountsInv
<1>3. CASE LateLock
  <2>1. TypeOK'
    BY <1>3, RootAssumption
       DEF LateLock, LockRoot, AccountsInv, TypeOK, RegistryTypeOK, registryVars
  <2> QED
    BY <1>2, <1>3, <2>1 DEF LateLock
<1>4. CASE Redeploy
  <2>1. deployment' \in 1..MaxDeployments
    BY <1>4, BoundAssumption DEF Redeploy, AccountsInv, TypeOK
  <2>2. TypeOK'
    BY <1>4, <2>1 DEF Redeploy, AccountsInv, TypeOK, RegistryTypeOK
  <2> QED
    BY <1>2, <1>4, <2>2 DEF Redeploy
<1>5. CASE Crash
  <2>1. TypeOK'
    BY <1>5, BoundAssumption
       DEF Crash, Fault, AccountsInv, TypeOK, RegistryTypeOK, chainVars
  <2> QED
    BY <1>2, <1>5, <2>1 DEF Crash
<1>6. CASE UNCHANGED vars
  <2>1. TypeOK'
    BY <1>6 DEF vars, AccountsInv, TypeOK, RegistryTypeOK, chainVars
  <2> QED
    BY <1>2, <1>6, <2>1 DEF vars
<1> QED
  BY <1>1, <1>3, <1>4, <1>5, <1>6

LEMMA AccountsStep ==
  ASSUME AccountsInv, [Next]_vars
  PROVE  AccountsInv' /\ UsersKept /\ StudentsKept
BY RegistrationSteps, BootstrapSteps, DeviceSteps, ScriptSteps, OtherSteps
   DEF Next, RequestStep

LEMMA AccountsStart == Init => AccountsInv
<1> SUFFICES ASSUME Init PROVE AccountsInv
  OBVIOUS
<1>1. 1 \in 1..MaxDeployments /\ 0 \in 0..MaxRequests /\ 0 \in 0..MaxFaults
  BY BoundAssumption
<1>2. TypeOK
  BY <1>1 DEF Init, TypeOK, RegistryTypeOK, Unlocked
<1> QED
  BY <1>2 DEF Init, AccountsInv, RequestOK, Idle, ScriptOK, HodsListed, Exists,
              CidDescribesOwner

-----------------------------------------------------------------------------
(* The theorems *)

\* Every state is well typed; no table is read or written at a row that is not there.
THEOREM AccountsTypeCorrect == Spec => []TypeOK
<1>1. AccountsInv => TypeOK
  BY DEF AccountsInv
<1> QED
  BY <1>1, AccountsStart, AccountsStep, PTL DEF Spec

\* A stored CID is that of the owner's document, whoever pinned it and when.
THEOREM StoredCidsDescribe == Spec => []CidDescribesOwner
<1>1. AccountsInv => CidDescribesOwner
  BY DEF AccountsInv
<1> QED
  BY <1>1, AccountsStart, AccountsStep, PTL DEF Spec

\* No request, script run or race changes the role or the identifier of an account.
THEOREM AccountsAreKept == Spec => AccountsKept
<1>1. AccountsInv /\ [Next]_vars
        => [\A e \in Emails : users[e] # NoUser =>
               /\ users'[e] # NoUser
               /\ users'[e].role = users[e].role
               /\ users'[e].ident = users[e].ident]_vars
  BY AccountsStep DEF UsersKept
<1> QED
  BY <1>1, AccountsStart, AccountsStep, PTL DEF Spec, AccountsKept

\* Enrolment, binding and rebinding in any order leave no student without the
\* device he had bound.
THEOREM BindingsAreKept == Spec => BindingNeverLost
<1>1. AccountsInv /\ [Next]_vars
        => [\A e \in Emails : students[e] # NoRow =>
               /\ students'[e] # NoRow
               /\ students[e].device # NoDevice => students'[e].device # NoDevice]_vars
  BY AccountsStep DEF StudentsKept
<1> QED
  BY <1>1, AccountsStart, AccountsStep, PTL DEF Spec, BindingNeverLost

-----------------------------------------------------------------------------
(* One administrator for each lock *)

\* A lock that was seen to be placed is held by the bootstrap that placed it, then by
\* the account that bootstrap creates, and by nobody else; the registry of that
\* deployment stays locked.
Holds(t, n) == req[t].pc = "admitting" /\ req[t].root = n
Owns(e, n) == Exists(e, {"ADMIN"}) /\ users[e].root = n

LockInv ==
    \A n \in 1..MaxDeployments :
        /\ (\E t \in Threads : Holds(t, n)) \/ (\E e \in Emails : Owns(e, n))
              => n < deployment \/ (n = deployment /\ locked)
        /\ \A t, u \in Threads : Holds(t, n) /\ Holds(u, n) => t = u
        /\ \A e, o \in Emails : Owns(e, n) /\ Owns(o, n) => e = o
        /\ ~((\E t \in Threads : Holds(t, n)) /\ (\E e \in Emails : Owns(e, n)))

\* An administrator's lock has a number.
RootsNumbered == \A e \in Emails : Exists(e, {"ADMIN"}) => users[e].root \in 1..MaxDeployments

\* A step that hands out no lock and takes none back keeps all of it.
LEMMA NobodyGains ==
  ASSUME LockInv, TypeOK,
         \A n \in 1..MaxDeployments : n < deployment \/ (n = deployment /\ locked)
            => n < deployment' \/ (n = deployment' /\ locked'),
         \A t \in Threads, n \in 1..MaxDeployments : Holds(t, n)' => Holds(t, n),
         \A e \in Emails, n \in 1..MaxDeployments : Owns(e, n)' => Owns(e, n)
  PROVE  LockInv'
BY DEF LockInv

\* Who owned nothing before and is no new administrator owns nothing.
LEMMA SameOwners ==
  ASSUME TypeOK, UsersKept,
         \A e \in Emails : users[e] = NoUser => users'[e] = NoUser \/ users'[e].role # "ADMIN",
         \A e \in Emails : users[e] # NoUser => users'[e].root = users[e].root
  PROVE  /\ \A e \in Emails, n \in 1..MaxDeployments : Owns(e, n)' => Owns(e, n)
         /\ RootsNumbered => RootsNumbered'
BY DEF Owns, Exists, UsersKept, RootsNumbered

LEMMA LockStep ==
  ASSUME AccountsInv, LockInv, RootsNumbered, [Next]_vars
  PROVE  LockInv' /\ RootsNumbered'
<1>0. TypeOK /\ TypeOK' /\ UsersKept
  BY AccountsStep DEF AccountsInv
<1>a. ASSUME users' = users
      PROVE  /\ \A e \in Emails, n \in 1..MaxDeployments : Owns(e, n)' => Owns(e, n)
             /\ RootsNumbered'
  BY <1>a DEF Owns, Exists, RootsNumbered
<1>b. ASSUME NEW t \in Threads, NEW r, Step(t, r), r.pc # "admitting"
      PROVE  \A u \in Threads, n \in 1..MaxDeployments : Holds(u, n)' => Holds(u, n)
  BY <1>0, <1>b DEF Step, Holds, TypeOK
<1>c. ASSUME UNCHANGED <<locked, deployment>>,
             \A u \in Threads, n \in 1..MaxDeployments : Holds(u, n)' => Holds(u, n),
             \/ users' = users
             \/ /\ \A e \in Emails : users[e] = NoUser => users'[e] = NoUser
                                                          \/ users'[e].role # "ADMIN"
                /\ \A e \in Emails : users[e] # NoUser => users'[e].root = users[e].root
      PROVE  LockInv' /\ RootsNumbered'
  BY <1>0, <1>a, <1>c, NobodyGains, SameOwners
<1>1. ASSUME NEW t \in Threads, NEW r, Begin(t, r), r.pc # "admitting"
      PROVE  LockInv' /\ RootsNumbered'
  BY <1>1, <1>b, <1>c DEF Begin, chainVars
<1>2. ASSUME NEW t \in Threads,
             \/ \E f \in Forms : RegisterChecks(t, f)
             \/ \E e \in Emails : BootstrapChecks(t, e) \/ EnrollChecks(t, e)
             \/ \E e \in Emails, d \in Devices : BindChecks(t, e, d) \/ RebindChecks(t, e, d)
      PROVE  LockInv' /\ RootsNumbered'
  <2>1. CASE \E f \in Forms : RegisterChecks(t, f)
    BY <2>1, <1>1 DEF RegisterChecks
  <2>2. CASE \E e \in Emails : BootstrapChecks(t, e)
    BY <2>2, <1>1 DEF BootstrapChecks
  <2>3. CASE \E e \in Emails : EnrollChecks(t, e)
    BY <2>3, <1>1 DEF EnrollChecks
  <2>4. CASE \E e \in Emails, d \in Devices : BindChecks(t, e, d)
    BY <2>4, <1>1 DEF BindChecks
  <2>5. CASE \E e \in Emails, d \in Devices : RebindChecks(t, e, d)
    BY <2>5, <1>1 DEF RebindChecks
  <2> QED
    BY <1>2, <2>1, <2>2, <2>3, <2>4, <2>5
<1>3. ASSUME NEW t \in Threads, CreateAccount(t)
      PROVE  LockInv' /\ RootsNumbered'
  <2>1. PICK f \in Forms : f = req[t].form
    BY <1>3, RequestKinds DEF CreateAccount, Registering, AccountsInv
  <2>2. Step(t, [pc |-> "pinning", form |-> f]) /\ users' = [users EXCEPT ![f.email] = NewUser(f)]
        /\ users[f.email] = NoUser /\ UNCHANGED <<locked, deployment>>
    BY <1>3, <2>1 DEF CreateAccount, chainVars
  <2>3. NewUser(f).role # "ADMIN" /\ f.email \in Emails
    BY RowKinds
  <2> QED
    BY <1>0, <1>b, <1>c, <2>2, <2>3 DEF TypeOK
<1>4. ASSUME NEW t \in Threads, PinProfile(t)
      PROVE  LockInv' /\ RootsNumbered'
  <2>1. PICK r : Step(t, r) /\ r.pc = "storing"
    BY <1>4 DEF PinProfile
  <2> QED
    BY <1>4, <1>b, <1>c, <2>1 DEF PinProfile, chainVars
<1>5. ASSUME NEW t \in Threads, StoreCid(t)
      PROVE  LockInv' /\ RootsNumbered'
  <2>1. PICK e \in Emails : e = req[t].form.email /\ users[e] \in User
    BY <1>5, <1>0, RequestKinds, RowKinds DEF StoreCid, Storing, AccountsInv, RequestOK, TypeOK
  <2>2. /\ users'[e].root = users[e].root
        /\ \A o \in Emails \ {e} : users'[o] = users[o]
    BY <1>0, <1>5, <2>1 DEF StoreCid, User, TypeOK
  <2>3. users[e] # NoUser
    BY <2>1, RowKinds
  <2> QED
    BY <1>5, <1>b, <1>c, <2>2, <2>3 DEF StoreCid, Done, Idle, chainVars
<1>6. ASSUME NEW t \in Threads, LockMined(t)
      PROVE  LockInv' /\ RootsNumbered'
  <2>1. \A u \in Threads \ {t} : req'[u] = req[u]
    BY <1>0, <1>6 DEF LockMined, Step, TypeOK
  <2>2. req'[t].pc = "admitting" /\ req'[t].root = deployment /\ req[t].pc = "locking"
    BY <1>0, <1>6 DEF LockMined, Step, TypeOK
  <2>3. users' = users /\ deployment' = deployment /\ ~locked /\ locked' = TRUE
    BY <1>6 DEF LockMined, LockRoot, MayLock
  <2>4. deployment \in Nat
    BY <1>0, BoundAssumption DEF TypeOK
  <2>5. \A n \in 1..MaxDeployments, u \in Threads : Holds(u, n) => n < deployment
    BY <2>3 DEF LockInv
  <2>6. \A n \in 1..MaxDeployments, e \in Emails : Owns(e, n) => n < deployment
    BY <2>3 DEF LockInv
  <2>7. \A n \in 1..MaxDeployments, u \in Threads :
           Holds(u, n)' => (u = t /\ n = deployment) \/ (Holds(u, n) /\ u # t)
    BY <2>1, <2>2 DEF Holds
  <2>8. \A n \in 1..MaxDeployments, e \in Emails : Owns(e, n)' <=> Owns(e, n)
    BY <2>3 DEF Owns, Exists
  <2> QED
    BY <1>a, <2>3, <2>4, <2>5, <2>6, <2>7, <2>8 DEF LockInv
<1>7. ASSUME NEW t \in Threads, LockUnconfirmed(t)
      PROVE  LockInv' /\ RootsNumbered'
  BY <1>7, <1>b, <1>c DEF LockUnconfirmed, Done, Idle
<1>8. ASSUME NEW t \in Threads, CreateAdmin(t)
      PROVE  LockInv' /\ RootsNumbered'
  <2>1. CASE users' = users
    BY <1>8, <2>1, <1>b, <1>c DEF CreateAdmin, Done, Idle, chainVars
  <2>2. CASE users' # users
    <3>1. PICK e \in Emails, k \in 1..MaxDeployments : e = req[t].email /\ k = req[t].root
      BY <1>8, <1>0, RequestKinds DEF CreateAdmin, Admitting
    <3>2. /\ Holds(t, k) /\ users[e] = NoUser /\ deployment' = deployment /\ locked' = locked
          /\ users' = [users EXCEPT ![e] = [role |-> "ADMIN", ident |-> NoIdent,
                                            cid |-> NoCid, root |-> k]]
      BY <1>8, <2>2, <3>1 DEF CreateAdmin, MayAdmit, Holds, chainVars
    <3>3. /\ users'[e].root = k /\ users'[e].role = "ADMIN"
          /\ \A o \in Emails \ {e} : users'[o] = users[o]
      BY <1>0, <3>2 DEF TypeOK
    <3>4. \A n \in 1..MaxDeployments, o \in Emails :
             Owns(o, n)' => (o = e /\ n = k) \/ (o # e /\ Owns(o, n))
      BY <3>3 DEF Owns, Exists
    <3>5. \A n \in 1..MaxDeployments, u \in Threads : Holds(u, n)' => u # t /\ Holds(u, n)
      BY <1>0, <1>8 DEF CreateAdmin, Done, Step, Idle, Holds, TypeOK
    <3>6. LockInv'
      BY <3>2, <3>4, <3>5 DEF LockInv
    <3>7. RootsNumbered'
      BY <3>3 DEF RootsNumbered, Exists
    <3> QED
      BY <3>6, <3>7
  <2> QED
    BY <2>1, <2>2
<1>9. ASSUME NEW t \in Threads,
             EnrollCommit(t) \/ WriteDevice(t) \/ Conflict(t) \/ RequestFails(t)
      PROVE  LockInv' /\ RootsNumbered'
  BY <1>9, <1>b, <1>c
     DEF EnrollCommit, WriteDevice, Conflict, RequestFails, Done, Idle, chainVars
<1>10. CASE LateLock
  <2>1. /\ deployment' = deployment /\ users' = users /\ req' = req
        /\ locked => locked'
    BY <1>10 DEF LateLock, LockRoot, MayLock, registryVars
  <2> QED
    BY <1>0, <1>a, <2>1, NobodyGains DEF Holds
<1>11. CASE Redeploy
  <2>1. deployment \in Nat /\ deployment' = deployment + 1 /\ users' = users /\ req' = req
    BY <1>0, <1>11, BoundAssumption DEF Redeploy, TypeOK
  <2> QED
    BY <1>0, <1>a, <2>1, NobodyGains DEF Holds
<1>12. CASE Crash
  BY <1>12, <1>c DEF Crash, Holds, Idle, chainVars
<1>13. CASE ScriptStep \/ (\E e \in Emails : BackfillSkips(e)) \/ BackfillDies
  <2>1. UNCHANGED <<locked, deployment, req>>
    BY <1>13 DEF ScriptStep, StartBackfill, BackfillPin, BackfillCommit, BackfillSkips,
                 BackfillDies, chainVars
  <2>2. CASE users' = users
    BY <1>c, <2>1, <2>2 DEF Holds
  <2>3. CASE BackfillCommit
    <3>1. ASSUME NEW e \in Emails
          PROVE  \/ users'[e] = users[e]
                 \/ users[e] \in User /\ users'[e].root = users[e].root
      <4>1. CASE backfill.pins[e] = NoCid
        BY <2>3, <4>1 DEF BackfillCommit
      <4>2. CASE backfill.pins[e] # NoCid
        <5>1. users[e] \in User
          BY <1>0, <2>3, <4>2 DEF BackfillCommit, AccountsInv, ScriptOK, TypeOK
        <5>2. users'[e] = [users[e] EXCEPT !.cid = backfill.pins[e]]
          BY <2>3, <4>2 DEF BackfillCommit
        <5> QED
          BY <5>1, <5>2 DEF User
      <4> QED
        BY <4>1, <4>2
    <3> QED
      BY <1>c, <2>1, <3>1, RowKinds DEF Holds
  <2> QED
    BY <1>13, <2>2, <2>3
       DEF ScriptStep, StartBackfill, BackfillPin, BackfillSkips, BackfillDies
<1>14. CASE UNCHANGED vars
  BY <1>14, <1>c DEF vars, chainVars, Holds
<1> QED
  BY <1>2, <1>3, <1>4, <1>5, <1>6, <1>7, <1>8, <1>9, <1>10, <1>11, <1>12, <1>13, <1>14
     DEF Next, RequestStep

\* However bootstraps race, fail or are repeated on a new chain, no two
\* administrators owe their accounts to one lock of the root.
THEOREM OneAdminPerLock == Spec => []AdminPerLock
<1>1. Init => LockInv /\ RootsNumbered
  BY DEF Init, LockInv, RootsNumbered, Holds, Owns, Exists, Idle
<1>2. LockInv /\ RootsNumbered => AdminPerLock
  BY DEF LockInv, RootsNumbered, AdminPerLock, Owns
<1>3. AccountsInv /\ LockInv /\ RootsNumbered /\ [Next]_vars => LockInv' /\ RootsNumbered'
  BY LockStep
<1> QED
  BY <1>1, <1>2, <1>3, AccountsStart, AccountsStep, PTL DEF Spec
=============================================================================
