--------------------------- MODULE GradeCorrections ---------------------------
(***************************************************************************)
(* Record changes through the backend: the grade-correction endpoints      *)
(* (app/api/grades.py), the generic /records endpoints (records.py), the   *)
(* tables of app/models/grade.py and proposal.py and the RecordAuditTrail  *)
(* contract that app/services/audit_trail.py drives.                       *)
(*                                                                         *)
(* A request is split at every point where another thread can get in       *)
(* between: after the reads that guard it, around the chain transaction,   *)
(* around the read-back of the proposal, and before the commit.            *)
(***************************************************************************)
EXTENDS Naturals, Sequences, FiniteSets

CONSTANTS
    Grades,        \* rows of the grades table
    NoGrade,       \* the record of a generic /records proposal
    Values,        \* grade strings
    Requests,      \* request threads of the server
    MaxProposals,  \* bound: proposals ever sent to the chain
    RowLocks,      \* TRUE: FOR UPDATE locks rows (PostgreSQL); FALSE: SQLite
    Faults         \* which of AllFaults may happen

AllFaults == {"chain",     \* the transaction is not accepted, or the pin fails
              "receipt",   \* no receipt within 30s: it may be mined later
              "event",     \* ProposalCreated cannot be decoded
              "readback",  \* getProposal fails after the receipt arrived
              "commit",    \* the database refuses the commit
              "crash",     \* the server process dies and is restarted
              "redeploy"}  \* the contract is deployed anew, the tables stay

ASSUME NoGradeAssumption == NoGrade \notin Grades
ASSUME BoundAssumption == MaxProposals \in Nat
ASSUME FaultAssumption == Faults \subseteq AllFaults /\ RowLocks \in BOOLEAN

VARIABLES
    proposals, hasSigned, updated,  \* the RecordAuditTrail contract
    pending,                        \* transactions sent but not mined
    grades,                         \* the grades table
    mirrors,                        \* the proposals table, in insertion order
    req                             \* the request threads

chainVars == <<proposals, hasSigned, updated, pending>>
vars == <<proposals, hasSigned, updated, pending, grades, mirrors, req>>

\* What a proposal changes.  The field is "grade:<course>" exactly for the
\* corrections of a grades row.
GradeChange == [grade : Grades, old : Values, new : Values]
Generic == [grade |-> NoGrade]
Change == GradeChange \cup {Generic}
IsGrade(change) == change.grade # NoGrade

\* The two signers the backend holds keys for and uses; the deploy script
\* grants each its role and nothing in the backend changes roles.
Instructor == "instructor"
Hod == "hod"
ChainRoles == [role \in {"DEFAULT_ADMIN_ROLE", "INSTRUCTOR_ROLE", "HOD_ROLE",
                         "EXAM_CONTROLLER_ROLE"} |->
                  CASE role = "INSTRUCTOR_ROLE" -> {Instructor}
                    [] role = "HOD_ROLE" -> {Hod}
                    [] OTHER -> {}]

Trail == INSTANCE RecordAuditTrail WITH
    Changes <- Change, Incomplete <- {}, Accounts <- {Instructor, Hod},
    Admin <- Instructor, roles <- ChainRoles

(***************************************************************************)
(* Rows and threads                                                        *)
(***************************************************************************)

NoLock == 0   \* locked_by_proposal_id is null
NoRow == 0    \* no proposals row
NoId == 0     \* no on-chain id yet

Grade == [value : Values, lock : Nat]

Mirror == [id : Trail!Ids, change : Change, status : {"Pending", "Executed", "Rejected"}]

Tx == [call : {"propose"}, change : Change] \cup [call : {"approve"}, id : Trail!Ids]

IdleRequest == [pc |-> "idle"]
ProposeRequest == [pc : {"propose", "mined", "mirror"}, change : Change, id : Nat,
                   status : {"Pending", "Executed"}]
DecideRequest == [pc : {"approve", "approved", "reject"}, change : Change, id : Nat,
                  row : Nat]

TypeOK ==
    /\ proposals \in Seq(Trail!Proposal)
    /\ hasSigned \in [Trail!Ids -> SUBSET {Instructor, Hod}]
    /\ updated \in Seq(Trail!Ids)
    /\ pending \in SUBSET Tx
    /\ grades \in [Grades -> Grade]
    /\ mirrors \in Seq(Mirror)
    /\ req \in [Requests -> {IdleRequest} \cup ProposeRequest \cup DecideRequest]

Init ==
    /\ proposals = <<>>
    /\ hasSigned = [id \in Trail!Ids |-> {}]
    /\ updated = <<>>
    /\ pending = {}
    /\ grades \in [Grades -> [value : Values, lock : {NoLock}]]
    /\ mirrors = <<>>
    /\ req = [r \in Requests |-> IdleRequest]

Finish(r) == req' = [req EXCEPT ![r] = IdleRequest]

Active(r) == req[r].pc # "idle"

\* SELECT ... FOR UPDATE: a thread holds its grades row from its checks to the
\* end of the request, and an approve or reject its proposals row too.  SQLite
\* compiles the clause away.
GradeFree(g) ==
    RowLocks => \A r \in Requests : Active(r) => req[r].change.grade # g

MirrorFree(row) ==
    RowLocks => \A r \in Requests :
        req[r].pc \in {"approve", "approved", "reject"} /\ IsGrade(req[r].change)
            => req[r].row # row

MirrorOf(id) == {row \in DOMAIN mirrors : mirrors[row].id = id}

(***************************************************************************)
(* POST /grades/corrections and POST /records/propose                      *)
(***************************************************************************)

BeginPropose(r, change) ==
    /\ Len(proposals) + Cardinality({q \in Requests : req[q].pc = "propose"})
          + Cardinality({tx \in pending : tx.call = "propose"}) < MaxProposals
    /\ req' = [req EXCEPT ![r] = [pc |-> "propose", change |-> change, id |-> NoId,
                                  status |-> "Pending"]]
    /\ UNCHANGED <<chainVars, grades, mirrors>>

\* A propose that overlooks the correction already pending on the row.
CorrectionChecksUnlocked(r, g, new) ==
    /\ req[r].pc = "idle"
    /\ GradeFree(g)
    /\ new # grades[g].value
    /\ BeginPropose(r, [grade |-> g, old |-> grades[g].value, new |-> new])

CorrectionChecks(r, g, new) ==
    /\ req[r].pc = "idle"
    /\ GradeFree(g)
    /\ grades[g].lock = NoLock         \* 409 grade_locked
    /\ new # grades[g].value           \* 400 grade_unchanged
    /\ BeginPropose(r, [grade |-> g, old |-> grades[g].value, new |-> new])

RecordsProposeChecks(r) ==
    /\ req[r].pc = "idle"
    /\ BeginPropose(r, Generic)        \* 400 use_grade_corrections otherwise

ProposeMined(r) ==
    /\ req[r].pc = "propose"
    /\ Trail!ProposeChange(Instructor, req[r].change)
    /\ req' = [req EXCEPT ![r].pc = "mined", ![r].id = Trail!ProposalCount + 1]
    /\ UNCHANGED <<pending, grades, mirrors>>

ProposeRefused(r) ==
    /\ "chain" \in Faults
    /\ req[r].pc = "propose"
    /\ Finish(r)
    /\ UNCHANGED <<chainVars, grades, mirrors>>

ProposeUnconfirmed(r) ==
    /\ "receipt" \in Faults
    /\ req[r].pc = "propose"
    /\ pending' = pending \cup {[call |-> "propose", change |-> req[r].change]}
    /\ Finish(r)
    /\ UNCHANGED <<proposals, hasSigned, updated, grades, mirrors>>

\* The id comes from the ProposalCreated event, or from proposalCount() when
\* the event cannot be decoded; the proposal's state is then read by that id.
ReadBack(r) ==
    /\ req[r].pc = "mined"
    /\ \E id \in {req[r].id} \cup (IF "event" \in Faults THEN {Trail!ProposalCount} ELSE {}) :
          req' = [req EXCEPT ![r].pc = "mirror", ![r].id = id,
                             ![r].status = proposals[id].status]
    /\ UNCHANGED <<chainVars, grades, mirrors>>

ReadBackFails(r) ==
    /\ "readback" \in Faults
    /\ req[r].pc = "mined"
    /\ Finish(r)
    /\ UNCHANGED <<chainVars, grades, mirrors>>

NewMirror(r) == [id |-> req[r].id, change |-> req[r].change, status |-> req[r].status]

\* The row is inserted and the grade locked in one commit.
CorrectionCommitUnlocked(r) ==
    /\ req[r].pc = "mirror" /\ IsGrade(req[r].change)
    /\ MirrorOf(req[r].id) = {}
    /\ mirrors' = Append(mirrors, NewMirror(r))
    /\ Finish(r)
    /\ UNCHANGED <<chainVars, grades>>

\* A correction that upserts its mirror, as /records does.
CorrectionCommitUpserts(r) ==
    /\ req[r].pc = "mirror" /\ IsGrade(req[r].change)
    /\ mirrors' = IF MirrorOf(req[r].id) = {}
                  THEN Append(mirrors, NewMirror(r))
                  ELSE [row \in DOMAIN mirrors |->
                           IF row \in MirrorOf(req[r].id) THEN NewMirror(r) ELSE mirrors[row]]
    /\ grades' = [grades EXCEPT ![req[r].change.grade].lock =
                     IF MirrorOf(req[r].id) = {} THEN Len(mirrors) + 1
                     ELSE CHOOSE row \in MirrorOf(req[r].id) : TRUE]
    /\ Finish(r)
    /\ UNCHANGED chainVars

CorrectionCommit(r) ==
    /\ req[r].pc = "mirror" /\ IsGrade(req[r].change)
    /\ MirrorOf(req[r].id) = {}        \* else the unique key refuses the INSERT
    /\ mirrors' = Append(mirrors, NewMirror(r))
    /\ grades' = [grades EXCEPT ![req[r].change.grade].lock = Len(mirrors) + 1]
    /\ Finish(r)
    /\ UNCHANGED chainVars

\* /records upserts: a row that already has the id is rewritten.
RecordsCommit(r) ==
    /\ req[r].pc = "mirror" /\ ~IsGrade(req[r].change)
    /\ \A row \in MirrorOf(req[r].id) : MirrorFree(row)
    /\ mirrors' = IF MirrorOf(req[r].id) = {}
                  THEN Append(mirrors, NewMirror(r))
                  ELSE [row \in DOMAIN mirrors |->
                           IF row \in MirrorOf(req[r].id) THEN NewMirror(r) ELSE mirrors[row]]
    /\ Finish(r)
    /\ UNCHANGED <<chainVars, grades>>

\* 502 proposal_mirror_failed: the proposal exists on the chain only.
MirrorFails(r) ==
    /\ req[r].pc = "mirror"
    /\ \/ "commit" \in Faults
       \/ IsGrade(req[r].change) /\ MirrorOf(req[r].id) # {}
    /\ Finish(r)
    /\ UNCHANGED <<chainVars, grades, mirrors>>

(***************************************************************************)
(* POST /grades/corrections/<id>/approve and /reject, /records/<id>/approve*)
(***************************************************************************)

BeginDecision(r, pc, change, id, row) ==
    /\ req' = [req EXCEPT ![r] = [pc |-> pc, change |-> change, id |-> id, row |-> row]]
    /\ UNCHANGED <<chainVars, grades, mirrors>>

\* A careless edit: the rows are read without locking them first.
DecidableUnlocked(row) ==
    /\ row \in DOMAIN mirrors
    /\ IsGrade(mirrors[row].change)
    /\ mirrors[row].status = "Pending"
    /\ grades[mirrors[row].change.grade].lock = row

\* What approve and reject of a correction check, with their rows locked.
Decidable(row) ==
    /\ row \in DOMAIN mirrors
    /\ IsGrade(mirrors[row].change)
    /\ MirrorFree(row)
    /\ mirrors[row].status = "Pending"           \* 409 correction_rejected, not_pending
    /\ GradeFree(mirrors[row].change.grade)
    /\ grades[mirrors[row].change.grade].lock = row   \* 409 lock_missing

ApproveChecks(r, row) ==
    /\ req[r].pc = "idle"
    /\ Decidable(row)
    /\ BeginDecision(r, "approve", mirrors[row].change, mirrors[row].id, row)

RejectChecks(r, row) ==
    /\ req[r].pc = "idle"
    /\ Decidable(row)
    /\ BeginDecision(r, "reject", mirrors[row].change, mirrors[row].id, row)

\* A generic approve that looks at the mirror only.
RecordsApproveChecksMirrorOnly(r, id) ==
    /\ req[r].pc = "idle"
    /\ id \in DOMAIN proposals
    /\ \/ MirrorOf(id) = {} /\ BeginDecision(r, "approve", Generic, id, NoRow)
       \/ \E row \in MirrorOf(id) :
             /\ ~IsGrade(mirrors[row].change)
             /\ BeginDecision(r, "approve", Generic, id, row)

\* The mirror's field, or the chain's when the id is not mirrored, must not be
\* a grade correction's.
RecordsApproveChecks(r, id) ==
    /\ req[r].pc = "idle"
    /\ id \in DOMAIN proposals
    /\ \/ /\ MirrorOf(id) = {}
          /\ ~IsGrade(proposals[id].change)
          /\ BeginDecision(r, "approve", Generic, id, NoRow)
       \/ \E row \in MirrorOf(id) :
             /\ ~IsGrade(mirrors[row].change)
             /\ BeginDecision(r, "approve", Generic, id, row)

ApproveMined(r) ==
    /\ req[r].pc = "approve"
    /\ Trail!Approve(Hod, req[r].id)
    /\ req' = [req EXCEPT ![r].pc = "approved"]
    /\ UNCHANGED <<pending, grades, mirrors>>

\* A careless edit: the error answer of approveProposal is not looked at.
ApproveRefusedIgnored(r) ==
    /\ req[r].pc = "approve"
    /\ "chain" \in Faults \/ ~Trail!MayApprove(Hod, req[r].id)
    /\ req' = [req EXCEPT ![r].pc = "approved"]
    /\ UNCHANGED <<chainVars, grades, mirrors>>

ApproveRefused(r) ==
    /\ req[r].pc = "approve"
    /\ "chain" \in Faults \/ ~Trail!MayApprove(Hod, req[r].id)
    /\ Finish(r)
    /\ UNCHANGED <<chainVars, grades, mirrors>>

ApproveUnconfirmed(r) ==
    /\ "receipt" \in Faults
    /\ req[r].pc = "approve" /\ Trail!MayApprove(Hod, req[r].id)
    /\ pending' = pending \cup {[call |-> "approve", id |-> req[r].id]}
    /\ Finish(r)
    /\ UNCHANGED <<proposals, hasSigned, updated, grades, mirrors>>

\* Mined, but the proposal cannot be read back: an error answer.
ApproveUnread(r) ==
    /\ "readback" \in Faults
    /\ req[r].pc = "approve"
    /\ Trail!Approve(Hod, req[r].id)
    /\ Finish(r)
    /\ UNCHANGED <<pending, grades, mirrors>>

\* A grade written for a proposal the chain has not executed is impossible: an
\* approve that is mined always executes (RecordAuditTrail's SignaturesAgree),
\* so the not_executed answer needs no step.
ApproveCommit(r) ==
    /\ req[r].pc = "approved"
    /\ mirrors' = [row \in DOMAIN mirrors |->
                      IF row = req[r].row THEN [mirrors[row] EXCEPT !.status = "Executed"]
                                          ELSE mirrors[row]]
    /\ grades' = [g \in Grades |->
                     IF g = req[r].change.grade
                     THEN [value |-> req[r].change.new, lock |-> NoLock]
                     ELSE grades[g]]
    /\ Finish(r)
    /\ UNCHANGED chainVars

\* Rejecting frees the grade and touches nothing on the chain.
RejectCommit(r) ==
    /\ req[r].pc = "reject"
    /\ mirrors' = [mirrors EXCEPT ![req[r].row].status = "Rejected"]
    /\ grades' = [grades EXCEPT ![req[r].change.grade].lock = NoLock]
    /\ Finish(r)
    /\ UNCHANGED chainVars

DecisionFails(r) ==
    /\ "commit" \in Faults
    /\ req[r].pc \in {"approved", "reject"}
    /\ Finish(r)
    /\ UNCHANGED <<chainVars, grades, mirrors>>

(***************************************************************************)
(* The environment and the specification                                   *)
(***************************************************************************)

\* A transaction whose sender gave up is mined, or reverts.
MinePending(tx) ==
    /\ tx \in pending
    /\ pending' = pending \ {tx}
    /\ \/ tx.call = "propose" /\ Trail!ProposeChange(Instructor, tx.change)
       \/ tx.call = "approve" /\ Trail!Approve(Hod, tx.id)
       \/ /\ tx.call = "approve" /\ ~Trail!MayApprove(Hod, tx.id)
          /\ UNCHANGED <<proposals, hasSigned, updated>>
    /\ UNCHANGED <<grades, mirrors, req>>

Crash ==
    /\ "crash" \in Faults
    /\ \E r \in Requests : Active(r)
    /\ req' = [r \in Requests |-> IdleRequest]
    /\ UNCHANGED <<chainVars, grades, mirrors>>

\* The contract is deployed anew and the server restarted with its address,
\* on the old tables: ids start at 1 again (records.py:13-19).
Redeploy ==
    /\ "redeploy" \in Faults
    /\ proposals # <<>>
    /\ proposals' = <<>>
    /\ hasSigned' = [id \in Trail!Ids |-> {}]
    /\ updated' = <<>>
    /\ pending' = {}
    /\ req' = [r \in Requests |-> IdleRequest]
    /\ UNCHANGED <<grades, mirrors>>

Handlers(r) ==
    \/ \E g \in Grades, new \in Values : CorrectionChecks(r, g, new)
    \/ RecordsProposeChecks(r)
    \/ \E row \in DOMAIN mirrors : ApproveChecks(r, row) \/ RejectChecks(r, row)
    \/ \E id \in DOMAIN proposals : RecordsApproveChecks(r, id)

Proposing(r) ==
    \/ ProposeMined(r)
    \/ ProposeRefused(r)
    \/ ProposeUnconfirmed(r)
    \/ ReadBack(r)
    \/ ReadBackFails(r)
    \/ CorrectionCommit(r)
    \/ RecordsCommit(r)
    \/ MirrorFails(r)

Deciding(r) ==
    \/ ApproveMined(r)
    \/ ApproveRefused(r)
    \/ ApproveUnconfirmed(r)
    \/ ApproveUnread(r)
    \/ ApproveCommit(r)
    \/ RejectCommit(r)
    \/ DecisionFails(r)

Next ==
    \/ \E r \in Requests : Handlers(r) \/ Proposing(r) \/ Deciding(r)
    \/ \E tx \in pending : MinePending(tx)
    \/ Crash
    \/ Redeploy

Spec == Init /\ [][Next]_vars

(***************************************************************************)
(* Properties that hold                                                    *)
(***************************************************************************)

\* grade.py:34: the lock column is the "id of the pending correction holding
\* the row, else null".
LockNamesPending ==
    \A g \in Grades : grades[g].lock # NoLock =>
        /\ grades[g].lock \in DOMAIN mirrors
        /\ mirrors[grades[g].lock].status = "Pending"
        /\ mirrors[grades[g].lock].change.grade = g

PendingHoldsLock ==
    \A row \in DOMAIN mirrors :
        IsGrade(mirrors[row].change) /\ mirrors[row].status = "Pending"
            => grades[mirrors[row].change.grade].lock = row

\* A lock and a pending correction are two halves of one fact, kept in two
\* tables: a locked grade points to its one pending correction, and every
\* pending correction holds its grade.  Losing either half leaves a correction
\* nobody can decide (409 lock_missing) or a grade nobody can correct.
LockPaired == LockNamesPending /\ PendingHoldsLock

\* No lost update: while a correction is pending the grade still has the old
\* value it quotes on the chain, so executing it replaces what was reviewed.
PendingIsCurrent ==
    \A row \in DOMAIN mirrors :
        IsGrade(mirrors[row].change) /\ mirrors[row].status = "Pending"
            => grades[mirrors[row].change.grade].value = mirrors[row].change.old

\* A mirror row stands for one proposal of the chain and says what it says
\* (proposal.py:57-58, the join key); it is never ahead of the chain.
MirrorMatchesChain ==
    /\ \A row \in DOMAIN mirrors :
          /\ mirrors[row].id \in DOMAIN proposals
          /\ proposals[mirrors[row].id].change = mirrors[row].change
          /\ mirrors[row].status = "Executed" => proposals[mirrors[row].id].status = "Executed"
    /\ \A row, other \in DOMAIN mirrors : mirrors[row].id = mirrors[other].id => row = other

\* The corrections an approve can still apply: without row locks also one that
\* was rejected while its approve was on the chain.
Applicable == {"Pending"} \cup (IF RowLocks THEN {} ELSE {"Rejected"})

\* A grade changes only in the step that closes a correction of this very grade,
\* to the value that correction proposes, and only when the chain has executed
\* the correction's id, that is, with an instructor's and the HOD's signature
\* (D2): never twice for one correction, never for a generic proposal and never
\* for another grade's.  Under a new contract the signatures are those of
\* whatever has the correction's id there.
GradeChangeIsSigned ==
    [][\A g \in Grades : grades'[g].value # grades[g].value =>
          \E row \in DOMAIN mirrors :
             /\ mirrors[row].change.grade = g
             /\ mirrors[row].change.new = grades'[g].value
             /\ mirrors[row].status \in Applicable /\ mirrors'[row].status = "Executed"
             /\ mirrors[row].id \in DOMAIN proposals
             /\ proposals[mirrors[row].id].status = "Executed"
             /\ hasSigned[mirrors[row].id] = {Instructor, Hod}]_vars

\* A correction is executed on the chain only by its own route: /records/
\* <id>/approve never executes one that has no local row to apply it to
\* (records.py:186-188).
OnlyMirroredExecute ==
    \A id \in DOMAIN proposals :
        IsGrade(proposals[id].change) /\ proposals[id].status = "Executed"
            => MirrorOf(id) # {}

\* grades.py:97-98: a closed correction "can no longer be approved or
\* rejected": once Executed or Rejected, its row never changes again.
ClosedIsFinal ==
    [][\A row \in DOMAIN mirrors :
          mirrors[row].status # "Pending" => mirrors'[row] = mirrors[row]]_vars

\* A correction never takes over the row of another: "another Grade may still
\* reference that local row after a redeploy" (grades.py:211-214), so no two
\* grades ever wait for the same row.
LocksAreDistinct ==
    \A g, h \in Grades : grades[g].lock = grades[h].lock /\ grades[g].lock # NoLock => g = h

\* A lock is released only by deciding the correction it names, and never
\* moves to another: neither an id that a new contract issues again nor an
\* upsert of /records frees a grade under the HOD's hands (grades.py:213-214,
\* "leaving every existing lock untouched").
LocksSettledByDecision ==
    [][\A g \in Grades : grades[g].lock # NoLock /\ grades'[g].lock # grades[g].lock =>
          /\ grades'[g].lock = NoLock
          /\ mirrors[grades[g].lock].status = "Pending"
          /\ mirrors'[grades[g].lock].status # "Pending"]_vars

\* What is left of ClosedIsFinal when /records may rewrite the row of an id
\* that a new contract issues again: the row of a closed correction can become
\* a generic proposal's, but the correction never comes back.
ClosedNeverRevives ==
    [][\A row \in DOMAIN mirrors :
          /\ mirrors[row].status # "Pending" /\ IsGrade(mirrors'[row].change)
          => mirrors'[row] = mirrors[row]]_vars

(***************************************************************************)
(* What comments and docstrings of the repository say, and the code does   *)
(* not do                                                                  *)
(***************************************************************************)

\* grades.py:359-361: after a reject "the on-chain proposal stays Pending
\* forever".
RejectedStaysPending ==
    \A row \in DOMAIN mirrors : mirrors[row].status = "Rejected" =>
        proposals[mirrors[row].id].status = "Pending"
=============================================================================
