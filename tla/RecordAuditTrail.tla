--------------------------- MODULE RecordAuditTrail ---------------------------
(***************************************************************************)
(* contracts/contracts/RecordAuditTrail.sol: the multi-signature contract  *)
(* through which records change.  An instructor proposes and thereby signs *)
(* first; an HOD or exam-controller address co-signs, which executes the   *)
(* proposal.  Timestamps are left out, and the texts of a proposal are one *)
(* value, its change.                                                      *)
(***************************************************************************)
EXTENDS Naturals, Sequences, FiniteSets

CONSTANTS
    Changes,       \* (student, field, old, new, evidence) of a proposal
    Incomplete,    \* the changes whose field or evidence CID is empty
    Accounts,      \* accounts that send transactions
    Admin,         \* the account the constructor makes admin
    MaxProposals   \* bound: proposals ever created

ASSUME IncompleteAssumption == Incomplete \subseteq Changes
ASSUME AdminAssumption == Admin \in Accounts
ASSUME MaxProposalsAssumption == MaxProposals \in Nat

VARIABLES
    proposals,  \* _proposals[1 .. _nextProposalId - 1]
    hasSigned,  \* _hasSigned[id], as the set of accounts mapped to true
    updated,    \* ids whose RecordUpdated event was emitted, in order
    roles       \* AccessControl's role members

trailVars == <<proposals, hasSigned, updated, roles>>

TrailRoles == {"DEFAULT_ADMIN_ROLE", "INSTRUCTOR_ROLE", "HOD_ROLE", "EXAM_CONTROLLER_ROLE"}

Access == INSTANCE AccessControl WITH Roles <- TrailRoles

RequiredSignatures == 2

Proposal == [change : Changes \ Incomplete, proposer : Accounts,
             status : {"Pending", "Executed"}, signatureCount : 1 .. RequiredSignatures]

Ids == 1 .. MaxProposals

TypeOK ==
    /\ proposals \in Seq(Proposal)
    /\ Len(proposals) <= MaxProposals
    /\ hasSigned \in [Ids -> SUBSET Accounts]
    /\ updated \in Seq(Ids)
    /\ Access!RolesTypeOK

Init ==
    /\ proposals = <<>>
    /\ hasSigned = [id \in Ids |-> {}]
    /\ updated = <<>>
    /\ Access!RolesInit(Admin)

ProposalCount == Len(proposals)

\* A careless edit of proposeChange: the proposer's signature is counted, but
\* not remembered.
CreateUnsigned(caller, change) ==
    /\ proposals' = Append(proposals, [change |-> change, proposer |-> caller,
                                       status |-> "Pending", signatureCount |-> 1])
    /\ hasSigned' = hasSigned

Create(caller, change) ==
    /\ proposals' = Append(proposals, [change |-> change, proposer |-> caller,
                                       status |-> "Pending", signatureCount |-> 1])
    /\ hasSigned' = [hasSigned EXCEPT ![ProposalCount + 1] = {caller}]

ProposeChange(caller, change) ==
    /\ Access!HasRole("INSTRUCTOR_ROLE", caller)
    /\ change \notin Incomplete          \* reverts EmptyField, EmptyIpfsCid
    /\ ProposalCount < MaxProposals
    /\ Create(caller, change)
    /\ updated' = updated
    /\ roles' = roles

IsApprover(caller) ==
    \/ Access!HasRole("HOD_ROLE", caller)
    \/ Access!HasRole("EXAM_CONTROLLER_ROLE", caller)

\* Careless edits of approve: a check is gone.
MayApproveTwice(caller, id) ==
    /\ IsApprover(caller)
    /\ id \in DOMAIN proposals
    /\ proposals[id].status = "Pending"

MayApproveExecuted(caller, id) ==
    /\ IsApprover(caller)
    /\ id \in DOMAIN proposals
    /\ caller \notin hasSigned[id]

MayApprove(caller, id) ==
    /\ IsApprover(caller)                    \* onlyApprover
    /\ id \in DOMAIN proposals               \* revert ProposalNotFound
    /\ proposals[id].status = "Pending"      \* revert ProposalNotPending
    /\ caller \notin hasSigned[id]           \* revert AlreadySigned

CoSigned(p) ==
    [p EXCEPT !.signatureCount = @ + 1,
              !.status = IF p.signatureCount + 1 >= RequiredSignatures
                         THEN "Executed" ELSE @]

Approve(caller, id) ==
    /\ MayApprove(caller, id)
    /\ hasSigned' = [hasSigned EXCEPT ![id] = @ \cup {caller}]
    /\ proposals' = [proposals EXCEPT ![id] = CoSigned(@)]
    /\ updated' = IF CoSigned(proposals[id]).status = "Executed"
                  THEN Append(updated, id) ELSE updated
    /\ roles' = roles

ChangeRoles == Access!RoleChange /\ UNCHANGED <<proposals, hasSigned, updated>>

Next ==
    \/ \E caller \in Accounts, change \in Changes : ProposeChange(caller, change)
    \/ \E caller \in Accounts, id \in Ids : Approve(caller, id)
    \/ ChangeRoles

Spec == Init /\ [][Next]_trailVars

(***************************************************************************)
(* Properties                                                              *)
(***************************************************************************)

\* The counter, the signature map and the status tell one story: the count is
\* the number of distinct signers, one while the proposal is pending, and an
\* executed proposal carries the proposer's signature and exactly one other
\* address's - also when an instructor is made HOD later or a role is revoked
\* between the two signatures (RecordAuditTrail.sol:42-45, 205-215).
SignaturesAgree ==
    \A id \in DOMAIN proposals :
        LET p == proposals[id]
        IN  /\ p.proposer \in hasSigned[id]
            /\ IF p.status = "Pending"
               THEN p.signatureCount = 1 /\ hasSigned[id] = {p.proposer}
               ELSE /\ p.signatureCount = RequiredSignatures
                    /\ \E approver \in Accounts \ {p.proposer} :
                          hasSigned[id] = {p.proposer, approver}

\* RecordUpdated is the audit anchor (RecordAuditTrail.sol:103-105): it is
\* emitted once for every executed proposal and for no other.
AnchoredOnce ==
    /\ \A id \in Ids :
          (\E i \in DOMAIN updated : updated[i] = id)
             <=> (id \in DOMAIN proposals /\ proposals[id].status = "Executed")
    /\ \A i, j \in DOMAIN updated : updated[i] = updated[j] => i = j

\* The contract implements dual control of every proposal it numbers.
Control == INSTANCE DualControl WITH
    Parties <- Accounts,
    endorsers <- hasSigned,
    effective <- {id \in Ids : id \in DOMAIN proposals /\ proposals[id].status = "Executed"}

ImplementsDualControl == Control!Spec
=============================================================================
