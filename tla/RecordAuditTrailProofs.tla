------------------------ MODULE RecordAuditTrailProofs ------------------------
(***************************************************************************)
(* RecordAuditTrail for any set of changes and accounts and any number of  *)
(* proposals: type correctness, the agreement of counter, signature map    *)
(* and status, the audit anchor, and the implementation of DualControl.    *)
(***************************************************************************)
EXTENDS RecordAuditTrail, SequenceTheorems, TLAPS

-----------------------------------------------------------------------------
(* What the two transactions do *)

LEMMA ProposalRows ==
  ASSUME TypeOK
  PROVE  /\ Len(proposals) \in Nat /\ DOMAIN proposals = 1..Len(proposals)
         /\ DOMAIN proposals \subseteq Ids
         /\ \A id \in DOMAIN proposals : proposals[id] \in Proposal
  BY LenProperties, MaxProposalsAssumption DEF TypeOK, Ids

LEMMA CreateEffect ==
  ASSUME TypeOK, NEW caller \in Accounts, NEW change \in Changes,
         ProposeChange(caller, change), NEW new, new = Len(proposals) + 1
  PROVE  /\ new \in Ids /\ new \notin DOMAIN proposals
         /\ proposals' \in Seq(Proposal) /\ Len(proposals') = new
         /\ DOMAIN proposals' = DOMAIN proposals \cup {new}
         /\ \A id \in DOMAIN proposals : proposals'[id] = proposals[id]
         /\ proposals'[new] = [change |-> change, proposer |-> caller,
                               status |-> "Pending", signatureCount |-> 1]
         /\ hasSigned' = [hasSigned EXCEPT ![new] = {caller}]
         /\ UNCHANGED <<updated, roles>>
<1> DEFINE row == [change |-> change, proposer |-> caller,
                   status |-> "Pending", signatureCount |-> 1]
<1>1. row \in Proposal
  BY DEF ProposeChange, Proposal, RequiredSignatures
<1>2. new \in Ids /\ new \notin DOMAIN proposals
  BY ProposalRows, MaxProposalsAssumption DEF ProposeChange, ProposalCount, Ids
<1>3. proposals' = Append(proposals, row)
  BY DEF ProposeChange, Create
<1> HIDE DEF row
<1>4. /\ proposals' \in Seq(Proposal) /\ Len(proposals') = new
      /\ DOMAIN proposals' = DOMAIN proposals \cup {new}
      /\ \A id \in DOMAIN proposals : proposals'[id] = proposals[id]
      /\ proposals'[new] = row
  BY <1>1, <1>3, ProposalRows DEF TypeOK
<1> QED
  BY <1>2, <1>4 DEF ProposeChange, Create, ProposalCount, row

LEMMA ApproveEffect ==
  ASSUME TypeOK, SignaturesAgree,
         NEW caller \in Accounts, NEW id \in Ids, Approve(caller, id)
  PROVE  /\ id \in DOMAIN proposals /\ proposals[id].status = "Pending"
         /\ caller \notin hasSigned[id]
         /\ proposals' \in Seq(Proposal)
         /\ DOMAIN proposals' = DOMAIN proposals
         /\ Len(proposals') = Len(proposals)
         /\ \A k \in DOMAIN proposals \ {id} : proposals'[k] = proposals[k]
         /\ proposals'[id] = [proposals[id] EXCEPT !.signatureCount = RequiredSignatures,
                                                   !.status = "Executed"]
         /\ hasSigned' = [hasSigned EXCEPT ![id] = @ \cup {caller}]
         /\ updated' = Append(updated, id)
         /\ UNCHANGED roles
<1> DEFINE row == [proposals[id] EXCEPT !.signatureCount = RequiredSignatures,
                                        !.status = "Executed"]
<1>1. id \in DOMAIN proposals /\ proposals[id].status = "Pending" /\ caller \notin hasSigned[id]
  BY DEF Approve, MayApprove
<1>2. proposals[id] \in Proposal
  BY <1>1, ProposalRows
<1>3. row \in Proposal
  <2>1. RequiredSignatures \in 1 .. RequiredSignatures
    BY DEF RequiredSignatures
  <2> QED
    BY <1>2, <2>1 DEF Proposal
<1>4. CoSigned(proposals[id]) = row
  <2>1. proposals[id].signatureCount + 1 = RequiredSignatures
    BY <1>1 DEF SignaturesAgree, RequiredSignatures
  <2>2. (IF proposals[id].signatureCount + 1 >= RequiredSignatures
         THEN "Executed" ELSE proposals[id].status) = "Executed"
    BY <2>1 DEF RequiredSignatures
  <2> QED
    BY <2>1, <2>2 DEF CoSigned
<1>5. row.status = "Executed"
  BY <1>2 DEF Proposal
<1> HIDE DEF row
<1>6. /\ proposals' = [proposals EXCEPT ![id] = row]
      /\ updated' = Append(updated, id)
      /\ hasSigned' = [hasSigned EXCEPT ![id] = @ \cup {caller}]
      /\ UNCHANGED roles
  BY <1>4, <1>5 DEF Approve
<1>7. /\ proposals' \in Seq(Proposal)
      /\ DOMAIN proposals' = DOMAIN proposals
      /\ Len(proposals') = Len(proposals)
      /\ \A k \in DOMAIN proposals \ {id} : proposals'[k] = proposals[k]
      /\ proposals'[id] = row
  <2>1. id \in 1..Len(proposals)
    BY <1>1, ProposalRows
  <2> QED
    BY <1>1, <1>3, <1>6, <2>1, ExceptSeq, ProposalRows DEF TypeOK
<1> QED
  BY <1>1, <1>6, <1>7 DEF row

-----------------------------------------------------------------------------
(* The inductive invariant *)

\* Signatures are collected for existing proposals only.
TrailInv ==
    /\ TypeOK
    /\ SignaturesAgree
    /\ \A id \in Ids \ DOMAIN proposals : hasSigned[id] = {}

LEMMA TrailInit == Init => TrailInv
<1> SUFFICES ASSUME Init PROVE TrailInv
  OBVIOUS
<1>1. DOMAIN proposals = {} /\ Len(proposals) = 0
  BY DEF Init
<1>2. TypeOK
  BY <1>1, MaxProposalsAssumption, AdminAssumption
     DEF Init, TypeOK, Access!RolesTypeOK, Access!RolesInit
<1> QED
  BY <1>1, <1>2 DEF Init, TrailInv, SignaturesAgree

LEMMA TrailPropose ==
  ASSUME TrailInv, NEW caller \in Accounts, NEW change \in Changes,
         ProposeChange(caller, change)
  PROVE  TrailInv'
<1> DEFINE new == Len(proposals) + 1
<1>0. new = Len(proposals) + 1
  OBVIOUS
<1>1. TypeOK
  BY DEF TrailInv
<1> HIDE DEF new
<1>2. /\ new \in Ids /\ new \notin DOMAIN proposals
      /\ proposals' \in Seq(Proposal) /\ Len(proposals') = new
      /\ DOMAIN proposals' = DOMAIN proposals \cup {new}
      /\ \A id \in DOMAIN proposals : proposals'[id] = proposals[id]
      /\ proposals'[new] = [change |-> change, proposer |-> caller,
                            status |-> "Pending", signatureCount |-> 1]
      /\ hasSigned' = [hasSigned EXCEPT ![new] = {caller}]
      /\ UNCHANGED <<updated, roles>>
  BY <1>0, <1>1, CreateEffect
<1>3. hasSigned'[new] = {caller} /\ \A id \in Ids \ {new} : hasSigned'[id] = hasSigned[id]
  BY <1>1, <1>2 DEF TypeOK
<1>4. DOMAIN proposals \subseteq Ids
  BY <1>1, ProposalRows
<1>5. TypeOK'
  <2>1. new <= MaxProposals
    BY <1>2, MaxProposalsAssumption, ProposalRows, <1>1 DEF Ids
  <2> QED
    BY <1>1, <1>2, <2>1 DEF TypeOK, Access!RolesTypeOK
<1>6. SignaturesAgree'
  BY <1>2, <1>3, <1>4 DEF TrailInv, SignaturesAgree
<1> QED
  BY <1>2, <1>3, <1>5, <1>6 DEF TrailInv

LEMMA TrailApprove ==
  ASSUME TrailInv, NEW caller \in Accounts, NEW id \in Ids, Approve(caller, id)
  PROVE  TrailInv'
<1>1. TypeOK /\ SignaturesAgree
  BY DEF TrailInv
<1>2. /\ id \in DOMAIN proposals /\ proposals[id].status = "Pending"
      /\ caller \notin hasSigned[id]
      /\ proposals' \in Seq(Proposal)
      /\ DOMAIN proposals' = DOMAIN proposals
      /\ Len(proposals') = Len(proposals)
      /\ \A k \in DOMAIN proposals \ {id} : proposals'[k] = proposals[k]
      /\ proposals'[id] = [proposals[id] EXCEPT !.signatureCount = RequiredSignatures,
                                                !.status = "Executed"]
      /\ hasSigned' = [hasSigned EXCEPT ![id] = @ \cup {caller}]
      /\ updated' = Append(updated, id)
      /\ UNCHANGED roles
  BY <1>1, ApproveEffect
<1>3. /\ hasSigned'[id] = hasSigned[id] \cup {caller}
      /\ \A k \in Ids \ {id} : hasSigned'[k] = hasSigned[k]
  BY <1>1 , <1>2 DEF TypeOK
<1>4. DOMAIN proposals \subseteq Ids /\ proposals[id] \in Proposal
  BY <1>1, <1>2, ProposalRows
<1>5. TypeOK'
  <2>1. hasSigned' \in [Ids -> SUBSET Accounts]
    BY <1>1, <1>2 DEF TypeOK
  <2>2. updated' \in Seq(Ids)
    BY <1>1, <1>2 DEF TypeOK
  <2> QED
    BY <1>1, <1>2, <2>1, <2>2 DEF TypeOK, Access!RolesTypeOK
<1>6. /\ proposals'[id].proposer = proposals[id].proposer
      /\ proposals'[id].status = "Executed"
      /\ proposals'[id].signatureCount = RequiredSignatures
  BY <1>2, <1>4 DEF Proposal
<1>7. hasSigned[id] = {proposals[id].proposer}
  BY <1>1, <1>2 DEF SignaturesAgree
<1>8. SignaturesAgree'
  <2>1. ASSUME NEW k \in DOMAIN proposals \ {id}
        PROVE  proposals'[k] = proposals[k] /\ hasSigned'[k] = hasSigned[k]
    BY <1>2, <1>3, <1>4
  <2>2. caller # proposals[id].proposer
        /\ hasSigned'[id] = {proposals[id].proposer, caller}
    BY <1>2, <1>3, <1>7
  <2>3. ASSUME NEW k \in DOMAIN proposals'
        PROVE  /\ proposals'[k].proposer \in hasSigned'[k]
               /\ IF proposals'[k].status = "Pending"
                  THEN /\ proposals'[k].signatureCount = 1
                       /\ hasSigned'[k] = {proposals'[k].proposer}
                  ELSE /\ proposals'[k].signatureCount = RequiredSignatures
                       /\ \E approver \in Accounts \ {proposals'[k].proposer} :
                             hasSigned'[k] = {proposals'[k].proposer, approver}
    <3>1. CASE k = id
      BY <3>1, <1>6, <2>2
    <3>2. CASE k # id
      <4>1. k \in DOMAIN proposals \ {id}
        BY <3>2, <1>2, <2>3
      <4> QED
        BY <4>1, <2>1, <1>1 DEF SignaturesAgree
    <3> QED
      BY <3>1, <3>2
  <2> QED
    BY <2>3 DEF SignaturesAgree
<1> QED
  BY <1>2, <1>3, <1>5, <1>8 DEF TrailInv

LEMMA RolesTyped ==
  ASSUME Access!RolesTypeOK, Access!RoleChange
  PROVE  Access!RolesTypeOK'
  BY DEF Access!RolesTypeOK, Access!RoleChange, Access!GrantRole, Access!RevokeRole,
         Access!RenounceRole

LEMMA TrailNext == TrailInv /\ [Next]_trailVars => TrailInv'
<1> SUFFICES ASSUME TrailInv, [Next]_trailVars
             PROVE  TrailInv'
  OBVIOUS
<1>1. CASE ChangeRoles
  BY <1>1, RolesTyped DEF ChangeRoles, TrailInv, TypeOK, SignaturesAgree
<1>2. CASE UNCHANGED trailVars
  BY <1>2 DEF trailVars, TrailInv, TypeOK, SignaturesAgree, Access!RolesTypeOK
<1> QED
  BY <1>1, <1>2, TrailPropose, TrailApprove DEF Next

\* Every proposal is well formed and at most two signatures are ever counted.
THEOREM TrailTypeCorrect == Spec => []TypeOK
<1>1. TrailInv => TypeOK
  BY DEF TrailInv
<1> QED
  BY <1>1, TrailInit, TrailNext, PTL DEF Spec

\* An executed proposal carries the signatures of exactly two addresses, one
\* of them the proposer's, whatever happens to the roles meanwhile.
THEOREM TwoSignatures == Spec => []SignaturesAgree
<1>1. TrailInv => SignaturesAgree
  BY DEF TrailInv
<1> QED
  BY <1>1, TrailInit, TrailNext, PTL DEF Spec

-----------------------------------------------------------------------------
(* The audit anchor *)

LEMMA AnchorApprove ==
  ASSUME TrailInv, AnchoredOnce, NEW caller \in Accounts, NEW id \in Ids,
         Approve(caller, id)
  PROVE  AnchoredOnce'
<1>1. TypeOK /\ SignaturesAgree
  BY DEF TrailInv
<1>2. /\ id \in DOMAIN proposals /\ proposals[id].status = "Pending"
      /\ proposals[id] \in Proposal
      /\ DOMAIN proposals' = DOMAIN proposals
      /\ \A k \in DOMAIN proposals \ {id} : proposals'[k] = proposals[k]
      /\ proposals'[id] = [proposals[id] EXCEPT !.signatureCount = RequiredSignatures,
                                                !.status = "Executed"]
      /\ updated' = Append(updated, id)
  BY <1>1, ApproveEffect, ProposalRows
<1>3. proposals'[id].status = "Executed"
  BY <1>2 DEF Proposal
<1>4. updated \in Seq(Ids) /\ Len(updated) \in Nat /\ DOMAIN updated = 1..Len(updated)
  BY <1>1, LenProperties DEF TypeOK
<1>5. /\ DOMAIN updated' = DOMAIN updated \cup {Len(updated) + 1}
      /\ \A i \in DOMAIN updated : updated'[i] = updated[i]
      /\ updated'[Len(updated) + 1] = id
  BY <1>2, <1>4
<1>6. \A i \in DOMAIN updated : updated[i] # id
  BY <1>2 DEF AnchoredOnce
<1>7. ASSUME NEW k \in Ids
      PROVE  (\E i \in DOMAIN updated' : updated'[i] = k)
                <=> (k \in DOMAIN proposals' /\ proposals'[k].status = "Executed")
  <2>1. CASE k = id
    BY <2>1, <1>2, <1>3, <1>5
  <2>2. CASE k # id
    <3>1. (\E i \in DOMAIN updated' : updated'[i] = k)
             <=> (\E i \in DOMAIN updated : updated[i] = k)
      BY <2>2, <1>5
    <3>2. k \in DOMAIN proposals => proposals'[k] = proposals[k]
      BY <2>2, <1>2
    <3> QED
      BY <1>2, <3>1, <3>2 DEF AnchoredOnce
  <2> QED
    BY <2>1, <2>2
<1>8. ASSUME NEW i \in DOMAIN updated', NEW j \in DOMAIN updated', updated'[i] = updated'[j]
      PROVE  i = j
  BY <1>5, <1>6, <1>8 DEF AnchoredOnce
<1> QED
  BY <1>7, <1>8 DEF AnchoredOnce

LEMMA AnchorPropose ==
  ASSUME TrailInv, AnchoredOnce, NEW caller \in Accounts, NEW change \in Changes,
         ProposeChange(caller, change)
  PROVE  AnchoredOnce'
<1>1. PICK new : new = Len(proposals) + 1
  OBVIOUS
<1>2. /\ new \notin DOMAIN proposals
      /\ DOMAIN proposals' = DOMAIN proposals \cup {new}
      /\ \A id \in DOMAIN proposals : proposals'[id] = proposals[id]
      /\ proposals'[new] = [change |-> change, proposer |-> caller,
                            status |-> "Pending", signatureCount |-> 1]
      /\ UNCHANGED updated
  BY <1>1, CreateEffect DEF TrailInv
<1>3. proposals'[new].status = "Pending"
  BY <1>2
<1>4. ASSUME NEW id
      PROVE  (id \in DOMAIN proposals' /\ proposals'[id].status = "Executed")
                <=> (id \in DOMAIN proposals /\ proposals[id].status = "Executed")
  BY <1>2, <1>3
<1> QED
  BY <1>2, <1>4 DEF AnchoredOnce

\* One RecordUpdated event for every executed proposal and no other event.
THEOREM AuditAnchor == Spec => []AnchoredOnce
<1>1. Init => AnchoredOnce
  BY DEF Init, AnchoredOnce
<1>2. TrailInv /\ AnchoredOnce /\ [Next]_trailVars => AnchoredOnce'
  <2> SUFFICES ASSUME TrailInv, AnchoredOnce, [Next]_trailVars
               PROVE  AnchoredOnce'
    OBVIOUS
  <2>1. CASE ChangeRoles \/ UNCHANGED trailVars
    BY <2>1 DEF ChangeRoles, trailVars, AnchoredOnce
  <2> QED
    BY <2>1, AnchorApprove, AnchorPropose DEF Next
<1> QED
  BY <1>1, <1>2, TrailInit, TrailNext, PTL DEF Spec

-----------------------------------------------------------------------------
(* The refinement *)

\* A proposal takes effect when its second distinct party signs, never before,
\* never again, and collects no signature afterwards.
THEOREM TrailImplementsDualControl == Spec => ImplementsDualControl
<1> DEFINE effective == {id \in Ids : /\ id \in DOMAIN proposals
                                      /\ proposals[id].status = "Executed"}
<1>1. Init => Control!Init
  BY DEF Init, Control!Init
<1>2. TrailInv /\ [Next]_trailVars => [Control!Next]_(Control!controlVars)
  <2> SUFFICES ASSUME TrailInv, [Next]_trailVars
               PROVE  Control!Next \/ UNCHANGED <<hasSigned, effective>>
    BY DEF Control!controlVars
  <2>0. TypeOK /\ SignaturesAgree
    BY DEF TrailInv
  <2>1. ASSUME NEW caller \in Accounts, NEW change \in Changes,
               ProposeChange(caller, change)
        PROVE  Control!Next
    <3>1. PICK new : new = Len(proposals) + 1
      OBVIOUS
    <3>2. /\ new \in Ids /\ new \notin DOMAIN proposals
          /\ DOMAIN proposals' = DOMAIN proposals \cup {new}
          /\ \A id \in DOMAIN proposals : proposals'[id] = proposals[id]
          /\ proposals'[new] = [change |-> change, proposer |-> caller,
                                status |-> "Pending", signatureCount |-> 1]
          /\ hasSigned' = [hasSigned EXCEPT ![new] = {caller}]
      BY <2>0, <2>1, <3>1, CreateEffect
    <3>3. hasSigned[new] = {}
      BY <3>2 DEF TrailInv
    <3>4. hasSigned' = [hasSigned EXCEPT ![new] = @ \cup {caller}]
      BY <3>2, <3>3
    <3>5. effective' = effective /\ new \notin effective
      <4>1. proposals'[new].status = "Pending"
        BY <3>2
      <4>2. \A id \in Ids : id \in effective' <=> id \in effective
        BY <3>2, <4>1
      <4> QED
        BY <3>2, <4>2
    <3> HIDE DEF effective
    <3>6. Control!Endorse(new, caller)
      BY <3>3, <3>4, <3>5 DEF Control!Endorse, effective
    <3> QED
      BY <3>2, <3>6 DEF Control!Next
  <2>2. ASSUME NEW caller \in Accounts, NEW id \in Ids, Approve(caller, id)
        PROVE  Control!Next
    <3>1. /\ id \in DOMAIN proposals /\ proposals[id].status = "Pending"
          /\ caller \notin hasSigned[id]
          /\ proposals[id] \in Proposal
          /\ DOMAIN proposals' = DOMAIN proposals
          /\ \A k \in DOMAIN proposals \ {id} : proposals'[k] = proposals[k]
          /\ proposals'[id] = [proposals[id] EXCEPT !.signatureCount = RequiredSignatures,
                                                    !.status = "Executed"]
          /\ hasSigned' = [hasSigned EXCEPT ![id] = @ \cup {caller}]
      BY <2>0, <2>2, ApproveEffect, ProposalRows
    <3>2. proposals'[id].status = "Executed"
      BY <3>1 DEF Proposal
    <3>3. /\ hasSigned[id] = {proposals[id].proposer}
          /\ hasSigned'[id] = {proposals[id].proposer} \cup {caller}
      BY <2>0, <3>1 DEF SignaturesAgree, TypeOK
    <3>4. hasSigned[id] # {}
      BY <3>3
    <3>5. effective' = effective \cup {id} /\ id \notin effective
      <4>1. \A k \in Ids : k \in effective' <=> k \in effective \/ k = id
        BY <3>1, <3>2
      <4> QED
        BY <3>1, <4>1
    <3> HIDE DEF effective
    <3>6. Control!Endorse(id, caller)
      BY <3>1, <3>4, <3>5 DEF Control!Endorse, effective
    <3> QED
      BY <3>6 DEF Control!Next
  <2>3. CASE ChangeRoles \/ UNCHANGED trailVars
    BY <2>3 DEF ChangeRoles, trailVars
  <2> QED
    BY <2>1, <2>2, <2>3 DEF Next
<1> QED
  BY <1>1, <1>2, TrailInit, TrailNext, PTL DEF Spec, ImplementsDualControl, Control!Spec
=============================================================================
