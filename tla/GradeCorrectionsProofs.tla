------------------------ MODULE GradeCorrectionsProofs ------------------------
(***************************************************************************)
(* GradeCorrections for any number of grades, grade strings, threads and   *)
(* proposals: type correctness; with every fault, a contract deployed anew *)
(* included, what the row locks give for the lock column; under one        *)
(* contract whose events are decoded, that the mirror agrees with the      *)
(* chain, and the lock column with the mirror; and dual control, from the  *)
(* row locks or from the agreement of mirror and chain.                    *)
(***************************************************************************)
EXTENDS GradeCorrections, SequenceTheorems, TLAPS

-----------------------------------------------------------------------------
(* Tables and records *)

LEMMA TableRows ==
  ASSUME NEW S, NEW q \in Seq(S)
  PROVE  /\ Len(q) \in Nat /\ DOMAIN q = 1..Len(q)
         /\ \A i \in DOMAIN q : q[i] \in S /\ i \in Nat /\ i # 0
BY LenProperties

LEMMA TableRewrite ==
  ASSUME NEW S, NEW q \in Seq(S), NEW g \in [DOMAIN q -> S]
  PROVE  g \in Seq(S)
<1>1. DOMAIN q = 1..Len(q) /\ Len(q) \in Nat
  BY LenProperties
<1> QED
  BY <1>1, SeqDef

LEMMA TableAppend ==
  ASSUME NEW S, NEW q \in Seq(S), NEW e \in S
  PROVE  /\ Append(q, e) \in Seq(S)
         /\ Len(Append(q, e)) = Len(q) + 1
         /\ DOMAIN Append(q, e) = DOMAIN q \cup {Len(q) + 1}
         /\ Len(q) + 1 \notin DOMAIN q
         /\ \A i \in DOMAIN q : Append(q, e)[i] = q[i]
         /\ Append(q, e)[Len(q) + 1] = e
<1>1. DOMAIN q = 1..Len(q) /\ Len(q) \in Nat
  BY LenProperties
<1>2. DOMAIN Append(q, e) = 1..(Len(q) + 1)
  BY <1>1
<1> QED
  BY <1>1, <1>2

InPropose(r) == req[r].pc \in {"propose", "mined", "mirror"}
InDecision(r) == req[r].pc \in {"approve", "approved", "reject"}

LEMMA RequestKinds ==
  ASSUME TypeOK, NEW r \in Requests
  PROVE  /\ InPropose(r) => req[r] \in ProposeRequest
         /\ InDecision(r) => req[r] \in DecideRequest
         /\ req[r].pc = "idle" => req[r] = IdleRequest
         /\ req[r].pc = "idle" \/ InPropose(r) \/ InDecision(r)
         /\ Active(r) <=> InPropose(r) \/ InDecision(r)
         /\ ~(InPropose(r) /\ InDecision(r))
<1>1. req[r] \in {IdleRequest} \cup ProposeRequest \cup DecideRequest
  BY DEF TypeOK
<1>2. CASE req[r] = IdleRequest
  BY <1>2 DEF IdleRequest, InPropose, InDecision, Active
<1>3. CASE req[r] \in ProposeRequest
  BY <1>3 DEF ProposeRequest, InPropose, InDecision, Active
<1>4. CASE req[r] \in DecideRequest
  BY <1>4 DEF DecideRequest, InPropose, InDecision, Active
<1> QED
  BY <1>1, <1>2, <1>3, <1>4

LEMMA ChangeKinds ==
  /\ \A change \in GradeChange : IsGrade(change) /\ change.grade \in Grades
  /\ ~IsGrade(Generic) /\ Generic.grade = NoGrade
  /\ \A change \in Change : IsGrade(change) => change \in GradeChange
  /\ \A change \in Change : ~IsGrade(change) => change = Generic
BY NoGradeAssumption DEF GradeChange, Generic, Change, IsGrade

-----------------------------------------------------------------------------
(* Type correctness *)

\* The contract has co-signed a pending proposal once only, and a thread that
\* has its proposal's id got it from a proposal.
TypeInv ==
    /\ TypeOK
    /\ Len(proposals) <= MaxProposals
    /\ \A id \in DOMAIN proposals :
          proposals[id].status = "Pending" => proposals[id].signatureCount = 1
    /\ \A r \in Requests : req[r].pc \in {"mined", "mirror"} => req[r].id \in DOMAIN proposals

LEMMA ProposalIds ==
  ASSUME TypeInv
  PROVE  /\ Len(proposals) \in Nat /\ DOMAIN proposals = 1..Len(proposals)
         /\ DOMAIN proposals \subseteq Trail!Ids
         /\ \A id \in DOMAIN proposals : proposals[id] \in Trail!Proposal
BY TableRows, BoundAssumption DEF TypeInv, TypeOK, Trail!Ids

\* The contract part of the invariant over its two transactions.
ChainInv ==
    /\ proposals \in Seq(Trail!Proposal)
    /\ hasSigned \in [Trail!Ids -> SUBSET {Instructor, Hod}]
    /\ updated \in Seq(Trail!Ids)
    /\ Len(proposals) <= MaxProposals
    /\ \A id \in DOMAIN proposals :
          proposals[id].status = "Pending" => proposals[id].signatureCount = 1

LEMMA ProposeEffect ==
  ASSUME TypeInv, NEW change \in Change, Trail!ProposeChange(Instructor, change)
  PROVE  /\ ChainInv'
         /\ DOMAIN proposals \subseteq DOMAIN proposals'
         /\ Trail!ProposalCount + 1 \in DOMAIN proposals'
         /\ \A id \in DOMAIN proposals : proposals'[id] = proposals[id]
<1> DEFINE row == [change |-> change, proposer |-> Instructor,
                   status |-> "Pending", signatureCount |-> 1]
           new == Len(proposals) + 1
<1>1. row \in Trail!Proposal
  BY DEF Trail!Proposal, Trail!RequiredSignatures
<1>2. /\ proposals' = Append(proposals, row)
      /\ Len(proposals) < MaxProposals
      /\ hasSigned' = [hasSigned EXCEPT ![new] = {Instructor}]
      /\ updated' = updated
  BY DEF Trail!ProposeChange, Trail!Create, Trail!ProposalCount
<1>3. row.status = "Pending" /\ row.signatureCount = 1
  OBVIOUS
<1> HIDE DEF row
<1>4. /\ proposals' \in Seq(Trail!Proposal)
      /\ Len(proposals') = new
      /\ DOMAIN proposals' = DOMAIN proposals \cup {new}
      /\ \A id \in DOMAIN proposals : proposals'[id] = proposals[id]
      /\ proposals'[new] = row
  BY <1>1, <1>2, TableAppend DEF TypeInv, TypeOK
<1>5. Len(proposals') <= MaxProposals
  BY <1>2, <1>4, ProposalIds, BoundAssumption
<1>6. \A id \in DOMAIN proposals' :
         proposals'[id].status = "Pending" => proposals'[id].signatureCount = 1
  BY <1>3, <1>4 DEF TypeInv
<1>7. /\ hasSigned' \in [Trail!Ids -> SUBSET {Instructor, Hod}]
      /\ updated' \in Seq(Trail!Ids)
  BY <1>2 DEF TypeInv, TypeOK
<1> QED
  BY <1>4, <1>5, <1>6, <1>7 DEF ChainInv, Trail!ProposalCount

LEMMA CoSignedRow ==
  ASSUME NEW p \in Trail!Proposal, p.signatureCount = 1
  PROVE  Trail!CoSigned(p) \in Trail!Proposal /\ Trail!CoSigned(p).status = "Executed"
<1>1. p.signatureCount + 1 \in 1..2 /\ p.signatureCount + 1 >= Trail!RequiredSignatures
  BY DEF Trail!RequiredSignatures
<1>2. \A n \in 1..2 : /\ [p EXCEPT !.signatureCount = n, !.status = "Executed"] \in Trail!Proposal
                      /\ [p EXCEPT !.signatureCount = n, !.status = "Executed"].status = "Executed"
  BY DEF Trail!Proposal, Trail!RequiredSignatures
<1>3. Trail!CoSigned(p) = [p EXCEPT !.signatureCount = p.signatureCount + 1,
                                    !.status = "Executed"]
  BY <1>1, Zenon DEF Trail!CoSigned
<1> QED
  BY <1>1, <1>2, <1>3

LEMMA ApproveEffect ==
  ASSUME TypeInv, NEW id, Trail!Approve(Hod, id)
  PROVE  /\ ChainInv'
         /\ id \in DOMAIN proposals
         /\ DOMAIN proposals' = DOMAIN proposals
<1>1. /\ id \in DOMAIN proposals /\ proposals[id].status = "Pending"
      /\ proposals[id] \in Trail!Proposal /\ id \in Trail!Ids
      /\ proposals[id].signatureCount = 1
  BY ProposalIds DEF Trail!Approve, Trail!MayApprove, TypeInv
<1> DEFINE row == Trail!CoSigned(proposals[id])
<1>2. row \in Trail!Proposal /\ row.status = "Executed"
  BY <1>1, CoSignedRow
<1>3. /\ hasSigned' = [hasSigned EXCEPT ![id] = @ \cup {Hod}]
      /\ proposals' = [proposals EXCEPT ![id] = row]
      /\ updated' = IF row.status = "Executed" THEN Append(updated, id) ELSE updated
  BY DEF Trail!Approve
<1> HIDE DEF row
<1>4. /\ proposals' \in Seq(Trail!Proposal) /\ Len(proposals') = Len(proposals)
      /\ DOMAIN proposals' = DOMAIN proposals
      /\ \A k \in DOMAIN proposals : proposals'[k] = IF k = id THEN row ELSE proposals[k]
  <2>1. proposals' \in [DOMAIN proposals -> Trail!Proposal]
    BY <1>2, <1>3, ProposalIds
  <2>2. proposals' \in Seq(Trail!Proposal)
    BY <2>1, TableRewrite DEF TypeInv, TypeOK
  <2> QED
    BY <1>3, <2>1, <2>2, ProposalIds, LenProperties
<1>5. updated' \in Seq(Trail!Ids)
  BY <1>1, <1>2, <1>3, TableAppend DEF TypeInv, TypeOK
<1>6. hasSigned' \in [Trail!Ids -> SUBSET {Instructor, Hod}]
  BY <1>3 DEF TypeInv, TypeOK
<1> QED
  BY <1>1, <1>2, <1>4, <1>5, <1>6 DEF ChainInv, TypeInv

LEMMA TypeInit == Init => TypeInv
<1> SUFFICES ASSUME Init
             PROVE  TypeInv
  OBVIOUS
<1>1. /\ \A S : <<>> \in Seq(S)
      /\ Len(<<>>) = 0 /\ DOMAIN <<>> = {}
  OBVIOUS
<1>2. TypeOK
  BY <1>1 DEF Init, TypeOK, Grade, NoLock
<1> QED
  BY <1>1, <1>2, BoundAssumption DEF Init, TypeInv, IdleRequest

\* A step that leaves the chain alone and gives a thread a well-typed record.
LEMMA TypeQuiet ==
  ASSUME TypeInv, UNCHANGED <<proposals, hasSigned, updated>>,
         pending' \in SUBSET Tx,
         grades' \in [Grades -> Grade], mirrors' \in Seq(Mirror),
         NEW r \in Requests, NEW new, req' = [req EXCEPT ![r] = new],
         new \in {IdleRequest} \cup ProposeRequest \cup DecideRequest,
         new.pc \in {"mined", "mirror"} => new.id \in DOMAIN proposals
  PROVE  TypeInv'
<1>1. req' \in [Requests -> {IdleRequest} \cup ProposeRequest \cup DecideRequest]
  BY DEF TypeInv, TypeOK
<1>2. \A q \in Requests : req'[q].pc \in {"mined", "mirror"} => req'[q].id \in DOMAIN proposals
  BY DEF TypeInv, TypeOK
<1>3. TypeOK'
  BY <1>1 DEF TypeInv, TypeOK
<1> QED
  BY <1>2, <1>3 DEF TypeInv

\* The same for a step that is a transaction of the contract.
LEMMA TypeChain ==
  ASSUME TypeInv, ChainInv', DOMAIN proposals \subseteq DOMAIN proposals',
         pending' \in SUBSET Tx, UNCHANGED <<grades, mirrors>>,
         NEW r \in Requests, NEW new, req' = [req EXCEPT ![r] = new],
         new \in {IdleRequest} \cup ProposeRequest \cup DecideRequest,
         new.pc \in {"mined", "mirror"} => new.id \in DOMAIN proposals'
  PROVE  TypeInv'
<1>1. req' \in [Requests -> {IdleRequest} \cup ProposeRequest \cup DecideRequest]
  BY DEF TypeInv, TypeOK
<1>2. \A q \in Requests : req'[q].pc \in {"mined", "mirror"} => req'[q].id \in DOMAIN proposals'
  BY DEF TypeInv, TypeOK
<1>3. TypeOK'
  BY <1>1 DEF TypeInv, TypeOK, ChainInv
<1> QED
  BY <1>2, <1>3 DEF TypeInv, ChainInv

LEMMA IdleIsQuiet ==
  /\ IdleRequest \in {IdleRequest} \cup ProposeRequest \cup DecideRequest
  /\ IdleRequest.pc \notin {"mined", "mirror"}
BY DEF IdleRequest

LEMMA TypeHandlers == ASSUME TypeInv, NEW r \in Requests, Handlers(r) PROVE TypeInv'
<1>0. /\ TypeOK
      /\ \A row \in DOMAIN mirrors : mirrors[row] \in Mirror /\ row \in Nat
  BY TableRows DEF TypeInv, TypeOK
<1>1. ASSUME NEW change \in Change, BeginPropose(r, change)
      PROVE  TypeInv'
  <2> DEFINE new == [pc |-> "propose", change |-> change, id |-> NoId, status |-> "Pending"]
  <2>1. new \in ProposeRequest /\ new.pc = "propose"
    BY DEF ProposeRequest, NoId
  <2>2. /\ req' = [req EXCEPT ![r] = new]
        /\ UNCHANGED <<proposals, hasSigned, updated, pending, grades, mirrors>>
    BY <1>1 DEF BeginPropose, chainVars
  <2> HIDE DEF new
  <2> QED
    BY <1>0, <2>1, <2>2, TypeQuiet DEF TypeOK
<1>2. ASSUME NEW pc \in {"approve", "reject"}, NEW change \in Change, NEW id \in Nat,
             NEW row \in Nat, BeginDecision(r, pc, change, id, row)
      PROVE  TypeInv'
  <2> DEFINE new == [pc |-> pc, change |-> change, id |-> id, row |-> row]
  <2>1. new \in DecideRequest /\ new.pc \in {"approve", "reject"}
    BY DEF DecideRequest
  <2>2. /\ req' = [req EXCEPT ![r] = new]
        /\ UNCHANGED <<proposals, hasSigned, updated, pending, grades, mirrors>>
    BY <1>2 DEF BeginDecision, chainVars
  <2> HIDE DEF new
  <2> QED
    BY <1>0, <2>1, <2>2, TypeQuiet DEF TypeOK
<1>3. ASSUME NEW g \in Grades, NEW v \in Values, CorrectionChecks(r, g, v)
      PROVE  TypeInv'
  <2>1. [grade |-> g, old |-> grades[g].value, new |-> v] \in Change
    BY <1>0 DEF TypeOK, Grade, Change, GradeChange
  <2> QED
    BY <1>1, <1>3, <2>1 DEF CorrectionChecks
<1>4. CASE RecordsProposeChecks(r)
  BY <1>1, <1>4 DEF RecordsProposeChecks, Change
<1>5. ASSUME NEW row \in DOMAIN mirrors, ApproveChecks(r, row) \/ RejectChecks(r, row)
      PROVE  TypeInv'
  <2>1. /\ mirrors[row].change \in Change /\ mirrors[row].id \in Nat /\ row \in Nat
    BY <1>0 DEF Mirror, Trail!Ids
  <2> QED
    BY <1>2, <1>5, <2>1 DEF ApproveChecks, RejectChecks
<1>6. ASSUME NEW id \in DOMAIN proposals, RecordsApproveChecks(r, id)
      PROVE  TypeInv'
  <2>1. /\ id \in Nat /\ Generic \in Change /\ NoRow \in Nat
        /\ \A row \in MirrorOf(id) : row \in Nat
    BY <1>0, ProposalIds DEF Change, NoRow, MirrorOf
  <2> QED
    BY <1>2, <1>6, <2>1 DEF RecordsApproveChecks
<1> QED
  BY <1>3, <1>4, <1>5, <1>6 DEF Handlers

LEMMA NewMirrorTyped ==
  ASSUME TypeInv, NEW r \in Requests, req[r].pc = "mirror"
  PROVE  NewMirror(r) \in Mirror
<1>1. req[r] \in ProposeRequest /\ req[r].id \in Trail!Ids
  BY RequestKinds, ProposalIds DEF TypeInv, InPropose
<1> QED
  BY <1>1 DEF NewMirror, ProposeRequest, Mirror

\* Every request that ends: its thread is idle again.
LEMMA TypeFinish ==
  ASSUME TypeInv, NEW r \in Requests, Finish(r),
         UNCHANGED <<proposals, hasSigned, updated>>,
         pending' \in SUBSET Tx,
         grades' \in [Grades -> Grade], mirrors' \in Seq(Mirror)
  PROVE  TypeInv'
BY IdleIsQuiet, TypeQuiet DEF Finish

LEMMA TypeProposing == ASSUME TypeInv, NEW r \in Requests, Proposing(r) PROVE TypeInv'
<1>0. /\ TypeOK
      /\ pending \in SUBSET Tx /\ grades \in [Grades -> Grade] /\ mirrors \in Seq(Mirror)
  BY DEF TypeInv, TypeOK
<1>1. CASE ProposeMined(r)
  <2>1. req[r] \in ProposeRequest /\ req[r].change \in Change
    BY <1>0, <1>1, RequestKinds DEF ProposeMined, InPropose, ProposeRequest
  <2>2. /\ ChainInv' /\ DOMAIN proposals \subseteq DOMAIN proposals'
        /\ Trail!ProposalCount + 1 \in DOMAIN proposals'
    BY <1>1, <2>1, ProposeEffect DEF ProposeMined
  <2> DEFINE new == [req[r] EXCEPT !.pc = "mined", !.id = Trail!ProposalCount + 1]
  <2>3. Trail!ProposalCount + 1 \in Nat
    BY ProposalIds DEF Trail!ProposalCount
  <2>4. new \in ProposeRequest /\ new.id = Trail!ProposalCount + 1
    BY <2>1, <2>3 DEF ProposeRequest
  <2>5. req' = [req EXCEPT ![r] = new] /\ UNCHANGED <<pending, grades, mirrors>>
    BY <1>0, <1>1 DEF ProposeMined, TypeOK
  <2> HIDE DEF new
  <2> QED
    BY <1>0, <2>2, <2>4, <2>5, TypeChain
<1>2. CASE ReadBack(r)
  <2>1. req[r] \in ProposeRequest /\ req[r].id \in DOMAIN proposals
    BY <1>0, <1>2, RequestKinds DEF ReadBack, InPropose, TypeInv
  <2>2. PICK id \in {req[r].id, Trail!ProposalCount} :
           req' = [req EXCEPT ![r].pc = "mirror", ![r].id = id,
                              ![r].status = proposals[id].status]
    BY <1>2 DEF ReadBack
  <2>3. id \in DOMAIN proposals /\ id \in Nat
    BY <2>1, ProposalIds DEF Trail!ProposalCount
  <2>4. proposals[id].status \in {"Pending", "Executed"}
    BY <2>3, ProposalIds DEF Trail!Proposal
  <2> DEFINE new == [req[r] EXCEPT !.pc = "mirror", !.id = id,
                                   !.status = proposals[id].status]
  <2>5. new \in ProposeRequest /\ new.id = id
    BY <2>1, <2>3, <2>4 DEF ProposeRequest
  <2>6. /\ req' = [req EXCEPT ![r] = new]
        /\ UNCHANGED <<proposals, hasSigned, updated, pending, grades, mirrors>>
    BY <1>0, <1>2, <2>2 DEF ReadBack, TypeOK, chainVars
  <2> HIDE DEF new
  <2> QED
    BY <1>0, <2>3, <2>5, <2>6, TypeQuiet
<1>3. CASE ProposeRefused(r) \/ ReadBackFails(r) \/ MirrorFails(r)
  BY <1>0, <1>3, TypeFinish DEF ProposeRefused, ReadBackFails, MirrorFails, chainVars
<1>4. CASE ProposeUnconfirmed(r)
  <2>1. req[r].change \in Change
    BY <1>0, <1>4, RequestKinds DEF ProposeUnconfirmed, InPropose, ProposeRequest
  <2>2. [call |-> "propose", change |-> req[r].change] \in Tx
    BY <2>1 DEF Tx
  <2> QED
    BY <1>0, <1>4, <2>2, TypeFinish DEF ProposeUnconfirmed
<1>5. CASE CorrectionCommit(r)
  <2>1. NewMirror(r) \in Mirror
    BY <1>5, NewMirrorTyped DEF CorrectionCommit
  <2>2. mirrors' \in Seq(Mirror)
    BY <1>0, <1>5, <2>1, TableAppend DEF CorrectionCommit
  <2>3. grades' \in [Grades -> Grade]
    <3>1. req[r].change \in Change /\ IsGrade(req[r].change)
      BY <1>0, <1>5, RequestKinds DEF CorrectionCommit, InPropose, ProposeRequest
    <3>2. req[r].change.grade \in Grades
      BY <3>1, ChangeKinds
    <3>3. Len(mirrors) + 1 \in Nat
      BY <1>0, TableRows
    <3>4. \A n \in Nat, g \in Grades : [grades[g] EXCEPT !.lock = n] \in Grade
      BY <1>0 DEF Grade
    <3>5. grades' = [grades EXCEPT ![req[r].change.grade] =
                        [grades[req[r].change.grade] EXCEPT !.lock = Len(mirrors) + 1]]
      BY <1>5 DEF CorrectionCommit
    <3> QED
      BY <1>0, <3>2, <3>3, <3>4, <3>5
  <2> QED
    BY <1>0, <1>5, <2>2, <2>3, TypeFinish DEF CorrectionCommit, chainVars
<1>6. CASE RecordsCommit(r)
  <2>1. NewMirror(r) \in Mirror
    BY <1>6, NewMirrorTyped DEF RecordsCommit
  <2>2. Append(mirrors, NewMirror(r)) \in Seq(Mirror)
    BY <1>0, <2>1, TableAppend
  <2>3. [row \in DOMAIN mirrors |->
            IF row \in MirrorOf(req[r].id) THEN NewMirror(r) ELSE mirrors[row]]
           \in [DOMAIN mirrors -> Mirror]
    BY <1>0, <2>1, TableRows
  <2>4. mirrors' \in Seq(Mirror)
    BY <1>0, <1>6, <2>2, <2>3, TableRewrite DEF RecordsCommit
  <2> QED
    BY <1>0, <1>6, <2>4, TypeFinish DEF RecordsCommit, chainVars
<1> QED
  BY <1>1, <1>2, <1>3, <1>4, <1>5, <1>6 DEF Proposing

LEMMA TypeDeciding == ASSUME TypeInv, NEW r \in Requests, Deciding(r) PROVE TypeInv'
<1>0. /\ TypeOK
      /\ pending \in SUBSET Tx /\ grades \in [Grades -> Grade] /\ mirrors \in Seq(Mirror)
      /\ req \in [Requests -> {IdleRequest} \cup ProposeRequest \cup DecideRequest]
  BY DEF TypeInv, TypeOK
<1>1. InDecision(r) /\ req[r] \in DecideRequest
  BY <1>0, RequestKinds DEF Deciding, ApproveMined, ApproveRefused, ApproveUnconfirmed,
     ApproveUnread, ApproveCommit, RejectCommit, DecisionFails, InDecision
<1>2. CASE ApproveMined(r)
  <2>1. ChainInv' /\ DOMAIN proposals' = DOMAIN proposals
    BY <1>2, ApproveEffect DEF ApproveMined
  <2> DEFINE new == [req[r] EXCEPT !.pc = "approved"]
  <2>2. new \in DecideRequest /\ new.pc = "approved"
    BY <1>1 DEF DecideRequest
  <2>3. req' = [req EXCEPT ![r] = new] /\ UNCHANGED <<pending, grades, mirrors>>
    BY <1>0, <1>2 DEF ApproveMined
  <2> HIDE DEF new
  <2> QED
    BY <1>0, <2>1, <2>2, <2>3, TypeChain
<1>3. CASE ApproveUnread(r)
  <2>1. ChainInv' /\ DOMAIN proposals' = DOMAIN proposals
    BY <1>3, ApproveEffect DEF ApproveUnread
  <2>2. req' = [req EXCEPT ![r] = IdleRequest] /\ UNCHANGED <<pending, grades, mirrors>>
    BY <1>3 DEF ApproveUnread, Finish
  <2> QED
    BY <1>0, <2>1, <2>2, TypeChain, IdleIsQuiet
<1>4. CASE ApproveRefused(r) \/ DecisionFails(r)
  BY <1>0, <1>4, TypeFinish DEF ApproveRefused, DecisionFails, chainVars
<1>5. CASE ApproveUnconfirmed(r)
  <2>1. req[r].id \in Trail!Ids
    BY <1>5, ProposalIds DEF ApproveUnconfirmed, Trail!MayApprove
  <2>2. [call |-> "approve", id |-> req[r].id] \in Tx
    BY <2>1 DEF Tx
  <2> QED
    BY <1>0, <1>5, <2>2, TypeFinish DEF ApproveUnconfirmed
<1>6. \A row \in DOMAIN mirrors, st \in {"Executed", "Rejected"} :
         [mirrors[row] EXCEPT !.status = st] \in Mirror
  <2>1. \A m \in Mirror, st \in {"Executed", "Rejected"} : [m EXCEPT !.status = st] \in Mirror
    BY DEF Mirror
  <2> QED
    BY <1>0, <2>1, TableRows
<1>7. CASE ApproveCommit(r)
  <2>1. mirrors' \in Seq(Mirror)
    <3>1. mirrors' = [row \in DOMAIN mirrors |->
                         IF row = req[r].row THEN [mirrors[row] EXCEPT !.status = "Executed"]
                                             ELSE mirrors[row]]
      BY <1>7 DEF ApproveCommit
    <3>2. mirrors' \in [DOMAIN mirrors -> Mirror]
      BY <1>0, <1>6, <3>1, TableRows
    <3> QED
      BY <1>0, <3>2, TableRewrite
  <2>2. grades' \in [Grades -> Grade]
    <3>1. ASSUME NEW g \in Grades, g = req[r].change.grade
          PROVE  [value |-> req[r].change.new, lock |-> NoLock] \in Grade
      <4>1. req[r].change \in GradeChange
        BY <1>1, <3>1, ChangeKinds, NoGradeAssumption DEF DecideRequest, IsGrade
      <4> QED
        BY <4>1 DEF GradeChange, Grade, NoLock
    <3> QED
      BY <1>0, <1>7, <3>1 DEF ApproveCommit
  <2> QED
    BY <1>0, <1>7, <2>1, <2>2, TypeFinish DEF ApproveCommit, chainVars
<1>8. CASE RejectCommit(r)
  <2>1. mirrors' \in Seq(Mirror)
    <3>1. mirrors' = [mirrors EXCEPT ![req[r].row] =
                         [mirrors[req[r].row] EXCEPT !.status = "Rejected"]]
      BY <1>8 DEF RejectCommit
    <3>2. mirrors \in [DOMAIN mirrors -> Mirror]
      BY <1>0, TableRows
    <3>3. mirrors' \in [DOMAIN mirrors -> Mirror]
      BY <1>6, <3>1, <3>2
    <3> QED
      BY <1>0, <3>3, TableRewrite
  <2>2. grades' \in [Grades -> Grade]
    <3>1. grades' = [grades EXCEPT ![req[r].change.grade] =
                        [grades[req[r].change.grade] EXCEPT !.lock = NoLock]]
      BY <1>8 DEF RejectCommit
    <3>2. \A g \in Grades : [grades[g] EXCEPT !.lock = NoLock] \in Grade
      BY <1>0 DEF Grade, NoLock
    <3> QED
      BY <1>0, <3>1, <3>2
  <2> QED
    BY <1>0, <1>8, <2>1, <2>2, TypeFinish DEF RejectCommit, chainVars
<1> QED
  BY <1>2, <1>3, <1>4, <1>5, <1>7, <1>8 DEF Deciding

LEMMA TypePending == ASSUME TypeInv, NEW tx \in pending, MinePending(tx) PROVE TypeInv'
<1>0. TypeOK /\ tx \in Tx /\ pending' \in SUBSET Tx /\ UNCHANGED <<grades, mirrors, req>>
  BY DEF TypeInv, TypeOK, MinePending
<1>1. CASE tx.call = "propose" /\ Trail!ProposeChange(Instructor, tx.change)
  <2>1. tx.change \in Change
    BY <1>0, <1>1 DEF Tx
  <2>2. ChainInv' /\ DOMAIN proposals \subseteq DOMAIN proposals'
    BY <1>1, <2>1, ProposeEffect
  <2> QED
    BY <1>0, <2>2 DEF TypeInv, TypeOK, ChainInv
<1>2. CASE Trail!Approve(Hod, tx.id)
  <2>1. ChainInv' /\ DOMAIN proposals' = DOMAIN proposals
    BY <1>2, ApproveEffect
  <2> QED
    BY <1>0, <2>1 DEF TypeInv, TypeOK, ChainInv
<1>3. CASE UNCHANGED <<proposals, hasSigned, updated>>
  BY <1>0, <1>3 DEF TypeInv, TypeOK
<1> QED
  BY <1>1, <1>2, <1>3 DEF MinePending

LEMMA TypeRestart == ASSUME TypeInv, Crash \/ Redeploy PROVE TypeInv'
<1>0. \A r \in Requests : req'[r] = IdleRequest
  BY DEF Crash, Redeploy
<1>1. CASE Crash
  BY <1>0, <1>1, IdleIsQuiet DEF Crash, TypeInv, TypeOK, chainVars
<1>2. CASE Redeploy
  <2>1. /\ proposals' = <<>> /\ updated' = <<>> /\ pending' = {}
        /\ hasSigned' = [id \in Trail!Ids |-> {}]
        /\ req' = [r \in Requests |-> IdleRequest]
        /\ UNCHANGED <<grades, mirrors>>
    BY <1>2 DEF Redeploy
  <2>2. /\ \A S : <<>> \in Seq(S)
        /\ Len(<<>>) = 0 /\ DOMAIN <<>> = {}
    OBVIOUS
  <2>3. TypeOK'
    BY <2>1, <2>2 DEF TypeInv, TypeOK
  <2> QED
    BY <1>0, <2>1, <2>2, <2>3, IdleIsQuiet, BoundAssumption DEF TypeInv
<1> QED
  BY <1>1, <1>2

LEMMA TypeNext == TypeInv /\ [Next]_vars => TypeInv'
<1> SUFFICES ASSUME TypeInv, [Next]_vars
             PROVE  TypeInv'
  OBVIOUS
<1>1. CASE UNCHANGED vars
  BY <1>1 DEF vars, TypeInv, TypeOK
<1> QED
  BY <1>1, TypeHandlers, TypeProposing, TypeDeciding, TypePending, TypeRestart DEF Next

\* Every variable keeps its type, also while old rows meet a new contract.
THEOREM CorrectionsTypeCorrect == Spec => []TypeOK
<1>1. Init => TypeInv
  BY TypeInit
<1>2. TypeInv /\ [Next]_vars => TypeInv'
  BY TypeNext
<1>3. TypeInv => TypeOK
  BY DEF TypeInv
<1> QED
  BY <1>1, <1>2, <1>3, PTL DEF Spec

-----------------------------------------------------------------------------
(* What the row locks give for the lock column *)

\* What a thread has read stays true until it commits: its grade is still
\* unlocked and has the value it quotes, or its correction is still pending.
ThreadInv(r) ==
    /\ InPropose(r) /\ IsGrade(req[r].change) =>
          /\ grades[req[r].change.grade].lock = NoLock
          /\ grades[req[r].change.grade].value = req[r].change.old
    /\ InDecision(r) /\ IsGrade(req[r].change) =>
          /\ req[r].row \in DOMAIN mirrors
          /\ mirrors[req[r].row].change = req[r].change
          /\ mirrors[req[r].row].status = "Pending"
    /\ InDecision(r) /\ ~IsGrade(req[r].change) =>
          /\ req[r].pc # "reject"
          /\ \/ req[r].row = NoRow
             \/ req[r].row \in DOMAIN mirrors /\ ~IsGrade(mirrors[req[r].row].change)

\* FOR UPDATE keeps two threads off one grade.
Apart ==
    \A r, q \in Requests :
        /\ Active(r) /\ Active(q) /\ IsGrade(req[r].change)
        /\ req[r].change.grade = req[q].change.grade
        => r = q

LockInv ==
    /\ TypeInv
    /\ PendingHoldsLock
    /\ PendingIsCurrent
    /\ \A r \in Requests : ThreadInv(r)
    /\ Apart

\* The thread is idle afterwards, or goes on with the same change and row.
GoesOn(q) ==
    \/ req'[q].pc = "idle"
    \/ InPropose(q) /\ InPropose(q)' /\ req'[q].change = req[q].change
    \/ /\ InDecision(q) /\ InDecision(q)' /\ req'[q].change = req[q].change
       /\ req'[q].row = req[q].row /\ (req'[q].pc = "reject" => req[q].pc = "reject")

LEMMA LockInit == Init => LockInv
<1> SUFFICES ASSUME Init
             PROVE  LockInv
  OBVIOUS
<1>1. mirrors = <<>> /\ DOMAIN mirrors = {} /\ \A r \in Requests : req[r].pc = "idle"
  BY DEF Init, IdleRequest
<1> QED
  BY <1>1, TypeInit DEF LockInv, PendingHoldsLock, PendingIsCurrent, ThreadInv, Apart, Active,
     InPropose, InDecision

LEMMA ApartCarries ==
  ASSUME Apart, \A q \in Requests : GoesOn(q)
  PROVE  Apart'
<1>1. \A q \in Requests : Active(q)' => Active(q) /\ req'[q].change = req[q].change
  BY DEF GoesOn, Active, InPropose, InDecision
<1> QED
  BY <1>1 DEF Apart

\* Everything that leaves the two tables alone and begins no request.
LEMMA LockCarries ==
  ASSUME LockInv, TypeInv', UNCHANGED <<grades, mirrors>>, \A q \in Requests : GoesOn(q)
  PROVE  LockInv'
<1>1. Apart'
  BY ApartCarries DEF LockInv
<1>2. PendingHoldsLock' /\ PendingIsCurrent'
  BY DEF LockInv, PendingHoldsLock, PendingIsCurrent
<1>3. ASSUME NEW q \in Requests
      PROVE  ThreadInv(q)'
  <2>1. ThreadInv(q) /\ GoesOn(q)
    BY DEF LockInv
  <2>2. CASE req'[q].pc = "idle"
    BY <2>2 DEF ThreadInv, InPropose, InDecision
  <2>3. CASE InPropose(q) /\ InPropose(q)' /\ req'[q].change = req[q].change
    <3>1. ~InDecision(q)'
      BY <2>3 DEF InPropose, InDecision
    <3> QED
      BY <2>1, <2>3, <3>1 DEF ThreadInv
  <2>4. CASE /\ InDecision(q) /\ InDecision(q)' /\ req'[q].change = req[q].change
             /\ req'[q].row = req[q].row /\ (req'[q].pc = "reject" => req[q].pc = "reject")
    <3>1. ~InPropose(q)'
      BY <2>4 DEF InPropose, InDecision
    <3> QED
      BY <2>1, <2>4, <3>1 DEF ThreadInv
  <2> QED
    BY <2>1, <2>2, <2>3, <2>4 DEF GoesOn
<1> QED
  BY <1>1, <1>2, <1>3 DEF LockInv

\* A request that begins, its rows free of other threads.
LEMMA LockBegins ==
  ASSUME LockInv, TypeInv', UNCHANGED <<grades, mirrors>>,
         NEW r \in Requests, NEW new, req' = [req EXCEPT ![r] = new],
         IsGrade(new.change) => \A q \in Requests : Active(q) => req[q].change.grade # new.change.grade,
         ~IsGrade(new.change) => new.change.grade = NoGrade,
         ThreadInv(r)'
  PROVE  LockInv'
<1>1. req'[r] = new /\ \A q \in Requests \ {r} : req'[q] = req[q]
  BY DEF LockInv, TypeInv, TypeOK
<1>2. PendingHoldsLock' /\ PendingIsCurrent'
  BY DEF LockInv, PendingHoldsLock, PendingIsCurrent
<1>3. ASSUME NEW q \in Requests
      PROVE  ThreadInv(q)'
  <2>1. CASE q = r
    BY <2>1
  <2>2. CASE q # r
    BY <1>1, <2>2 DEF LockInv, ThreadInv, InPropose, InDecision
  <2> QED
    BY <2>1, <2>2
<1>4. Apart'
  <2>1. SUFFICES ASSUME NEW p \in Requests, NEW q \in Requests, p # q,
                        Active(p)', Active(q)', IsGrade(req'[p].change),
                        req'[p].change.grade = req'[q].change.grade
                 PROVE  FALSE
    BY DEF Apart
  <2>2. IsGrade(req'[q].change)
    BY <2>1 DEF IsGrade
  <2>3. CASE p = r
    BY <1>1, <2>1, <2>3 DEF Active
  <2>4. CASE q = r
    BY <1>1, <2>1, <2>2, <2>4 DEF Active
  <2>5. CASE p # r /\ q # r
    BY <1>1, <2>1, <2>5 DEF LockInv, Apart, Active
  <2> QED
    BY <2>3, <2>4, <2>5
<1> QED
  BY <1>2, <1>3, <1>4 DEF LockInv

LEMMA LockHandlers ==
  ASSUME RowLocks, LockInv, TypeInv', NEW r \in Requests, Handlers(r)
  PROVE  LockInv'
<1>0. /\ TypeOK
      /\ \A row \in DOMAIN mirrors : mirrors[row] \in Mirror
  BY TableRows DEF LockInv, TypeInv, TypeOK
<1>1. ASSUME NEW g \in Grades, NEW v \in Values, CorrectionChecks(r, g, v)
      PROVE  LockInv'
  <2> DEFINE change == [grade |-> g, old |-> grades[g].value, new |-> v]
             new == [pc |-> "propose", change |-> change, id |-> NoId, status |-> "Pending"]
  <2>1. /\ req' = [req EXCEPT ![r] = new] /\ UNCHANGED <<grades, mirrors>>
        /\ grades[g].lock = NoLock
        /\ \A q \in Requests : Active(q) => req[q].change.grade # g
    BY <1>1 DEF CorrectionChecks, BeginPropose, GradeFree
  <2>2. IsGrade(new.change) /\ new.change.grade = g
    BY NoGradeAssumption DEF IsGrade
  <2>3. req'[r] = new
    BY <1>0, <2>1 DEF TypeOK
  <2>4. ThreadInv(r)'
    BY <2>1, <2>2, <2>3 DEF ThreadInv, InPropose, InDecision
  <2> HIDE DEF new
  <2> QED
    BY <2>1, <2>2, <2>4, LockBegins
<1>2. CASE RecordsProposeChecks(r)
  <2> DEFINE new == [pc |-> "propose", change |-> Generic, id |-> NoId, status |-> "Pending"]
  <2>1. /\ req' = [req EXCEPT ![r] = new] /\ UNCHANGED <<grades, mirrors>>
    BY <1>2 DEF RecordsProposeChecks, BeginPropose
  <2>2. ~IsGrade(new.change) /\ new.change.grade = NoGrade
    BY ChangeKinds
  <2>3. req'[r] = new
    BY <1>0, <2>1 DEF TypeOK
  <2>4. ThreadInv(r)'
    BY <2>2, <2>3 DEF ThreadInv, InDecision
  <2> HIDE DEF new
  <2> QED
    BY <2>1, <2>2, <2>4, LockBegins
<1>3. ASSUME NEW row \in DOMAIN mirrors, NEW pc \in {"approve", "reject"}, Decidable(row),
             BeginDecision(r, pc, mirrors[row].change, mirrors[row].id, row)
      PROVE  LockInv'
  <2> DEFINE new == [pc |-> pc, change |-> mirrors[row].change, id |-> mirrors[row].id, row |-> row]
  <2>1. /\ req' = [req EXCEPT ![r] = new] /\ UNCHANGED <<grades, mirrors>>
    BY <1>3 DEF BeginDecision
  <2>2. /\ IsGrade(new.change) /\ mirrors[row].status = "Pending"
        /\ \A q \in Requests : Active(q) => req[q].change.grade # new.change.grade
    BY <1>3 DEF Decidable, GradeFree
  <2>3. req'[r] = new
    BY <1>0, <2>1 DEF TypeOK
  <2>4. ThreadInv(r)'
    BY <2>1, <2>2, <2>3 DEF ThreadInv, InPropose, InDecision
  <2> HIDE DEF new
  <2> QED
    BY <2>1, <2>2, <2>4, LockBegins
<1> DEFINE GenericRows == {row \in DOMAIN mirrors : ~IsGrade(mirrors[row].change)}
<1>4. ASSUME NEW id, NEW row \in {NoRow} \cup GenericRows,
             BeginDecision(r, "approve", Generic, id, row)
      PROVE  LockInv'
  <2> DEFINE new == [pc |-> "approve", change |-> Generic, id |-> id, row |-> row]
  <2>1. /\ req' = [req EXCEPT ![r] = new] /\ UNCHANGED <<grades, mirrors>>
    BY <1>4 DEF BeginDecision
  <2>2. ~IsGrade(new.change) /\ new.change.grade = NoGrade
    BY ChangeKinds
  <2>3. req'[r] = new
    BY <1>0, <2>1 DEF TypeOK
  <2>4. ThreadInv(r)'
    BY <1>4, <2>1, <2>2, <2>3 DEF ThreadInv, InPropose
  <2> HIDE DEF new
  <2> QED
    BY <2>1, <2>2, <2>4, LockBegins
<1>5. ASSUME NEW id, RecordsApproveChecks(r, id)
      PROVE  LockInv'
  <2>1. CASE BeginDecision(r, "approve", Generic, id, NoRow)
    <3>1. NoRow \in {NoRow} \cup GenericRows
      OBVIOUS
    <3> HIDE DEF GenericRows
    <3> QED
      BY <1>4, <2>1, <3>1
  <2>2. ASSUME NEW row \in MirrorOf(id), ~IsGrade(mirrors[row].change),
               BeginDecision(r, "approve", Generic, id, row)
        PROVE  LockInv'
    <3>1. row \in GenericRows
      BY <2>2 DEF MirrorOf
    <3> HIDE DEF GenericRows
    <3> QED
      BY <1>4, <2>2, <3>1
  <2> QED
    BY <1>5, <2>1, <2>2 DEF RecordsApproveChecks
<1>6. ASSUME NEW row \in DOMAIN mirrors, ApproveChecks(r, row) \/ RejectChecks(r, row)
      PROVE  LockInv'
  BY <1>3, <1>6 DEF ApproveChecks, RejectChecks
<1> QED
  BY <1>1, <1>2, <1>5, <1>6 DEF Handlers

\* Steps that do not touch the tables: the chain's part of a request, a
\* request that fails, a transaction mined late, a restart, a new contract.
QuietStep(r) ==
    \/ ProposeMined(r) \/ ProposeRefused(r) \/ ProposeUnconfirmed(r)
    \/ ReadBack(r) \/ ReadBackFails(r) \/ MirrorFails(r)
    \/ ApproveMined(r) \/ ApproveRefused(r) \/ ApproveUnconfirmed(r) \/ ApproveUnread(r)
    \/ DecisionFails(r)

LEMMA QuietSteps ==
  ASSUME TypeOK, NEW r \in Requests, QuietStep(r)
  PROVE  UNCHANGED <<grades, mirrors>> /\ \A q \in Requests : GoesOn(q)
<1>1. UNCHANGED <<grades, mirrors>>
  BY DEF QuietStep, ProposeMined, ProposeRefused, ProposeUnconfirmed, ReadBack, ReadBackFails,
     MirrorFails, ApproveMined, ApproveRefused, ApproveUnconfirmed, ApproveUnread, DecisionFails
<1>2. \A q \in Requests : req'[q] = req[q] => GoesOn(q)
  BY RequestKinds DEF GoesOn, InPropose, InDecision
<1>3. ASSUME NEW new, req' = [req EXCEPT ![r] = new],
             \/ new.pc = "idle"
             \/ /\ InPropose(r) /\ new.pc \in {"mined", "mirror"} /\ new.change = req[r].change
             \/ /\ InDecision(r) /\ new.pc = "approved" /\ new.change = req[r].change
                /\ new.row = req[r].row
      PROVE  \A q \in Requests : GoesOn(q)
  <2>1. req'[r] = new /\ \A q \in Requests \ {r} : req'[q] = req[q]
    BY <1>3 DEF TypeOK
  <2>2. GoesOn(r)
    BY <1>3, <2>1 DEF GoesOn, InPropose, InDecision
  <2> QED
    BY <1>2, <2>1, <2>2
<1>4. CASE Finish(r)
  <2>1. IdleRequest.pc = "idle"
    BY DEF IdleRequest
  <2> QED
    BY <1>1, <1>3, <1>4, <2>1 DEF Finish
<1>5. CASE ProposeMined(r)
  <2> DEFINE new == [req[r] EXCEPT !.pc = "mined", !.id = Trail!ProposalCount + 1]
  <2>1. req[r] \in ProposeRequest /\ InPropose(r)
    BY <1>5, RequestKinds DEF ProposeMined, InPropose
  <2>2. new.pc = "mined" /\ new.change = req[r].change
    BY <2>1 DEF ProposeRequest
  <2>3. req' = [req EXCEPT ![r] = new]
    BY <1>5 DEF ProposeMined, TypeOK
  <2> HIDE DEF new
  <2> QED
    BY <1>1, <1>3, <2>1, <2>2, <2>3
<1>6. CASE ReadBack(r)
  <2>1. req[r] \in ProposeRequest /\ InPropose(r)
    BY <1>6, RequestKinds DEF ReadBack, InPropose
  <2>2. PICK id : req' = [req EXCEPT ![r].pc = "mirror", ![r].id = id,
                                     ![r].status = proposals[id].status]
    BY <1>6 DEF ReadBack
  <2> DEFINE new == [req[r] EXCEPT !.pc = "mirror", !.id = id, !.status = proposals[id].status]
  <2>3. new.pc = "mirror" /\ new.change = req[r].change
    BY <2>1 DEF ProposeRequest
  <2>4. req' = [req EXCEPT ![r] = new]
    BY <2>2 DEF TypeOK
  <2> HIDE DEF new
  <2> QED
    BY <1>1, <1>3, <2>1, <2>3, <2>4
<1>7. CASE ApproveMined(r)
  <2> DEFINE new == [req[r] EXCEPT !.pc = "approved"]
  <2>1. req[r] \in DecideRequest /\ InDecision(r)
    BY <1>7, RequestKinds DEF ApproveMined, InDecision
  <2>2. new.pc = "approved" /\ new.change = req[r].change /\ new.row = req[r].row
    BY <2>1 DEF DecideRequest
  <2>3. req' = [req EXCEPT ![r] = new]
    BY <1>7 DEF ApproveMined, TypeOK
  <2> HIDE DEF new
  <2> QED
    BY <1>1, <1>3, <2>1, <2>2, <2>3
<1>8. Finish(r) \/ ProposeMined(r) \/ ReadBack(r) \/ ApproveMined(r)
  BY DEF QuietStep, ProposeRefused, ProposeUnconfirmed, ReadBackFails, MirrorFails,
     ApproveRefused, ApproveUnconfirmed, ApproveUnread, DecisionFails
<1> QED
  BY <1>1, <1>4, <1>5, <1>6, <1>7, <1>8

LEMMA MirrorRows ==
  ASSUME TypeOK
  PROVE  \A row \in DOMAIN mirrors :
            mirrors[row].change \in Change /\ row # NoLock /\ row # NoRow
<1>1. mirrors \in Seq(Mirror) /\ \A m \in Mirror : m.change \in Change
  BY DEF TypeOK, Mirror
<1> QED
  BY <1>1, TableRows DEF NoLock, NoRow

\* A thread that ends leaves the others' requests alone.
LEMMA FinishEffect ==
  ASSUME TypeOK, NEW r \in Requests, Finish(r)
  PROVE  /\ req'[r].pc = "idle"
         /\ \A q \in Requests \ {r} : req'[q] = req[q]
         /\ \A q \in Requests : GoesOn(q)
<1>1. req'[r].pc = "idle" /\ \A q \in Requests \ {r} : req'[q] = req[q]
  BY DEF Finish, TypeOK, IdleRequest
<1>2. \A q \in Requests : req'[q] = req[q] => GoesOn(q)
  BY RequestKinds DEF GoesOn, InPropose, InDecision
<1> QED
  BY <1>1, <1>2 DEF GoesOn

\* What a correction's commit writes: a new last row, which its grade names.
LEMMA CorrectionWrites ==
  ASSUME TypeInv, NEW r \in Requests, CorrectionCommit(r)
  PROVE  /\ InPropose(r) /\ IsGrade(req[r].change) /\ req[r].change.grade \in Grades
         /\ Len(mirrors) + 1 \notin DOMAIN mirrors /\ Len(mirrors) + 1 # NoLock
         /\ DOMAIN mirrors' = DOMAIN mirrors \cup {Len(mirrors) + 1}
         /\ \A row \in DOMAIN mirrors : mirrors'[row] = mirrors[row]
         /\ mirrors'[Len(mirrors) + 1].change = req[r].change
         /\ \A g \in Grades :
               /\ grades'[g].value = grades[g].value
               /\ grades'[g].lock = IF g = req[r].change.grade THEN Len(mirrors) + 1
                                                              ELSE grades[g].lock
<1>0. TypeOK /\ mirrors \in Seq(Mirror) /\ Len(mirrors) \in Nat
  BY LenProperties DEF TypeInv, TypeOK
<1>1. InPropose(r) /\ req[r].change \in Change
  BY <1>0, RequestKinds DEF CorrectionCommit, InPropose, ProposeRequest
<1>2. IsGrade(req[r].change) /\ req[r].change.grade \in Grades
  BY <1>1, ChangeKinds DEF CorrectionCommit
<1>3. NewMirror(r) \in Mirror /\ NewMirror(r).change = req[r].change
  BY NewMirrorTyped DEF CorrectionCommit, NewMirror
<1>4. mirrors' = Append(mirrors, NewMirror(r))
  BY DEF CorrectionCommit
<1>5. \A g \in Grades :
         /\ grades'[g].value = grades[g].value
         /\ grades'[g].lock = IF g = req[r].change.grade THEN Len(mirrors) + 1
                                                        ELSE grades[g].lock
  BY <1>0, <1>2 DEF CorrectionCommit, TypeOK, Grade
<1> QED
  BY <1>0, <1>1, <1>2, <1>3, <1>4, <1>5, TableAppend DEF NoLock

\* What /records writes: rows that become generic, or a new generic one.
LEMMA RecordsWrites ==
  ASSUME TypeInv, NEW r \in Requests, RecordsCommit(r)
  PROVE  /\ grades' = grades /\ DOMAIN mirrors \subseteq DOMAIN mirrors'
         /\ \A row \in DOMAIN mirrors' :
               \/ row \in DOMAIN mirrors /\ mirrors'[row] = mirrors[row]
               \/ ~IsGrade(mirrors'[row].change)
         /\ RowLocks => \A q \in Requests : InDecision(q) /\ IsGrade(req[q].change)
               => (req[q].row \in DOMAIN mirrors => mirrors'[req[q].row] = mirrors[req[q].row])
<1>0. TypeOK /\ mirrors \in Seq(Mirror)
  BY DEF TypeInv, TypeOK
<1>1. NewMirror(r) \in Mirror /\ ~IsGrade(NewMirror(r).change)
  BY NewMirrorTyped DEF RecordsCommit, NewMirror
<1>2. CASE mirrors' = Append(mirrors, NewMirror(r))
  BY <1>0, <1>1, <1>2, TableAppend DEF RecordsCommit
<1>3. CASE mirrors' = [row \in DOMAIN mirrors |->
                          IF row \in MirrorOf(req[r].id) THEN NewMirror(r) ELSE mirrors[row]]
  <2>1. RowLocks => \A q \in Requests : InDecision(q) /\ IsGrade(req[q].change)
                       => req[q].row \notin MirrorOf(req[r].id)
    BY DEF RecordsCommit, MirrorFree, InDecision
  <2> QED
    BY <1>1, <1>3, <2>1 DEF RecordsCommit
<1> QED
  BY <1>2, <1>3 DEF RecordsCommit

\* What a decision writes: its row's status, and its grade.
LEMMA DecisionWrites ==
  ASSUME LockInv, NEW r \in Requests, ApproveCommit(r) \/ RejectCommit(r)
  PROVE  /\ InDecision(r) /\ DOMAIN mirrors' = DOMAIN mirrors
         /\ \A row \in DOMAIN mirrors : mirrors'[row].change = mirrors[row].change
         /\ \A row \in DOMAIN mirrors : row # req[r].row => mirrors'[row] = mirrors[row]
         /\ \A g \in Grades : g # req[r].change.grade => grades'[g] = grades[g]
         /\ IsGrade(req[r].change) => /\ req[r].change.grade \in Grades
                                      /\ grades'[req[r].change.grade].lock = NoLock
                                      /\ mirrors'[req[r].row].status # "Pending"
<1>0. /\ TypeOK /\ DOMAIN grades = Grades /\ grades \in [Grades -> Grade]
      /\ \A row \in DOMAIN mirrors : mirrors[row] \in Mirror
  BY TableRows DEF LockInv, TypeInv, TypeOK
<1>1. InDecision(r) /\ req[r].change \in Change
  BY <1>0, RequestKinds DEF ApproveCommit, RejectCommit, InDecision, DecideRequest
<1>2. IsGrade(req[r].change) => req[r].change.grade \in Grades /\ req[r].row \in DOMAIN mirrors
  BY <1>1, ChangeKinds DEF LockInv, ThreadInv
<1>3. CASE ApproveCommit(r)
  <2>1. \A row \in DOMAIN mirrors :
           /\ [mirrors[row] EXCEPT !.status = "Executed"].change = mirrors[row].change
           /\ [mirrors[row] EXCEPT !.status = "Executed"].status = "Executed"
    BY <1>0 DEF Mirror
  <2> QED
    BY <1>0, <1>1, <1>2, <1>3, <2>1 DEF ApproveCommit
<1>4. CASE RejectCommit(r)
  <2>1. IsGrade(req[r].change)
    BY <1>1, <1>4 DEF RejectCommit, LockInv, ThreadInv
  <2>2. mirrors' = [mirrors EXCEPT ![req[r].row] =
                       [mirrors[req[r].row] EXCEPT !.status = "Rejected"]]
    BY <1>4 DEF RejectCommit
  <2>3. /\ [mirrors[req[r].row] EXCEPT !.status = "Rejected"].change = mirrors[req[r].row].change
        /\ [mirrors[req[r].row] EXCEPT !.status = "Rejected"].status = "Rejected"
    BY <1>0, <1>2, <2>1 DEF Mirror
  <2>4. /\ \A g \in Grades : g # req[r].change.grade => grades'[g] = grades[g]
        /\ grades'[req[r].change.grade].lock = NoLock
    BY <1>0, <1>2, <1>4, <2>1 DEF RejectCommit, Grade
  <2> QED
    BY <1>1, <1>2, <2>1, <2>2, <2>3, <2>4
<1> QED
  BY <1>3, <1>4

LEMMA LockCorrection ==
  ASSUME LockInv, TypeInv', NEW r \in Requests, CorrectionCommit(r)
  PROVE  LockInv'
<1> DEFINE new == Len(mirrors) + 1
           own == req[r].change.grade
<1>0. TypeOK /\ TypeInv /\ ThreadInv(r) /\ Active(r)
  BY CorrectionWrites DEF LockInv, TypeInv, Active, CorrectionCommit
<1>1. /\ InPropose(r) /\ IsGrade(req[r].change) /\ own \in Grades
      /\ new \notin DOMAIN mirrors /\ new # NoLock
      /\ DOMAIN mirrors' = DOMAIN mirrors \cup {new}
      /\ \A row \in DOMAIN mirrors : mirrors'[row] = mirrors[row]
      /\ mirrors'[new].change = req[r].change
      /\ \A g \in Grades : /\ grades'[g].value = grades[g].value
                           /\ grades'[g].lock = IF g = own THEN new ELSE grades[g].lock
  BY <1>0, CorrectionWrites
<1>2. grades[own].lock = NoLock /\ grades[own].value = req[r].change.old
  BY <1>0, <1>1 DEF ThreadInv
<1>3. /\ req'[r].pc = "idle"
      /\ \A q \in Requests \ {r} : req'[q] = req[q]
      /\ \A q \in Requests : GoesOn(q)
  BY <1>0, FinishEffect DEF CorrectionCommit
<1>4. \A row \in DOMAIN mirrors : mirrors[row].change \in Change /\ row # NoLock
  BY <1>0, MirrorRows
<1> HIDE DEF new, own
\* A pending correction of this grade would hold its lock, which is free.
<1>5. PendingHoldsLock' /\ PendingIsCurrent'
  <2> SUFFICES ASSUME NEW row \in DOMAIN mirrors', IsGrade(mirrors'[row].change),
                      mirrors'[row].status = "Pending"
               PROVE  /\ grades'[mirrors'[row].change.grade].lock = row
                      /\ grades'[mirrors'[row].change.grade].value = mirrors'[row].change.old
    BY DEF PendingHoldsLock, PendingIsCurrent
  <2>1. CASE row = new
    BY <1>1, <1>2, <2>1 DEF own
  <2>2. CASE row \in DOMAIN mirrors
    <3> DEFINE g == mirrors[row].change.grade
    <3>1. IsGrade(mirrors[row].change) /\ mirrors[row].status = "Pending" /\ g \in Grades
      BY <1>1, <1>4, <2>2, ChangeKinds
    <3>2. grades[g].lock = row /\ grades[g].value = mirrors[row].change.old
      BY <2>2, <3>1 DEF LockInv, PendingHoldsLock, PendingIsCurrent
    <3>3. g # own
      BY <1>2, <1>4, <2>2, <3>2
    <3> QED
      BY <1>1, <2>2, <3>1, <3>2, <3>3
  <2> QED
    BY <1>1, <2>1, <2>2
<1>6. ASSUME NEW q \in Requests
      PROVE  ThreadInv(q)'
  <2>1. CASE q = r
    BY <1>3, <2>1 DEF ThreadInv, InPropose, InDecision
  <2>2. CASE q # r
    <3>1. ThreadInv(q) /\ req'[q] = req[q] /\ (InPropose(q)' <=> InPropose(q))
          /\ (InDecision(q)' <=> InDecision(q))
      BY <1>3, <2>2 DEF LockInv, InPropose, InDecision
    <3>2. InPropose(q) /\ IsGrade(req[q].change)
             => req[q].change.grade \in Grades /\ req[q].change.grade # own
      <4>1. InPropose(q) => req[q].change \in Change /\ Active(q)
        BY <1>0, RequestKinds DEF ProposeRequest
      <4> QED
        BY <1>0, <1>1, <2>2, <4>1, ChangeKinds DEF LockInv, Apart, own
    <3> QED
      BY <1>1, <3>1, <3>2 DEF ThreadInv
  <2> QED
    BY <2>1, <2>2
<1>7. Apart'
  BY <1>3, ApartCarries DEF LockInv
<1> QED
  BY <1>5, <1>6, <1>7 DEF LockInv

LEMMA LockRecords ==
  ASSUME RowLocks, LockInv, TypeInv', NEW r \in Requests, RecordsCommit(r)
  PROVE  LockInv'
<1>0. TypeOK /\ TypeInv
  BY DEF LockInv, TypeInv
<1>1. /\ grades' = grades /\ DOMAIN mirrors \subseteq DOMAIN mirrors'
      /\ \A row \in DOMAIN mirrors' :
            \/ row \in DOMAIN mirrors /\ mirrors'[row] = mirrors[row]
            \/ ~IsGrade(mirrors'[row].change)
      /\ \A q \in Requests : InDecision(q) /\ IsGrade(req[q].change)
            => (req[q].row \in DOMAIN mirrors => mirrors'[req[q].row] = mirrors[req[q].row])
  BY <1>0, RecordsWrites
<1>2. /\ req'[r].pc = "idle"
      /\ \A q \in Requests \ {r} : req'[q] = req[q]
      /\ \A q \in Requests : GoesOn(q)
  BY <1>0, FinishEffect DEF RecordsCommit
<1>3. PendingHoldsLock' /\ PendingIsCurrent'
  BY <1>1 DEF LockInv, PendingHoldsLock, PendingIsCurrent
<1>4. ASSUME NEW q \in Requests
      PROVE  ThreadInv(q)'
  <2>1. CASE q = r
    BY <1>2, <2>1 DEF ThreadInv, InPropose, InDecision
  <2>2. CASE q # r
    <3>1. ThreadInv(q) /\ req'[q] = req[q] /\ (InPropose(q)' <=> InPropose(q))
          /\ (InDecision(q)' <=> InDecision(q))
      BY <1>2, <2>2 DEF LockInv, InPropose, InDecision
    <3> QED
      BY <1>1, <3>1 DEF ThreadInv
  <2> QED
    BY <2>1, <2>2
<1>5. Apart'
  BY <1>2, ApartCarries DEF LockInv
<1> QED
  BY <1>3, <1>4, <1>5 DEF LockInv

LEMMA LockDecision ==
  ASSUME LockInv, TypeInv', NEW r \in Requests, ApproveCommit(r) \/ RejectCommit(r)
  PROVE  LockInv'
<1> DEFINE own == req[r].change.grade
           mine == req[r].row
<1>0. TypeOK /\ TypeInv /\ ThreadInv(r) /\ Finish(r)
  BY DEF LockInv, TypeInv, ApproveCommit, RejectCommit
<1>1. /\ InDecision(r) /\ DOMAIN mirrors' = DOMAIN mirrors
      /\ \A row \in DOMAIN mirrors : mirrors'[row].change = mirrors[row].change
      /\ \A row \in DOMAIN mirrors : row # mine => mirrors'[row] = mirrors[row]
      /\ \A g \in Grades : g # own => grades'[g] = grades[g]
      /\ IsGrade(req[r].change) => mirrors'[mine].status # "Pending"
  BY DecisionWrites
<1>2. /\ req'[r].pc = "idle"
      /\ \A q \in Requests \ {r} : req'[q] = req[q]
      /\ \A q \in Requests : GoesOn(q)
  BY <1>0, FinishEffect
<1>3. Active(r) /\ \A q \in Requests : Active(q) <=> InPropose(q) \/ InDecision(q)
  BY <1>0, <1>1, RequestKinds
<1>4. \A row \in DOMAIN mirrors : mirrors[row].change \in Change /\ row # NoRow
  BY <1>0, MirrorRows
<1>5. ~IsGrade(req[r].change) => own \notin Grades
  <2>1. req[r].change \in Change
    BY <1>0, <1>1, RequestKinds DEF DecideRequest
  <2> QED
    BY <2>1, ChangeKinds, NoGradeAssumption
<1> HIDE DEF own, mine
\* The grade's only pending correction is the one decided.
<1>6. PendingHoldsLock' /\ PendingIsCurrent'
  <2> SUFFICES ASSUME NEW row \in DOMAIN mirrors', IsGrade(mirrors'[row].change),
                      mirrors'[row].status = "Pending"
               PROVE  /\ grades'[mirrors'[row].change.grade].lock = row
                      /\ grades'[mirrors'[row].change.grade].value = mirrors'[row].change.old
    BY DEF PendingHoldsLock, PendingIsCurrent
  <2> DEFINE g == mirrors[row].change.grade
  <2>1. row \in DOMAIN mirrors /\ mirrors'[row].change = mirrors[row].change
        /\ IsGrade(mirrors[row].change) /\ g \in Grades
    BY <1>1, <1>4, ChangeKinds
  <2>2. row # mine
    <3>1. CASE IsGrade(req[r].change)
      BY <1>1, <3>1
    <3>2. CASE ~IsGrade(req[r].change)
      BY <1>0, <1>1, <1>4, <2>1, <3>2 DEF ThreadInv, mine
    <3> QED
      BY <3>1, <3>2
  <2>3. mirrors[row].status = "Pending"
    BY <1>1, <2>1, <2>2
  <2>4. grades[g].lock = row /\ grades[g].value = mirrors[row].change.old
    BY <2>1, <2>3 DEF LockInv, PendingHoldsLock, PendingIsCurrent
  <2>5. g # own
    <3>1. CASE IsGrade(req[r].change)
      <4>1. /\ mine \in DOMAIN mirrors /\ mirrors[mine].status = "Pending"
            /\ IsGrade(mirrors[mine].change) /\ mirrors[mine].change.grade = own
        BY <1>0, <1>1, <3>1 DEF ThreadInv, mine, own
      <4>2. grades[own].lock = mine
        BY <4>1 DEF LockInv, PendingHoldsLock
      <4> QED
        BY <2>2, <2>4, <4>2
    <3>2. CASE ~IsGrade(req[r].change)
      BY <1>5, <2>1, <3>2
    <3> QED
      BY <3>1, <3>2
  <2> QED
    BY <1>1, <2>1, <2>4, <2>5
<1>7. ASSUME NEW q \in Requests
      PROVE  ThreadInv(q)'
  <2>1. CASE q = r
    BY <1>2, <2>1 DEF ThreadInv, InPropose, InDecision
  <2>2. CASE q # r
    <3>1. ThreadInv(q) /\ req'[q] = req[q] /\ (InPropose(q)' <=> InPropose(q))
          /\ (InDecision(q)' <=> InDecision(q))
      BY <1>2, <2>2 DEF LockInv, InPropose, InDecision
    <3>2. Active(q) /\ IsGrade(req[q].change) => req[q].change.grade # own
      BY <1>3, <2>2 DEF LockInv, Apart, own
    <3>3. InPropose(q) /\ IsGrade(req[q].change) => req[q].change.grade \in Grades
      <4>1. InPropose(q) => req[q].change \in Change
        BY <1>0, RequestKinds DEF ProposeRequest
      <4> QED
        BY <4>1, ChangeKinds
    <3>4. InDecision(q) /\ IsGrade(req[q].change) => req[q].row # mine
      <4>1. CASE IsGrade(req[r].change)
        BY <1>0, <1>1, <1>3, <3>1, <3>2, <4>1 DEF ThreadInv, mine, own
      <4>2. CASE ~IsGrade(req[r].change)
        BY <1>0, <1>1, <3>1, <4>2, TableRows DEF ThreadInv, mine, TypeOK, NoRow
      <4> QED
        BY <4>1, <4>2
    <3> QED
      BY <1>1, <1>3, <3>1, <3>2, <3>3, <3>4 DEF ThreadInv
  <2> QED
    BY <2>1, <2>2
<1>8. Apart'
  BY <1>2, ApartCarries DEF LockInv
<1> QED
  BY <1>6, <1>7, <1>8 DEF LockInv

LEMMA LockNext ==
  ASSUME RowLocks, LockInv, [Next]_vars
  PROVE  LockInv'
<1>0. TypeOK /\ TypeInv'
  BY TypeNext DEF LockInv, TypeInv
<1>1. ASSUME NEW r \in Requests, Handlers(r) \/ Proposing(r) \/ Deciding(r)
      PROVE  LockInv'
  <2>1. \/ Handlers(r) \/ QuietStep(r) \/ CorrectionCommit(r) \/ RecordsCommit(r)
        \/ ApproveCommit(r) \/ RejectCommit(r)
    BY <1>1 DEF Proposing, Deciding, QuietStep
  <2>2. CASE QuietStep(r)
    BY <1>0, <2>2, QuietSteps, LockCarries
  <2> QED
    BY <1>0, <2>1, <2>2, LockHandlers, LockCorrection, LockRecords, LockDecision
<1>2. ASSUME UNCHANGED req \/ \A q \in Requests : req'[q] = IdleRequest,
             UNCHANGED <<grades, mirrors>>
      PROVE  LockInv'
  <2>1. \A q \in Requests : GoesOn(q)
    BY <1>0, <1>2, RequestKinds DEF GoesOn, InPropose, InDecision, IdleRequest
  <2> QED
    BY <1>0, <1>2, <2>1, LockCarries
<1>3. CASE UNCHANGED vars
  BY <1>2, <1>3 DEF vars
<1>4. ASSUME NEW tx \in pending, MinePending(tx)
      PROVE  LockInv'
  BY <1>2, <1>4 DEF MinePending
<1>5. CASE Crash \/ Redeploy
  BY <1>2, <1>5 DEF Crash, Redeploy
<1> QED
  BY <1>1, <1>3, <1>4, <1>5 DEF Next

\* With row locks (PostgreSQL) every pending correction holds its grade: no
\* interleaving of proposals, decisions, /records and faults, and no contract
\* deployed anew, leaves a correction that nobody can decide (409 lock_missing).
THEOREM PendingCorrectionsHold == RowLocks => (Spec => []PendingHoldsLock)
<1> SUFFICES ASSUME RowLocks
             PROVE  Spec => []PendingHoldsLock
  OBVIOUS
<1>1. Init => LockInv
  BY LockInit
<1>2. LockInv /\ [Next]_vars => LockInv'
  BY LockNext
<1>3. LockInv => PendingHoldsLock
  BY DEF LockInv
<1> QED
  BY <1>1, <1>2, <1>3, PTL DEF Spec

\* With row locks the old value a pending correction quotes is the grade's: no
\* update is lost between the proposal and the HOD's decision.
THEOREM PendingCorrectionsCurrent == RowLocks => (Spec => []PendingIsCurrent)
<1> SUFFICES ASSUME RowLocks
             PROVE  Spec => []PendingIsCurrent
  OBVIOUS
<1>1. Init => LockInv
  BY LockInit
<1>2. LockInv /\ [Next]_vars => LockInv'
  BY LockNext
<1>3. LockInv => PendingIsCurrent
  BY DEF LockInv
<1> QED
  BY <1>1, <1>2, <1>3, PTL DEF Spec

\* The tables change in the four commits only.
LEMMA TableSteps ==
  ASSUME TypeOK, [Next]_vars
  PROVE  \/ UNCHANGED <<grades, mirrors>>
         \/ \E r \in Requests : CorrectionCommit(r) \/ RecordsCommit(r)
                                 \/ ApproveCommit(r) \/ RejectCommit(r)
<1>1. ASSUME NEW r \in Requests, Handlers(r)
      PROVE  UNCHANGED <<grades, mirrors>>
  BY <1>1 DEF Handlers, CorrectionChecks, RecordsProposeChecks, BeginPropose, ApproveChecks,
     RejectChecks, RecordsApproveChecks, BeginDecision
<1>2. ASSUME NEW r \in Requests, Proposing(r) \/ Deciding(r)
      PROVE  \/ UNCHANGED <<grades, mirrors>>
             \/ CorrectionCommit(r) \/ RecordsCommit(r) \/ ApproveCommit(r) \/ RejectCommit(r)
  <2>1. QuietStep(r) \/ CorrectionCommit(r) \/ RecordsCommit(r) \/ ApproveCommit(r) \/ RejectCommit(r)
    BY <1>2 DEF Proposing, Deciding, QuietStep
  <2> QED
    BY <2>1, QuietSteps
<1>3. CASE Crash \/ Redeploy \/ (\E tx \in pending : MinePending(tx)) \/ UNCHANGED vars
  BY <1>3 DEF Crash, Redeploy, MinePending, vars
<1> QED
  BY <1>1, <1>2, <1>3 DEF Next

LEMMA LockSettledStep ==
  ASSUME LockInv, NEW r \in Requests,
         \/ CorrectionCommit(r) \/ RecordsCommit(r) \/ ApproveCommit(r) \/ RejectCommit(r),
         NEW g \in Grades, grades[g].lock # NoLock, grades'[g].lock # grades[g].lock
  PROVE  /\ grades'[g].lock = NoLock
         /\ mirrors[grades[g].lock].status = "Pending"
         /\ mirrors'[grades[g].lock].status # "Pending"
<1>0. TypeInv /\ ThreadInv(r)
  BY DEF LockInv
<1>1. ~CorrectionCommit(r)
  BY <1>0, CorrectionWrites DEF ThreadInv
<1>2. ~RecordsCommit(r)
  BY <1>0, RecordsWrites
<1>3. /\ InDecision(r) /\ g = req[r].change.grade
      /\ IsGrade(req[r].change) => /\ grades'[g].lock = NoLock
                                   /\ mirrors'[req[r].row].status # "Pending"
  BY <1>1, <1>2, DecisionWrites
<1>4. IsGrade(req[r].change)
  BY <1>3, NoGradeAssumption DEF IsGrade
<1>5. /\ req[r].row \in DOMAIN mirrors /\ mirrors[req[r].row].status = "Pending"
      /\ mirrors[req[r].row].change = req[r].change
  BY <1>0, <1>3, <1>4 DEF ThreadInv
<1>6. grades[g].lock = req[r].row
  BY <1>3, <1>4, <1>5 DEF LockInv, PendingHoldsLock
<1> QED
  BY <1>3, <1>4, <1>5, <1>6

\* With row locks a lock is released only by deciding the correction it names,
\* also when a new contract issues its id again.
THEOREM LocksAreSettled == RowLocks => (Spec => LocksSettledByDecision)
<1> SUFFICES ASSUME RowLocks
             PROVE  Spec => LocksSettledByDecision
  OBVIOUS
<1>1. Init => LockInv
  BY LockInit
<1>2. LockInv /\ [Next]_vars => LockInv'
  BY LockNext
<1>3. LockInv /\ [Next]_vars =>
         [\A g \in Grades : grades[g].lock # NoLock /\ grades'[g].lock # grades[g].lock =>
             /\ grades'[g].lock = NoLock
             /\ mirrors[grades[g].lock].status = "Pending"
             /\ mirrors'[grades[g].lock].status # "Pending"]_vars
  <2> SUFFICES ASSUME LockInv, [Next]_vars,
                      NEW g \in Grades, grades[g].lock # NoLock,
                      grades'[g].lock # grades[g].lock
               PROVE  /\ grades'[g].lock = NoLock
                      /\ mirrors[grades[g].lock].status = "Pending"
                      /\ mirrors'[grades[g].lock].status # "Pending"
    OBVIOUS
  <2>1. TypeOK
    BY DEF LockInv, TypeInv
  <2>2. PICK r \in Requests : \/ CorrectionCommit(r) \/ RecordsCommit(r)
                              \/ ApproveCommit(r) \/ RejectCommit(r)
    BY <2>1, TableSteps
  <2> QED
    BY <2>2, LockSettledStep
<1> QED
  BY <1>1, <1>2, <1>3, PTL DEF Spec, LocksSettledByDecision

LEMMA ClosedStep ==
  ASSUME LockInv, NEW r \in Requests,
         \/ CorrectionCommit(r) \/ RecordsCommit(r) \/ ApproveCommit(r) \/ RejectCommit(r),
         NEW row \in DOMAIN mirrors, mirrors[row].status # "Pending",
         IsGrade(mirrors'[row].change)
  PROVE  mirrors'[row] = mirrors[row]
<1>0. TypeInv /\ ThreadInv(r)
  BY DEF LockInv
<1>1. CASE CorrectionCommit(r)
  BY <1>0, <1>1, CorrectionWrites
<1>2. CASE RecordsCommit(r)
  BY <1>0, <1>2, RecordsWrites
<1>3. CASE ApproveCommit(r) \/ RejectCommit(r)
  <2>1. /\ InDecision(r) /\ mirrors'[row].change = mirrors[row].change
        /\ row # req[r].row => mirrors'[row] = mirrors[row]
    BY <1>3, DecisionWrites
  <2>2. row # NoRow
    BY <1>0, MirrorRows DEF TypeInv
  <2>3. row # req[r].row
    BY <1>0, <2>1, <2>2 DEF ThreadInv
  <2> QED
    BY <2>1, <2>3
<1> QED
  BY <1>1, <1>2, <1>3

\* With row locks a closed correction stays closed; all that can still happen
\* to its row is that /records makes a generic proposal's of it.
THEOREM ClosedStaysClosed == RowLocks => (Spec => ClosedNeverRevives)
<1> SUFFICES ASSUME RowLocks
             PROVE  Spec => ClosedNeverRevives
  OBVIOUS
<1>1. Init => LockInv
  BY LockInit
<1>2. LockInv /\ [Next]_vars => LockInv'
  BY LockNext
<1>3. LockInv /\ [Next]_vars =>
         [\A row \in DOMAIN mirrors :
             /\ mirrors[row].status # "Pending" /\ IsGrade(mirrors'[row].change)
             => mirrors'[row] = mirrors[row]]_vars
  <2> SUFFICES ASSUME LockInv, [Next]_vars, NEW row \in DOMAIN mirrors,
                      mirrors[row].status # "Pending", IsGrade(mirrors'[row].change)
               PROVE  mirrors'[row] = mirrors[row]
    OBVIOUS
  <2>1. TypeOK
    BY DEF LockInv, TypeInv
  <2>2. CASE UNCHANGED <<grades, mirrors>>
    BY <2>2
  <2>3. ASSUME NEW r \in Requests, \/ CorrectionCommit(r) \/ RecordsCommit(r)
                                   \/ ApproveCommit(r) \/ RejectCommit(r)
        PROVE  mirrors'[row] = mirrors[row]
    BY <2>3, ClosedStep
  <2> QED
    BY <2>1, <2>2, <2>3, TableSteps
<1> QED
  BY <1>1, <1>2, <1>3, PTL DEF Spec, ClosedNeverRevives

\* Locks name rows, and a new lock names a row that is new.
DistinctInv ==
    /\ TypeInv
    /\ LocksAreDistinct
    /\ \A g \in Grades : grades[g].lock # NoLock => grades[g].lock \in DOMAIN mirrors

\* Steps that lock no grade.
LEMMA DistinctCarries ==
  ASSUME DistinctInv, TypeInv', DOMAIN mirrors \subseteq DOMAIN mirrors',
         \A g \in Grades : grades'[g].lock \in {grades[g].lock, NoLock}
  PROVE  DistinctInv'
<1>1. LocksAreDistinct'
  BY DEF DistinctInv, LocksAreDistinct
<1> QED
  BY <1>1 DEF DistinctInv

LEMMA DistinctCommits ==
  ASSUME DistinctInv, TypeInv', NEW r \in Requests,
         CorrectionCommit(r) \/ RecordsCommit(r) \/ ApproveCommit(r) \/ RejectCommit(r)
  PROVE  DistinctInv'
<1>0. /\ TypeInv /\ TypeOK /\ grades \in [Grades -> Grade]
  BY DEF DistinctInv, TypeInv, TypeOK
<1>1. CASE CorrectionCommit(r)
  BY <1>0, <1>1, CorrectionWrites DEF DistinctInv, LocksAreDistinct
<1>2. CASE RecordsCommit(r)
  BY <1>0, <1>2, RecordsWrites, DistinctCarries
<1>3. CASE ApproveCommit(r)
  BY <1>0, <1>3, DistinctCarries DEF ApproveCommit
<1>4. CASE RejectCommit(r)
  <2>1. DOMAIN mirrors' = DOMAIN mirrors
    BY <1>4 DEF RejectCommit
  <2>2. \A g \in Grades : grades'[g].lock \in {grades[g].lock, NoLock}
    BY <1>0, <1>4 DEF RejectCommit, Grade
  <2> QED
    BY <2>1, <2>2, DistinctCarries
<1> QED
  BY <1>1, <1>2, <1>3, <1>4

\* No two grades ever wait for one correction, on either database: a correction
\* is always inserted as a row of its own.
THEOREM LocksNameTheirOwn == Spec => []LocksAreDistinct
<1>1. Init => DistinctInv
  BY TypeInit DEF Init, DistinctInv, LocksAreDistinct
<1>2. DistinctInv /\ [Next]_vars => DistinctInv'
  <2> SUFFICES ASSUME DistinctInv, [Next]_vars
               PROVE  DistinctInv'
    OBVIOUS
  <2>1. TypeOK /\ TypeInv'
    BY TypeNext DEF DistinctInv, TypeInv
  <2>2. CASE UNCHANGED <<grades, mirrors>>
    BY <2>1, <2>2, DistinctCarries
  <2> QED
    BY <2>1, <2>2, TableSteps, DistinctCommits
<1>3. DistinctInv => LocksAreDistinct
  BY DEF DistinctInv
<1> QED
  BY <1>1, <1>2, <1>3, PTL DEF Spec

-----------------------------------------------------------------------------
(* Dual control: what has been signed, on either database *)

\* The contract holds the instructor's signature of a pending proposal and both
\* of an executed one.
SignedChain ==
    \A id \in DOMAIN proposals :
        hasSigned[id] = IF proposals[id].status = "Executed" THEN {Instructor, Hod}
                                                            ELSE {Instructor}

\* A decision works on the row of its proposal, and one that is past its
\* approve on an executed proposal.
DecidesOwn(r) ==
    /\ InDecision(r) /\ IsGrade(req[r].change) =>
          req[r].row \in DOMAIN mirrors /\ mirrors[req[r].row].id = req[r].id
    /\ req[r].pc = "approved" =>
          req[r].id \in DOMAIN proposals /\ proposals[req[r].id].status = "Executed"

SignedInv ==
    /\ TypeInv
    /\ SignedChain
    /\ \A r \in Requests : DecidesOwn(r)

\* What the contract's part of a step does to the proposals it has.
ExecutedStay ==
    \A id \in DOMAIN proposals :
        /\ id \in DOMAIN proposals'
        /\ proposals[id].status = "Executed" => proposals'[id].status = "Executed"

LEMMA ProposeSigns ==
  ASSUME TypeInv, SignedChain, NEW change \in Change, Trail!ProposeChange(Instructor, change)
  PROVE  SignedChain' /\ ExecutedStay
<1> DEFINE new == Len(proposals) + 1
           row == [change |-> change, proposer |-> Instructor,
                   status |-> "Pending", signatureCount |-> 1]
<1>1. /\ proposals' = Append(proposals, row)
      /\ hasSigned' = [hasSigned EXCEPT ![new] = {Instructor}]
      /\ Len(proposals) < MaxProposals
  BY DEF Trail!ProposeChange, Trail!Create, Trail!ProposalCount
<1>2. row \in Trail!Proposal /\ row.status = "Pending"
  BY DEF Trail!Proposal, Trail!RequiredSignatures
<1> HIDE DEF row
<1>3. /\ DOMAIN proposals' = DOMAIN proposals \cup {new} /\ new \notin DOMAIN proposals
      /\ \A id \in DOMAIN proposals : proposals'[id] = proposals[id]
      /\ proposals'[new] = row
  BY <1>1, <1>2, TableAppend DEF TypeInv, TypeOK
<1>4. new \in Trail!Ids
  BY <1>1, ProposalIds, BoundAssumption DEF Trail!Ids
<1>5. /\ hasSigned'[new] = {Instructor}
      /\ \A id \in DOMAIN proposals : hasSigned'[id] = hasSigned[id]
  BY <1>1, <1>3, <1>4, ProposalIds DEF TypeInv, TypeOK
<1> QED
  BY <1>2, <1>3, <1>5 DEF SignedChain, ExecutedStay

LEMMA ApproveSigns ==
  ASSUME TypeInv, SignedChain, NEW id, Trail!Approve(Hod, id)
  PROVE  /\ SignedChain' /\ ExecutedStay
         /\ id \in DOMAIN proposals' /\ proposals'[id].status = "Executed"
<1> DEFINE row == Trail!CoSigned(proposals[id])
<1>1. /\ id \in DOMAIN proposals /\ proposals[id].status = "Pending" /\ id \in Trail!Ids
      /\ row.status = "Executed"
  BY ProposalIds, CoSignedRow DEF Trail!Approve, Trail!MayApprove, TypeInv
<1>2. /\ hasSigned' = [hasSigned EXCEPT ![id] = @ \cup {Hod}]
      /\ proposals' = [proposals EXCEPT ![id] = row]
  BY DEF Trail!Approve
<1> HIDE DEF row
<1>3. /\ DOMAIN proposals' = DOMAIN proposals
      /\ \A k \in DOMAIN proposals : proposals'[k] = IF k = id THEN row ELSE proposals[k]
      /\ \A k \in DOMAIN proposals : hasSigned'[k] = IF k = id THEN hasSigned[id] \cup {Hod}
                                                               ELSE hasSigned[k]
  BY <1>1, <1>2, ProposalIds DEF TypeInv, TypeOK
<1>4. hasSigned[id] = {Instructor}
  BY <1>1 DEF SignedChain
<1> QED
  BY <1>1, <1>3, <1>4 DEF SignedChain, ExecutedStay

\* The ids of the rows never change.
LEMMA RowIdsStay ==
  ASSUME TypeInv, [Next]_vars
  PROVE  \A row \in DOMAIN mirrors : row \in DOMAIN mirrors' /\ mirrors'[row].id = mirrors[row].id
<1>0. TypeOK /\ mirrors \in Seq(Mirror) /\ \A row \in DOMAIN mirrors : mirrors[row] \in Mirror
  BY TableRows DEF TypeInv, TypeOK
<1>1. CASE UNCHANGED <<grades, mirrors>>
  BY <1>1
<1>2. ASSUME NEW r \in Requests, CorrectionCommit(r)
      PROVE  \A row \in DOMAIN mirrors : row \in DOMAIN mirrors' /\ mirrors'[row].id = mirrors[row].id
  BY <1>2, CorrectionWrites
<1>3. ASSUME NEW r \in Requests, RecordsCommit(r)
      PROVE  \A row \in DOMAIN mirrors : row \in DOMAIN mirrors' /\ mirrors'[row].id = mirrors[row].id
  <2>1. NewMirror(r) \in Mirror /\ NewMirror(r).id = req[r].id
    BY <1>3, NewMirrorTyped DEF RecordsCommit, NewMirror
  <2>2. CASE mirrors' = Append(mirrors, NewMirror(r))
    BY <1>0, <2>1, <2>2, TableAppend
  <2>3. CASE mirrors' = [row \in DOMAIN mirrors |->
                            IF row \in MirrorOf(req[r].id) THEN NewMirror(r) ELSE mirrors[row]]
    BY <2>1, <2>3 DEF MirrorOf
  <2> QED
    BY <1>3, <2>2, <2>3 DEF RecordsCommit
<1>4. ASSUME NEW r \in Requests, ApproveCommit(r)
      PROVE  \A row \in DOMAIN mirrors : row \in DOMAIN mirrors' /\ mirrors'[row].id = mirrors[row].id
  <2>1. \A row \in DOMAIN mirrors : [mirrors[row] EXCEPT !.status = "Executed"].id = mirrors[row].id
    BY <1>0 DEF Mirror
  <2> QED
    BY <1>4, <2>1 DEF ApproveCommit
<1>5. ASSUME NEW r \in Requests, RejectCommit(r)
      PROVE  \A row \in DOMAIN mirrors : row \in DOMAIN mirrors' /\ mirrors'[row].id = mirrors[row].id
  <2>1. \A row \in DOMAIN mirrors : [mirrors[row] EXCEPT !.status = "Rejected"].id = mirrors[row].id
    BY <1>0 DEF Mirror
  <2>2. mirrors' = [mirrors EXCEPT ![req[r].row] = [mirrors[req[r].row] EXCEPT !.status = "Rejected"]]
    BY <1>5 DEF RejectCommit
  <2> QED
    BY <2>1, <2>2
<1> QED
  BY <1>0, <1>1, <1>2, <1>3, <1>4, <1>5, TableSteps

\* One thread moves; whatever the chain executed stays executed.
LEMMA SignedCarries ==
  ASSUME SignedInv, [Next]_vars, SignedChain', ExecutedStay,
         NEW r \in Requests, \A q \in Requests \ {r} : req'[q] = req[q], DecidesOwn(r)'
  PROVE  SignedInv'
<1>1. TypeInv' /\ \A row \in DOMAIN mirrors : row \in DOMAIN mirrors' /\ mirrors'[row].id = mirrors[row].id
  BY TypeNext, RowIdsStay DEF SignedInv
<1>2. ASSUME NEW q \in Requests
      PROVE  DecidesOwn(q)'
  <2>1. CASE q = r
    BY <2>1
  <2>2. CASE q # r
    <3>1. DecidesOwn(q) /\ req'[q] = req[q] /\ (InDecision(q)' <=> InDecision(q))
      BY <2>2 DEF SignedInv, InDecision
    <3> QED
      BY <1>1, <3>1 DEF DecidesOwn, ExecutedStay
  <2> QED
    BY <2>1, <2>2
<1> QED
  BY <1>1, <1>2 DEF SignedInv

LEMMA ChainQuiet ==
  ASSUME SignedChain, UNCHANGED <<proposals, hasSigned>>
  PROVE  SignedChain' /\ ExecutedStay
BY DEF SignedChain, ExecutedStay

\* A thread that does not decide has nothing to say.
LEMMA DecidesNothing ==
  ASSUME NEW r \in Requests, req'[r].pc \in {"idle", "propose", "mined", "mirror"}
  PROVE  DecidesOwn(r)'
BY DEF DecidesOwn, InDecision

LEMMA SignedHandlers ==
  ASSUME SignedInv, [Next]_vars, NEW r \in Requests, Handlers(r)
  PROVE  SignedInv'
<1>0. TypeOK /\ SignedChain
  BY DEF SignedInv, TypeInv
<1>1. UNCHANGED <<proposals, hasSigned, mirrors>>
  BY DEF Handlers, CorrectionChecks, RecordsProposeChecks, BeginPropose, ApproveChecks,
     RejectChecks, RecordsApproveChecks, BeginDecision, chainVars
<1>2. ASSUME NEW change, BeginPropose(r, change)
      PROVE  SignedInv'
  <2>1. req'[r].pc = "propose" /\ \A q \in Requests \ {r} : req'[q] = req[q]
    BY <1>0, <1>2 DEF BeginPropose, TypeOK
  <2> QED
    BY <1>0, <1>1, <2>1, DecidesNothing, ChainQuiet, SignedCarries
<1>3. ASSUME NEW pc \in {"approve", "reject"}, NEW change, NEW id, NEW row,
             IsGrade(change) => row \in DOMAIN mirrors /\ mirrors[row].id = id,
             BeginDecision(r, pc, change, id, row)
      PROVE  SignedInv'
  <2> DEFINE new == [pc |-> pc, change |-> change, id |-> id, row |-> row]
  <2>1. req'[r] = new /\ \A q \in Requests \ {r} : req'[q] = req[q]
    BY <1>0, <1>3 DEF BeginDecision, TypeOK
  <2>2. DecidesOwn(r)'
    BY <1>1, <1>3, <2>1 DEF DecidesOwn
  <2> QED
    BY <1>0, <1>1, <2>1, <2>2, ChainQuiet, SignedCarries
<1>4. ASSUME NEW row \in DOMAIN mirrors, ApproveChecks(r, row) \/ RejectChecks(r, row)
      PROVE  SignedInv'
  BY <1>3, <1>4 DEF ApproveChecks, RejectChecks
<1>5. ASSUME NEW id, RecordsApproveChecks(r, id)
      PROVE  SignedInv'
  <2>1. PICK row : BeginDecision(r, "approve", Generic, id, row)
    BY <1>5 DEF RecordsApproveChecks
  <2>2. ~IsGrade(Generic)
    BY ChangeKinds
  <2> QED
    BY <1>3, <2>1, <2>2
<1>6. CASE (\E g \in Grades, v \in Values : CorrectionChecks(r, g, v)) \/ RecordsProposeChecks(r)
  BY <1>2, <1>6 DEF CorrectionChecks, RecordsProposeChecks
<1> QED
  BY <1>4, <1>5, <1>6 DEF Handlers

LEMMA SignedRequests ==
  ASSUME SignedInv, [Next]_vars, NEW r \in Requests, Proposing(r) \/ Deciding(r)
  PROVE  SignedInv'
<1>0. TypeOK /\ TypeInv /\ SignedChain /\ DecidesOwn(r)
  BY DEF SignedInv, TypeInv
<1>1. CASE ProposeMined(r)
  <2>1. req[r].change \in Change
    BY <1>0, <1>1, RequestKinds DEF ProposeMined, InPropose, ProposeRequest
  <2>2. SignedChain' /\ ExecutedStay
    BY <1>0, <1>1, <2>1, ProposeSigns DEF ProposeMined
  <2>3. req[r] \in ProposeRequest
    BY <1>0, <1>1, RequestKinds DEF ProposeMined, InPropose
  <2>4. req'[r].pc = "mined" /\ \A q \in Requests \ {r} : req'[q] = req[q]
    BY <1>0, <1>1, <2>3 DEF ProposeMined, TypeOK, ProposeRequest
  <2> QED
    BY <2>2, <2>4, DecidesNothing, SignedCarries
<1>2. CASE ReadBack(r)
  <2>1. req[r] \in ProposeRequest
    BY <1>0, <1>2, RequestKinds DEF ReadBack, InPropose
  <2>2. req'[r].pc = "mirror" /\ \A q \in Requests \ {r} : req'[q] = req[q]
    BY <1>0, <1>2, <2>1 DEF ReadBack, TypeOK, ProposeRequest
  <2> QED
    BY <1>0, <1>2, <2>2, ChainQuiet, DecidesNothing, SignedCarries DEF ReadBack, chainVars
<1>3. CASE ApproveMined(r)
  <2>1. /\ SignedChain' /\ ExecutedStay
        /\ req[r].id \in DOMAIN proposals' /\ proposals'[req[r].id].status = "Executed"
    BY <1>0, <1>3, ApproveSigns DEF ApproveMined
  <2>2. req[r] \in DecideRequest /\ InDecision(r)
    BY <1>0, <1>3, RequestKinds DEF ApproveMined, InDecision
  <2>3. /\ req'[r].pc = "approved" /\ req'[r].change = req[r].change
        /\ req'[r].id = req[r].id /\ req'[r].row = req[r].row
        /\ \A q \in Requests \ {r} : req'[q] = req[q]
    BY <1>0, <1>3, <2>2 DEF ApproveMined, TypeOK, DecideRequest
  <2>4. DecidesOwn(r)'
    BY <1>0, <1>3, <2>1, <2>2, <2>3 DEF DecidesOwn, ApproveMined
  <2> QED
    BY <2>1, <2>3, <2>4, SignedCarries
<1>4. CASE Finish(r)
  <2>1. SignedChain' /\ ExecutedStay
    <3>1. CASE ApproveUnread(r)
      BY <1>0, <3>1, ApproveSigns DEF ApproveUnread
    <3>2. CASE ~ApproveUnread(r) /\ ~ProposeMined(r) /\ ~ReadBack(r) /\ ~ApproveMined(r)
      BY <1>0, <3>2, ChainQuiet DEF Proposing, Deciding, ProposeRefused, ProposeUnconfirmed,
         ReadBackFails, CorrectionCommit, RecordsCommit, MirrorFails, ApproveRefused,
         ApproveUnconfirmed, ApproveCommit, RejectCommit, DecisionFails, chainVars
    <3>3. CASE ProposeMined(r)
      <4>1. req[r].change \in Change
        BY <1>0, <3>3, RequestKinds DEF ProposeMined, InPropose, ProposeRequest
      <4> QED
        BY <1>0, <3>3, <4>1, ProposeSigns DEF ProposeMined
    <3>4. CASE ReadBack(r)
      BY <1>0, <3>4, ChainQuiet DEF ReadBack, chainVars
    <3>5. CASE ApproveMined(r)
      BY <1>0, <3>5, ApproveSigns DEF ApproveMined
    <3> QED
      BY <3>1, <3>2, <3>3, <3>4, <3>5
  <2> QED
    BY <1>0, <1>4, <2>1, FinishEffect, DecidesNothing, SignedCarries
<1> QED
  BY <1>1, <1>2, <1>3, <1>4 DEF Proposing, Deciding, ProposeRefused, ProposeUnconfirmed,
     ReadBackFails, CorrectionCommit, RecordsCommit, MirrorFails, ApproveRefused,
     ApproveUnconfirmed, ApproveUnread, ApproveCommit, RejectCommit, DecisionFails

LEMMA SignedNext == SignedInv /\ [Next]_vars => SignedInv'
<1> SUFFICES ASSUME SignedInv, [Next]_vars
             PROVE  SignedInv'
  OBVIOUS
<1>0. /\ TypeOK /\ TypeInv /\ TypeInv' /\ SignedChain
      /\ \A row \in DOMAIN mirrors : row \in DOMAIN mirrors' /\ mirrors'[row].id = mirrors[row].id
  BY TypeNext, RowIdsStay DEF SignedInv, TypeInv
<1>1. ASSUME SignedChain', ExecutedStay, UNCHANGED req
      PROVE  SignedInv'
  BY <1>0, <1>1 DEF SignedInv, DecidesOwn, ExecutedStay, InDecision
<1>2. ASSUME SignedChain', \A r \in Requests : req'[r] = IdleRequest
      PROVE  SignedInv'
  <2>1. \A r \in Requests : DecidesOwn(r)'
    BY <1>2, DecidesNothing DEF IdleRequest
  <2> QED
    BY <1>0, <1>2, <2>1 DEF SignedInv
<1>3. CASE UNCHANGED vars
  BY <1>0, <1>1, <1>3, ChainQuiet DEF vars
<1>4. ASSUME NEW tx \in pending, MinePending(tx)
      PROVE  SignedInv'
  <2>1. CASE tx.call = "propose" /\ Trail!ProposeChange(Instructor, tx.change)
    <3>1. tx.change \in Change
      BY <1>0, <2>1 DEF TypeOK, Tx
    <3> QED
      BY <1>0, <1>1, <1>4, <2>1, <3>1, ProposeSigns DEF MinePending
  <2>2. CASE Trail!Approve(Hod, tx.id)
    BY <1>0, <1>1, <1>4, <2>2, ApproveSigns DEF MinePending
  <2>3. CASE UNCHANGED <<proposals, hasSigned>>
    BY <1>0, <1>1, <1>4, <2>3, ChainQuiet DEF MinePending
  <2> QED
    BY <1>4, <2>1, <2>2, <2>3 DEF MinePending
<1>5. CASE Crash
  BY <1>0, <1>2, <1>5, ChainQuiet DEF Crash, chainVars
<1>6. CASE Redeploy
  <2>1. DOMAIN proposals' = {}
    BY <1>6 DEF Redeploy
  <2> QED
    BY <1>2, <1>6, <2>1 DEF Redeploy, SignedChain
<1> QED
  BY <1>3, <1>4, <1>5, <1>6, SignedHandlers, SignedRequests DEF Next

LEMMA SignedInit == Init => SignedInv
<1> SUFFICES ASSUME Init
             PROVE  SignedInv
  OBVIOUS
<1>1. DOMAIN proposals = {} /\ \A r \in Requests : req[r].pc = "idle"
  BY DEF Init, IdleRequest
<1> QED
  BY <1>1, TypeInit DEF SignedInv, SignedChain, DecidesOwn, InDecision

-----------------------------------------------------------------------------
(* Mirror and chain, under one contract whose events are decoded: on either *)
(* database                                                                 *)

\* A thread that has its proposal's id has it to itself, unmirrored, and has
\* read no more than the chain says.
OwnsId(r) ==
    /\ req[r].pc \in {"mined", "mirror"} =>
          /\ proposals[req[r].id].change = req[r].change
          /\ MirrorOf(req[r].id) = {}
    /\ req[r].pc = "mirror" /\ req[r].status = "Executed" =>
          proposals[req[r].id].status = "Executed"

OwnIds ==
    \A r, q \in Requests :
        /\ req[r].pc \in {"mined", "mirror"} /\ req[q].pc \in {"mined", "mirror"}
        /\ req[r].id = req[q].id
        => r = q

\* What the HOD's signature may reach: a generic proposal, or a correction with
\* its row.
MayExecute(id) ==
    /\ id \in DOMAIN proposals
    /\ IsGrade(proposals[id].change) => MirrorOf(id) # {}

DecidesRoute(r) ==
    InDecision(r) =>
       /\ MayExecute(req[r].id)
       /\ req[r].row # NoRow =>
             req[r].row \in DOMAIN mirrors /\ mirrors[req[r].row].id = req[r].id

(***************************************************************************)
(* The inductive invariant.  The two properties are not inductive: a row   *)
(* is inserted long after its id was issued, and the signature that makes  *)
(* a proposal Executed can be mined long after the checks that let it be   *)
(* sent, so the threads and the pool carry what was checked.               *)
(***************************************************************************)
MatchInv ==
    /\ MirrorMatchesChain
    /\ OnlyMirroredExecute
    /\ OwnIds
    /\ \A r \in Requests : OwnsId(r) /\ DecidesRoute(r)
    /\ \A tx \in pending : tx.call = "approve" => MayExecute(tx.id)

\* The chain's part of a step keeps what proposals say and never undoes one.
ChainGrows ==
    \A id \in DOMAIN proposals :
        /\ id \in DOMAIN proposals'
        /\ proposals'[id].change = proposals[id].change
        /\ proposals[id].status = "Executed" => proposals'[id].status = "Executed"

\* A correction that is executed has its row.
RouteKept ==
    \A id \in DOMAIN proposals' :
        IsGrade(proposals'[id].change) /\ proposals'[id].status = "Executed" => MirrorOf(id) # {}

LEMMA ProposeGrows ==
  ASSUME TypeInv, MatchInv, NEW change \in Change, Trail!ProposeChange(Instructor, change)
  PROVE  /\ ChainGrows /\ RouteKept
         /\ Trail!ProposalCount + 1 \notin DOMAIN proposals
         /\ Trail!ProposalCount + 1 \in DOMAIN proposals'
         /\ proposals'[Trail!ProposalCount + 1].change = change
<1> DEFINE new == Len(proposals) + 1
           row == [change |-> change, proposer |-> Instructor,
                   status |-> "Pending", signatureCount |-> 1]
<1>1. proposals' = Append(proposals, row)
  BY DEF Trail!ProposeChange, Trail!Create, Trail!ProposalCount
<1>2. row \in Trail!Proposal /\ row.status = "Pending" /\ row.change = change
  BY DEF Trail!Proposal, Trail!RequiredSignatures
<1> HIDE DEF row
<1>3. /\ DOMAIN proposals' = DOMAIN proposals \cup {new} /\ new \notin DOMAIN proposals
      /\ \A id \in DOMAIN proposals : proposals'[id] = proposals[id]
      /\ proposals'[new] = row
  BY <1>1, <1>2, TableAppend DEF TypeInv, TypeOK
<1>4. ChainGrows
  BY <1>3 DEF ChainGrows
<1>5. RouteKept
  BY <1>2, <1>3 DEF RouteKept, MatchInv, OnlyMirroredExecute
<1> QED
  BY <1>2, <1>3, <1>4, <1>5 DEF Trail!ProposalCount

LEMMA ApproveGrows ==
  ASSUME TypeInv, MatchInv, NEW id, Trail!Approve(Hod, id), MayExecute(id)
  PROVE  ChainGrows /\ RouteKept
<1> DEFINE row == Trail!CoSigned(proposals[id])
<1>1. /\ id \in DOMAIN proposals /\ proposals[id] \in Trail!Proposal
      /\ proposals[id].signatureCount = 1
  BY ProposalIds DEF Trail!Approve, Trail!MayApprove, TypeInv
<1>2. row.status = "Executed" /\ row.change = proposals[id].change
  <2>1. row.status = "Executed"
    BY <1>1, CoSignedRow
  <2>2. \A p \in Trail!Proposal : Trail!CoSigned(p).change = p.change
    BY DEF Trail!Proposal, Trail!CoSigned
  <2> QED
    BY <1>1, <2>1, <2>2
<1>3. proposals' = [proposals EXCEPT ![id] = row]
  BY DEF Trail!Approve
<1> HIDE DEF row
<1>4. /\ DOMAIN proposals' = DOMAIN proposals
      /\ \A k \in DOMAIN proposals : proposals'[k] = IF k = id THEN row ELSE proposals[k]
  BY <1>1, <1>3
<1>5. ChainGrows
  BY <1>2, <1>4 DEF ChainGrows
<1>6. RouteKept
  BY <1>2, <1>4 DEF RouteKept, MatchInv, OnlyMirroredExecute, MayExecute
<1> QED
  BY <1>5, <1>6

LEMMA ChainKept ==
  ASSUME MatchInv, proposals' = proposals
  PROVE  ChainGrows /\ RouteKept
BY DEF ChainGrows, RouteKept, MatchInv, OnlyMirroredExecute

\* Every step that leaves the rows alone: the chain may grow, transactions may
\* be sent or mined, and some threads move.
LEMMA MatchCarries ==
  ASSUME TypeInv, MatchInv, UNCHANGED mirrors, ChainGrows, RouteKept,
         \A tx \in pending' : tx \in pending \/ tx.call = "propose" \/ MayExecute(tx.id),
         \A q \in Requests : req'[q] = req[q] \/ (OwnsId(q)' /\ DecidesRoute(q)'),
         OwnIds'
  PROVE  MatchInv'
<1>1. \A id : MirrorOf(id)' = MirrorOf(id)
  BY DEF MirrorOf
<1>2. \A id : MayExecute(id) => MayExecute(id)'
  BY <1>1 DEF MayExecute, ChainGrows
<1>3. MirrorMatchesChain'
  BY DEF MatchInv, MirrorMatchesChain, ChainGrows
<1>4. OnlyMirroredExecute'
  BY <1>1 DEF OnlyMirroredExecute, RouteKept
<1>5. ASSUME NEW q \in Requests
      PROVE  OwnsId(q)' /\ DecidesRoute(q)'
  <2>1. CASE req'[q] = req[q]
    <3>1. OwnsId(q)'
      <4>1. req[q].pc \in {"mined", "mirror"} => req[q].id \in DOMAIN proposals
        BY DEF TypeInv
      <4> QED
        BY <1>1, <2>1, <4>1 DEF MatchInv, OwnsId, ChainGrows
    <3>2. DecidesRoute(q)'
      BY <1>2, <2>1 DEF MatchInv, DecidesRoute, InDecision
    <3> QED
      BY <3>1, <3>2
  <2> QED
    BY <2>1
<1>6. ASSUME NEW tx \in pending', tx.call = "approve"
      PROVE  MayExecute(tx.id)'
  BY <1>2, <1>6 DEF MatchInv
<1> QED
  BY <1>3, <1>4, <1>5, <1>6 DEF MatchInv

\* A thread that is idle, or only about to propose, claims nothing.
LEMMA ClaimsNothing ==
  ASSUME NEW q \in Requests, req'[q].pc \in {"idle", "propose"}
  PROVE  OwnsId(q)' /\ DecidesRoute(q)'
BY DEF OwnsId, DecidesRoute, InDecision

\* No thread gets an id in the step.
LEMMA NoNewId ==
  ASSUME MatchInv,
         \A q \in Requests : req'[q] = req[q] \/ req'[q].pc \notin {"mined", "mirror"}
  PROVE  OwnIds'
BY DEF MatchInv, OwnIds

LEMMA MatchHandlers ==
  ASSUME TypeInv, MatchInv, NEW r \in Requests, Handlers(r)
  PROVE  MatchInv'
<1>0. TypeOK
  BY DEF TypeInv
<1>1. UNCHANGED <<proposals, pending, mirrors>>
  BY DEF Handlers, CorrectionChecks, RecordsProposeChecks, BeginPropose, ApproveChecks,
     RejectChecks, RecordsApproveChecks, BeginDecision, chainVars
<1>2. ChainGrows /\ RouteKept
  BY <1>1, ChainKept
<1>3. ASSUME req'[r].pc \in {"propose", "approve", "reject"},
             \A q \in Requests \ {r} : req'[q] = req[q],
             OwnsId(r)', DecidesRoute(r)'
      PROVE  MatchInv'
  <2>1. OwnIds'
    BY <1>3, NoNewId
  <2> QED
    BY <1>1, <1>2, <1>3, <2>1, MatchCarries
<1>4. ASSUME NEW change, BeginPropose(r, change)
      PROVE  MatchInv'
  <2>1. req'[r].pc = "propose" /\ \A q \in Requests \ {r} : req'[q] = req[q]
    BY <1>0, <1>4 DEF BeginPropose, TypeOK
  <2> QED
    BY <1>3, <2>1, ClaimsNothing
<1>5. ASSUME NEW pc \in {"approve", "reject"}, NEW change, NEW id, NEW row, MayExecute(id),
             row # NoRow => row \in DOMAIN mirrors /\ mirrors[row].id = id,
             BeginDecision(r, pc, change, id, row)
      PROVE  MatchInv'
  <2> DEFINE new == [pc |-> pc, change |-> change, id |-> id, row |-> row]
  <2>1. req'[r] = new /\ \A q \in Requests \ {r} : req'[q] = req[q]
    BY <1>0, <1>5 DEF BeginDecision, TypeOK
  <2>2. MayExecute(id)'
    BY <1>1, <1>5 DEF MayExecute, MirrorOf
  <2>3. DecidesRoute(r)'
    BY <1>1, <1>5, <2>1, <2>2 DEF DecidesRoute, MayExecute, MirrorOf
  <2>4. OwnsId(r)'
    BY <2>1 DEF OwnsId
  <2> QED
    BY <1>3, <2>1, <2>3, <2>4
<1>6. ASSUME NEW row \in DOMAIN mirrors, ApproveChecks(r, row) \/ RejectChecks(r, row)
      PROVE  MatchInv'
  <2>1. MayExecute(mirrors[row].id)
    BY DEF MatchInv, MirrorMatchesChain, MayExecute, MirrorOf
  <2> QED
    BY <1>5, <1>6, <2>1 DEF ApproveChecks, RejectChecks
<1>7. ASSUME NEW id, RecordsApproveChecks(r, id)
      PROVE  MatchInv'
  <2>1. CASE /\ ~IsGrade(proposals[id].change)
             /\ BeginDecision(r, "approve", Generic, id, NoRow)
    <3>1. MayExecute(id)
      BY <1>7, <2>1 DEF RecordsApproveChecks, MayExecute
    <3> QED
      BY <1>5, <2>1, <3>1
  <2>2. ASSUME NEW row \in MirrorOf(id), BeginDecision(r, "approve", Generic, id, row)
        PROVE  MatchInv'
    <3>1. MayExecute(id) /\ row \in DOMAIN mirrors /\ mirrors[row].id = id
      BY <1>7 DEF RecordsApproveChecks, MayExecute, MirrorOf
    <3> QED
      BY <1>5, <2>2, <3>1
  <2> QED
    BY <1>7, <2>1, <2>2 DEF RecordsApproveChecks
<1> QED
  BY <1>4, <1>6, <1>7 DEF Handlers, CorrectionChecks, RecordsProposeChecks

\* The commit of a new proposal adds a row and nothing else: its id has none.
LEMMA CommitAppends ==
  ASSUME TypeInv, MatchInv, NEW r \in Requests, CorrectionCommit(r) \/ RecordsCommit(r)
  PROVE  /\ req[r].pc = "mirror" /\ Finish(r)
         /\ UNCHANGED <<proposals, pending>>
         /\ DOMAIN mirrors' = DOMAIN mirrors \cup {Len(mirrors) + 1}
         /\ Len(mirrors) + 1 \notin DOMAIN mirrors
         /\ \A row \in DOMAIN mirrors : mirrors'[row] = mirrors[row]
         /\ mirrors'[Len(mirrors) + 1].id = req[r].id
         /\ mirrors'[Len(mirrors) + 1].change = req[r].change
         /\ mirrors'[Len(mirrors) + 1].status = req[r].status
<1>1. req[r].pc = "mirror" /\ Finish(r) /\ UNCHANGED <<proposals, pending>>
  BY DEF CorrectionCommit, RecordsCommit, chainVars
<1>2. MirrorOf(req[r].id) = {}
  BY <1>1 DEF MatchInv, OwnsId
<1>3. mirrors' = Append(mirrors, NewMirror(r))
  BY <1>2 DEF CorrectionCommit, RecordsCommit
<1>4. /\ NewMirror(r) \in Mirror /\ NewMirror(r).id = req[r].id
      /\ NewMirror(r).change = req[r].change /\ NewMirror(r).status = req[r].status
  BY <1>1, NewMirrorTyped DEF NewMirror
<1> QED
  BY <1>1, <1>3, <1>4, TableAppend DEF TypeInv, TypeOK

LEMMA MatchCommits ==
  ASSUME TypeInv, MatchInv, NEW r \in Requests, CorrectionCommit(r) \/ RecordsCommit(r)
  PROVE  MatchInv'
<1> DEFINE new == Len(mirrors) + 1
           own == req[r].id
<1>0. /\ req[r].pc = "mirror" /\ Finish(r) /\ UNCHANGED <<proposals, pending>>
      /\ DOMAIN mirrors' = DOMAIN mirrors \cup {new} /\ new \notin DOMAIN mirrors
      /\ \A row \in DOMAIN mirrors : mirrors'[row] = mirrors[row]
      /\ mirrors'[new].id = own /\ mirrors'[new].change = req[r].change
      /\ mirrors'[new].status = req[r].status
  BY CommitAppends
<1>1. /\ own \in DOMAIN proposals /\ MirrorOf(own) = {}
      /\ proposals[own].change = req[r].change
      /\ req[r].status = "Executed" => proposals[own].status = "Executed"
  BY <1>0 DEF TypeInv, MatchInv, OwnsId
<1>2. /\ req'[r].pc = "idle"
      /\ \A q \in Requests \ {r} : req'[q] = req[q]
  BY <1>0, FinishEffect DEF TypeInv
<1> HIDE DEF new, own
<1>3. \A id : /\ MirrorOf(id) \subseteq MirrorOf(id)'
              /\ id # own => MirrorOf(id)' = MirrorOf(id)
  BY <1>0 DEF MirrorOf
<1>4. MirrorMatchesChain'
  <2>1. ASSUME NEW row \in DOMAIN mirrors'
        PROVE  /\ mirrors'[row].id \in DOMAIN proposals'
               /\ proposals'[mirrors'[row].id].change = mirrors'[row].change
               /\ mirrors'[row].status = "Executed"
                     => proposals'[mirrors'[row].id].status = "Executed"
    BY <1>0, <1>1 DEF MatchInv, MirrorMatchesChain
  <2>2. ASSUME NEW row \in DOMAIN mirrors', NEW other \in DOMAIN mirrors',
               mirrors'[row].id = mirrors'[other].id
        PROVE  row = other
    <3>1. \A k \in DOMAIN mirrors : mirrors[k].id # own
      BY <1>1 DEF MirrorOf
    <3> QED
      BY <1>0, <2>2, <3>1 DEF MatchInv, MirrorMatchesChain
  <2> QED
    BY <2>1, <2>2 DEF MirrorMatchesChain
<1>5. OnlyMirroredExecute'
  BY <1>0, <1>3 DEF MatchInv, OnlyMirroredExecute
<1>6. \A id : MayExecute(id) => MayExecute(id)'
  BY <1>0, <1>3 DEF MayExecute
<1>7. OwnIds'
  BY <1>2, NoNewId
<1>8. ASSUME NEW q \in Requests
      PROVE  OwnsId(q)' /\ DecidesRoute(q)'
  <2>1. CASE q = r
    BY <1>2, <2>1, ClaimsNothing
  <2>2. CASE q # r
    <3>1. req'[q] = req[q] /\ OwnsId(q) /\ DecidesRoute(q)
      BY <1>2, <2>2 DEF MatchInv
    <3>2. req[q].pc \in {"mined", "mirror"} => req[q].id # own
      BY <1>0, <2>2 DEF MatchInv, OwnIds, own
    <3>3. OwnsId(q)'
      BY <1>0, <1>3, <3>1, <3>2 DEF OwnsId
    <3>4. DecidesRoute(q)'
      BY <1>0, <1>6, <3>1 DEF DecidesRoute, InDecision
    <3> QED
      BY <3>3, <3>4
  <2> QED
    BY <2>1, <2>2
<1>9. \A tx \in pending' : tx.call = "approve" => MayExecute(tx.id)'
  BY <1>0, <1>6 DEF MatchInv
<1> QED
  BY <1>4, <1>5, <1>7, <1>8, <1>9 DEF MatchInv

\* A decision changes one row's status: to Executed only for the row of a
\* proposal that is.
LEMMA StatusWrites ==
  ASSUME SignedInv, MatchInv, NEW r \in Requests, ApproveCommit(r) \/ RejectCommit(r)
  PROVE  /\ Finish(r) /\ UNCHANGED <<proposals, pending>>
         /\ DOMAIN mirrors' = DOMAIN mirrors
         /\ \A row \in DOMAIN mirrors :
               /\ mirrors'[row].id = mirrors[row].id
               /\ mirrors'[row].change = mirrors[row].change
               /\ row # req[r].row => mirrors'[row] = mirrors[row]
               /\ row = req[r].row =>
                     mirrors'[row].status = IF req[r].pc = "reject" THEN "Rejected" ELSE "Executed"
<1>0. /\ TypeOK /\ \A row \in DOMAIN mirrors : mirrors[row] \in Mirror
  BY TableRows DEF SignedInv, TypeInv, TypeOK
<1>1. \A row \in DOMAIN mirrors, st \in {"Executed", "Rejected"} :
         /\ [mirrors[row] EXCEPT !.status = st].id = mirrors[row].id
         /\ [mirrors[row] EXCEPT !.status = st].change = mirrors[row].change
         /\ [mirrors[row] EXCEPT !.status = st].status = st
  <2>1. \A m \in Mirror, st \in {"Executed", "Rejected"} :
           /\ [m EXCEPT !.status = st].id = m.id
           /\ [m EXCEPT !.status = st].change = m.change
           /\ [m EXCEPT !.status = st].status = st
    BY DEF Mirror
  <2> QED
    BY <1>0, <2>1
<1>2. CASE ApproveCommit(r)
  <2>1. req[r].pc = "approved" /\ Finish(r) /\ UNCHANGED <<proposals, pending>>
    BY <1>2 DEF ApproveCommit, chainVars
  <2>2. mirrors' = [row \in DOMAIN mirrors |->
                       IF row = req[r].row THEN [mirrors[row] EXCEPT !.status = "Executed"]
                                           ELSE mirrors[row]]
    BY <1>2 DEF ApproveCommit
  <2> QED
    BY <1>1, <2>1, <2>2
<1>3. CASE RejectCommit(r)
  <2>1. req[r].pc = "reject" /\ Finish(r) /\ UNCHANGED <<proposals, pending>>
    BY <1>3 DEF RejectCommit, chainVars
  <2>2. mirrors' = [mirrors EXCEPT ![req[r].row] =
                       [mirrors[req[r].row] EXCEPT !.status = "Rejected"]]
    BY <1>3 DEF RejectCommit
  <2> QED
    BY <1>1, <2>1, <2>2
<1> QED
  BY <1>2, <1>3

LEMMA MatchDecisions ==
  ASSUME SignedInv, MatchInv, NEW r \in Requests, ApproveCommit(r) \/ RejectCommit(r)
  PROVE  MatchInv'
<1>0. /\ Finish(r) /\ UNCHANGED <<proposals, pending>>
      /\ DOMAIN mirrors' = DOMAIN mirrors
      /\ \A row \in DOMAIN mirrors :
            /\ mirrors'[row].id = mirrors[row].id
            /\ mirrors'[row].change = mirrors[row].change
            /\ row # req[r].row => mirrors'[row] = mirrors[row]
            /\ row = req[r].row =>
                  mirrors'[row].status = IF req[r].pc = "reject" THEN "Rejected" ELSE "Executed"
  BY StatusWrites
<1>1. TypeOK /\ TypeInv /\ DecidesOwn(r) /\ DecidesRoute(r)
  BY DEF SignedInv, TypeInv, MatchInv
<1>2. /\ req'[r].pc = "idle"
      /\ \A q \in Requests \ {r} : req'[q] = req[q]
  BY <1>0, <1>1, FinishEffect
<1>3. \A id : MirrorOf(id)' = MirrorOf(id)
  BY <1>0 DEF MirrorOf
<1>4. ASSUME NEW row \in DOMAIN mirrors, mirrors'[row].status = "Executed"
      PROVE  proposals[mirrors[row].id].status = "Executed"
  <2>1. CASE row = req[r].row
    <3>1. req[r].pc = "approved" /\ row # NoRow
      BY <1>0, <1>1, <1>4, <2>1, MirrorRows DEF ApproveCommit, RejectCommit
    <3>2. mirrors[row].id = req[r].id
      BY <1>1, <2>1, <3>1 DEF DecidesRoute, InDecision
    <3> QED
      BY <1>1, <3>1, <3>2 DEF DecidesOwn
  <2>2. CASE row # req[r].row
    BY <1>0, <1>4, <2>2 DEF MatchInv, MirrorMatchesChain
  <2> QED
    BY <2>1, <2>2
<1>5. MirrorMatchesChain'
  BY <1>0, <1>4 DEF MatchInv, MirrorMatchesChain
<1>6. OnlyMirroredExecute'
  BY <1>0, <1>3 DEF MatchInv, OnlyMirroredExecute
<1>7. \A id : MayExecute(id) => MayExecute(id)'
  BY <1>0, <1>3 DEF MayExecute
<1>8. OwnIds'
  BY <1>2, NoNewId
<1>9. ASSUME NEW q \in Requests
      PROVE  OwnsId(q)' /\ DecidesRoute(q)'
  <2>1. CASE q = r
    BY <1>2, <2>1, ClaimsNothing
  <2>2. CASE q # r
    <3>1. req'[q] = req[q] /\ OwnsId(q) /\ DecidesRoute(q)
      BY <1>2, <2>2 DEF MatchInv
    <3> QED
      BY <1>0, <1>3, <1>7, <3>1 DEF OwnsId, DecidesRoute, InDecision
  <2> QED
    BY <2>1, <2>2
<1>10. \A tx \in pending' : tx.call = "approve" => MayExecute(tx.id)'
  BY <1>0, <1>7 DEF MatchInv
<1> QED
  BY <1>5, <1>6, <1>8, <1>9, <1>10 DEF MatchInv

\* Requests that end without a commit.
LEMMA MatchEnds ==
  ASSUME TypeInv, MatchInv, NEW r \in Requests, Finish(r),
         UNCHANGED mirrors, ChainGrows, RouteKept,
         \A tx \in pending' : tx \in pending \/ tx.call = "propose" \/ MayExecute(tx.id)
  PROVE  MatchInv'
<1>1. /\ req'[r].pc = "idle"
      /\ \A q \in Requests \ {r} : req'[q] = req[q]
  BY FinishEffect DEF TypeInv
<1>2. \A q \in Requests : req'[q] = req[q] \/ (OwnsId(q)' /\ DecidesRoute(q)')
  BY <1>1, ClaimsNothing
<1>3. OwnIds'
  BY <1>1, NoNewId
<1> QED
  BY <1>2, <1>3, MatchCarries

LEMMA MatchProposing ==
  ASSUME "event" \notin Faults, TypeInv, MatchInv, NEW r \in Requests, Proposing(r)
  PROVE  MatchInv'
<1>0. TypeOK
  BY DEF TypeInv
<1>1. CASE ProposeMined(r)
  <2>1. req[r] \in ProposeRequest /\ req[r].change \in Change
    BY <1>0, <1>1, RequestKinds DEF ProposeMined, InPropose, ProposeRequest
  <2>0. PICK new : new = Trail!ProposalCount + 1
    OBVIOUS
  <2>2. /\ ChainGrows /\ RouteKept /\ new \notin DOMAIN proposals
        /\ new \in DOMAIN proposals' /\ proposals'[new].change = req[r].change
    BY <1>1, <2>0, <2>1, ProposeGrows DEF ProposeMined
  <2>3. /\ req'[r].pc = "mined" /\ req'[r].id = new /\ req'[r].change = req[r].change
        /\ \A q \in Requests \ {r} : req'[q] = req[q]
        /\ UNCHANGED <<pending, mirrors>>
    BY <1>0, <1>1, <2>0, <2>1 DEF ProposeMined, TypeOK, ProposeRequest
  <2>4. \A row \in DOMAIN mirrors' : mirrors'[row].id # new
    BY <2>2, <2>3 DEF MatchInv, MirrorMatchesChain
  <2>5. OwnsId(r)' /\ DecidesRoute(r)'
    BY <2>2, <2>3, <2>4 DEF OwnsId, DecidesRoute, InDecision, MirrorOf
  <2>6. OwnIds'
    BY <2>2, <2>3 DEF OwnIds, MatchInv, TypeInv
  <2>7. \A q \in Requests : req'[q] = req[q] \/ (OwnsId(q)' /\ DecidesRoute(q)')
    BY <2>3, <2>5
  <2> QED
    BY <2>2, <2>3, <2>6, <2>7, MatchCarries
<1>2. CASE ReadBack(r)
  <2>1. req[r] \in ProposeRequest
    BY <1>0, <1>2, RequestKinds DEF ReadBack, InPropose
  <2>2. req' = [req EXCEPT ![r].pc = "mirror", ![r].id = req[r].id,
                           ![r].status = proposals[req[r].id].status]
    BY <1>2 DEF ReadBack
  <2>3. /\ req[r].pc = "mined" /\ UNCHANGED <<proposals, pending, mirrors>>
        /\ req'[r].pc = "mirror" /\ req'[r].id = req[r].id /\ req'[r].change = req[r].change
        /\ req'[r].status = proposals[req[r].id].status
        /\ \A q \in Requests \ {r} : req'[q] = req[q]
    BY <1>0, <1>2, <2>1, <2>2 DEF ReadBack, TypeOK, ProposeRequest, chainVars
  <2>4. OwnsId(r)' /\ DecidesRoute(r)'
    <3>1. OwnsId(r)
      BY DEF MatchInv
    <3> QED
      BY <2>3, <3>1 DEF OwnsId, DecidesRoute, InDecision, MirrorOf
  <2>5. OwnIds'
    BY <2>3 DEF OwnIds, MatchInv
  <2>6. \A q \in Requests : req'[q] = req[q] \/ (OwnsId(q)' /\ DecidesRoute(q)')
    BY <2>3, <2>4
  <2> QED
    BY <2>3, <2>5, <2>6, ChainKept, MatchCarries
<1>3. CASE ProposeRefused(r) \/ ReadBackFails(r) \/ MirrorFails(r)
  BY <1>3, ChainKept, MatchEnds DEF ProposeRefused, ReadBackFails, MirrorFails, chainVars
<1>4. CASE ProposeUnconfirmed(r)
  BY <1>4, ChainKept, MatchEnds DEF ProposeUnconfirmed
<1>5. CASE CorrectionCommit(r) \/ RecordsCommit(r)
  BY <1>5, MatchCommits
<1> QED
  BY <1>1, <1>2, <1>3, <1>4, <1>5 DEF Proposing

LEMMA MatchDeciding ==
  ASSUME SignedInv, MatchInv, NEW r \in Requests, Deciding(r)
  PROVE  MatchInv'
<1>0. TypeOK /\ TypeInv /\ DecidesRoute(r)
  BY DEF SignedInv, TypeInv, MatchInv
<1>1. CASE ApproveMined(r)
  <2>1. req[r] \in DecideRequest /\ InDecision(r)
    BY <1>0, <1>1, RequestKinds DEF ApproveMined, InDecision
  <2>2. /\ req'[r].pc = "approved" /\ req'[r].id = req[r].id /\ req'[r].row = req[r].row
        /\ \A q \in Requests \ {r} : req'[q] = req[q]
        /\ UNCHANGED <<pending, mirrors>>
    BY <1>0, <1>1, <2>1 DEF ApproveMined, TypeOK, DecideRequest
  <2>3. ChainGrows /\ RouteKept
    BY <1>0, <1>1, <2>1, ApproveGrows DEF ApproveMined, DecidesRoute
  <2>4. OwnsId(r)' /\ DecidesRoute(r)'
    BY <1>0, <2>1, <2>2, <2>3 DEF OwnsId, DecidesRoute, MayExecute, MirrorOf, ChainGrows
  <2>5. OwnIds'
    BY <2>2, NoNewId
  <2>6. \A q \in Requests : req'[q] = req[q] \/ (OwnsId(q)' /\ DecidesRoute(q)')
    BY <2>2, <2>4
  <2> QED
    BY <1>0, <2>2, <2>3, <2>5, <2>6, MatchCarries
<1>2. CASE ApproveUnread(r)
  <2>1. MayExecute(req[r].id)
    BY <1>0, <1>2 DEF ApproveUnread, DecidesRoute, InDecision
  <2> QED
    BY <1>0, <1>2, <2>1, ApproveGrows, MatchEnds DEF ApproveUnread
<1>3. CASE ApproveRefused(r) \/ DecisionFails(r)
  BY <1>0, <1>3, ChainKept, MatchEnds DEF ApproveRefused, DecisionFails, chainVars
<1>4. CASE ApproveUnconfirmed(r)
  <2>1. MayExecute(req[r].id)
    BY <1>0, <1>4 DEF ApproveUnconfirmed, DecidesRoute, InDecision
  <2> QED
    BY <1>0, <1>4, <2>1, ChainKept, MatchEnds DEF ApproveUnconfirmed
<1>5. CASE ApproveCommit(r) \/ RejectCommit(r)
  BY <1>5, MatchDecisions
<1> QED
  BY <1>1, <1>2, <1>3, <1>4, <1>5 DEF Deciding

LEMMA MatchNext ==
  ASSUME "event" \notin Faults, "redeploy" \notin Faults, SignedInv, MatchInv, [Next]_vars
  PROVE  MatchInv'
<1>0. TypeInv /\ TypeOK
  BY DEF SignedInv, TypeInv
<1>1. ASSUME UNCHANGED mirrors, ChainGrows, RouteKept,
             \A tx \in pending' : tx \in pending,
             UNCHANGED req \/ \A q \in Requests : req'[q] = IdleRequest
      PROVE  MatchInv'
  <2>1. \A q \in Requests : req'[q] = req[q] \/ req'[q].pc = "idle"
    BY <1>1 DEF IdleRequest
  <2>2. \A q \in Requests : req'[q] = req[q] \/ (OwnsId(q)' /\ DecidesRoute(q)')
    BY <2>1, ClaimsNothing
  <2>3. OwnIds'
    BY <2>1, NoNewId
  <2> QED
    BY <1>0, <1>1, <2>2, <2>3, MatchCarries
<1>2. CASE UNCHANGED vars
  BY <1>1, <1>2, ChainKept DEF vars
<1>3. ASSUME NEW r \in Requests, Handlers(r) \/ Proposing(r) \/ Deciding(r)
      PROVE  MatchInv'
  BY <1>0, <1>3, MatchHandlers, MatchProposing, MatchDeciding
<1>4. ASSUME NEW tx \in pending, MinePending(tx)
      PROVE  MatchInv'
  <2>1. /\ UNCHANGED <<mirrors, req>> /\ \A other \in pending' : other \in pending
    BY <1>4 DEF MinePending
  <2>2. CASE tx.call = "propose" /\ Trail!ProposeChange(Instructor, tx.change)
    <3>1. tx.change \in Change
      BY <1>0, <2>2 DEF TypeOK, Tx
    <3> QED
      BY <1>0, <1>1, <2>1, <2>2, <3>1, ProposeGrows
  <2>3. CASE tx.call = "approve" /\ Trail!Approve(Hod, tx.id)
    <3>1. MayExecute(tx.id)
      BY <2>3 DEF MatchInv
    <3> QED
      BY <1>0, <1>1, <2>1, <2>3, <3>1, ApproveGrows
  <2>4. CASE UNCHANGED <<proposals, hasSigned, updated>>
    BY <1>1, <2>1, <2>4, ChainKept
  <2> QED
    BY <1>4, <2>2, <2>3, <2>4 DEF MinePending
<1>5. CASE Crash
  BY <1>1, <1>5, ChainKept DEF Crash, chainVars
<1> QED
  BY <1>2, <1>3, <1>4, <1>5 DEF Next, Redeploy

LEMMA MatchInit == Init => SignedInv /\ MatchInv
<1> SUFFICES ASSUME Init
             PROVE  SignedInv /\ MatchInv
  OBVIOUS
<1>1. /\ DOMAIN proposals = {} /\ DOMAIN mirrors = {} /\ pending = {}
      /\ \A r \in Requests : req[r].pc = "idle"
  BY DEF Init, IdleRequest
<1>2. SignedInv
  BY SignedInit
<1>3. MatchInv
  BY <1>1 DEF MatchInv, MirrorMatchesChain, OnlyMirroredExecute, OwnIds, OwnsId, DecidesRoute,
     InDecision
<1> QED
  BY <1>2, <1>3

\* Under one contract whose events are decoded, on either database and with
\* every other fault and race: a row stands for one proposal of the chain, says
\* what it says and is never ahead of it.
THEOREM MirrorsMatchTheChain ==
  "event" \notin Faults /\ "redeploy" \notin Faults => (Spec => []MirrorMatchesChain)
<1> SUFFICES ASSUME "event" \notin Faults, "redeploy" \notin Faults
             PROVE  Spec => []MirrorMatchesChain
  OBVIOUS
<1>1. SignedInv /\ MatchInv /\ [Next]_vars => (SignedInv /\ MatchInv)'
  BY SignedNext, MatchNext
<1>2. MatchInv => MirrorMatchesChain
  BY DEF MatchInv
<1> QED
  BY <1>1, <1>2, MatchInit, PTL DEF Spec

\* Under the same conditions no correction is executed on the chain without its
\* row: /records never signs one, and neither does an approve sent before a
\* restart and mined after it.
THEOREM CorrectionsExecuteByTheirRoute ==
  "event" \notin Faults /\ "redeploy" \notin Faults => (Spec => []OnlyMirroredExecute)
<1> SUFFICES ASSUME "event" \notin Faults, "redeploy" \notin Faults
             PROVE  Spec => []OnlyMirroredExecute
  OBVIOUS
<1>1. SignedInv /\ MatchInv /\ [Next]_vars => (SignedInv /\ MatchInv)'
  BY SignedNext, MatchNext
<1>2. MatchInv => OnlyMirroredExecute
  BY DEF MatchInv
<1> QED
  BY <1>1, <1>2, MatchInit, PTL DEF Spec

-----------------------------------------------------------------------------
(* Dual control: what changes a grade *)

\* What GradeChangeIsSigned asks of a step that changes grade g.
SignedChange(g) ==
    \E row \in DOMAIN mirrors :
       /\ mirrors[row].change.grade = g
       /\ mirrors[row].change.new = grades'[g].value
       /\ mirrors[row].status \in Applicable /\ mirrors'[row].status = "Executed"
       /\ mirrors[row].id \in DOMAIN proposals
       /\ proposals[mirrors[row].id].status = "Executed"
       /\ hasSigned[mirrors[row].id] = {Instructor, Hod}

\* A decision works on the correction its row holds, and one that is past its
\* approve on a row that has not been closed as Executed.
AppliesOwn(r) ==
    /\ InDecision(r) /\ IsGrade(req[r].change) =>
          req[r].row \in DOMAIN mirrors /\ mirrors[req[r].row].change = req[r].change
    /\ req[r].pc = "approved" /\ IsGrade(req[r].change) =>
          mirrors[req[r].row].status # "Executed"

\* The chain lets one approve of a proposal through.
ApplyOnce ==
    \A r, q \in Requests :
        req[r].pc = "approved" /\ req[q].pc = "approved" /\ req[r].id = req[q].id => r = q

(***************************************************************************)
(* The inductive invariant on either database.  Row locks give the rest by *)
(* LockInv; without them only the contract keeps two approves of one       *)
(* correction apart, so the rows have to match the chain (MatchInv).       *)
(***************************************************************************)
ApplyInv ==
    /\ SignedInv
    /\ MatchInv
    /\ ApplyOnce
    /\ \A r \in Requests : AppliesOwn(r)

\* How a thread comes to be in a decision.
LEMMA DecisionMoves ==
  ASSUME TypeInv, [Next]_vars, NEW q \in Requests
  PROVE  \/ req'[q] = req[q]
         \/ ~InDecision(q)'
         \/ /\ UNCHANGED mirrors /\ req'[q].pc \in {"approve", "reject"}
            /\ IsGrade(req'[q].change) =>
                  /\ req'[q].row \in DOMAIN mirrors
                  /\ mirrors[req'[q].row].change = req'[q].change
         \/ ApproveMined(q)
<1>0. TypeOK
  BY DEF TypeInv
<1>1. CASE UNCHANGED req \/ \A r \in Requests : req'[r] = IdleRequest
  BY <1>1 DEF IdleRequest, InDecision
<1>2. ASSUME NEW r \in Requests, NEW change, BeginPropose(r, change)
      PROVE  req'[q] = req[q] \/ ~InDecision(q)'
  BY <1>0, <1>2 DEF BeginPropose, TypeOK, InDecision
<1>3. ASSUME NEW r \in Requests, NEW pc \in {"approve", "reject"}, NEW change, NEW id, NEW row,
             IsGrade(change) => row \in DOMAIN mirrors /\ mirrors[row].change = change,
             BeginDecision(r, pc, change, id, row)
      PROVE  \/ req'[q] = req[q]
             \/ /\ UNCHANGED mirrors /\ req'[q].pc \in {"approve", "reject"}
                /\ IsGrade(req'[q].change) =>
                      /\ req'[q].row \in DOMAIN mirrors
                      /\ mirrors[req'[q].row].change = req'[q].change
  <2> DEFINE new == [pc |-> pc, change |-> change, id |-> id, row |-> row]
  <2>1. UNCHANGED mirrors /\ (q = r => req'[q] = new) /\ (q # r => req'[q] = req[q])
    BY <1>0, <1>3 DEF BeginDecision, TypeOK
  <2>2. new.pc = pc /\ new.change = change /\ new.row = row
    OBVIOUS
  <2> HIDE DEF new
  <2> QED
    BY <1>3, <2>1, <2>2
<1>4. ASSUME NEW r \in Requests, Handlers(r)
      PROVE  \/ \E change : BeginPropose(r, change)
             \/ \E pc \in {"approve", "reject"} : \E id, row, change :
                   /\ BeginDecision(r, pc, change, id, row)
                   /\ IsGrade(change) => row \in DOMAIN mirrors /\ mirrors[row].change = change
  <2>1. ASSUME NEW row \in DOMAIN mirrors, ApproveChecks(r, row) \/ RejectChecks(r, row)
        PROVE  \E pc \in {"approve", "reject"} :
                  BeginDecision(r, pc, mirrors[row].change, mirrors[row].id, row)
    BY <2>1 DEF ApproveChecks, RejectChecks
  <2>2. ASSUME NEW id, RecordsApproveChecks(r, id)
        PROVE  \E row : BeginDecision(r, "approve", Generic, id, row)
    BY <2>2 DEF RecordsApproveChecks
  <2>3. ~IsGrade(Generic)
    BY ChangeKinds
  <2> QED
    BY <1>4, <2>1, <2>2, <2>3 DEF Handlers, CorrectionChecks, RecordsProposeChecks
<1>5. ASSUME NEW r \in Requests, Finish(r)
      PROVE  req'[q] = req[q] \/ ~InDecision(q)'
  BY <1>0, <1>5, FinishEffect DEF InDecision
<1>6. ASSUME NEW r \in Requests, Proposing(r)
      PROVE  req'[q] = req[q] \/ ~InDecision(q)'
  <2>1. CASE ProposeMined(r)
    <3>1. req[r] \in ProposeRequest
      BY <1>0, <2>1, RequestKinds DEF ProposeMined, InPropose
    <3>2. PICK id : req' = [req EXCEPT ![r].pc = "mined", ![r].id = id]
      BY <2>1 DEF ProposeMined
    <3>3. req'[r].pc = "mined" /\ \A o \in Requests \ {r} : req'[o] = req[o]
      BY <1>0, <3>1, <3>2 DEF TypeOK, ProposeRequest
    <3> QED
      BY <3>3 DEF InDecision
  <2>2. CASE ReadBack(r)
    <3>1. req[r] \in ProposeRequest
      BY <1>0, <2>2, RequestKinds DEF ReadBack, InPropose
    <3>2. PICK id, st : req' = [req EXCEPT ![r].pc = "mirror", ![r].id = id, ![r].status = st]
      BY <2>2 DEF ReadBack
    <3>3. req'[r].pc = "mirror" /\ \A o \in Requests \ {r} : req'[o] = req[o]
      BY <1>0, <3>1, <3>2 DEF TypeOK, ProposeRequest
    <3> QED
      BY <3>3 DEF InDecision
  <2>3. CASE Finish(r)
    BY <1>5, <2>3
  <2> QED
    BY <1>6, <2>1, <2>2, <2>3 DEF Proposing, ProposeRefused, ProposeUnconfirmed, ReadBackFails,
       CorrectionCommit, RecordsCommit, MirrorFails
<1>7. ASSUME NEW r \in Requests, Deciding(r)
      PROVE  req'[q] = req[q] \/ ~InDecision(q)' \/ ApproveMined(q)
  <2>1. CASE ApproveMined(r)
    <3>1. q # r => req'[q] = req[q]
      BY <1>0, <2>1 DEF ApproveMined, TypeOK
    <3> QED
      BY <2>1, <3>1
  <2>2. CASE Finish(r)
    BY <1>5, <2>2
  <2> QED
    BY <1>7, <2>1, <2>2 DEF Deciding, ApproveRefused, ApproveUnconfirmed, ApproveUnread,
       ApproveCommit, RejectCommit, DecisionFails
<1>8. CASE Crash \/ Redeploy \/ (\E tx \in pending : MinePending(tx)) \/ UNCHANGED vars
  BY <1>1, <1>8 DEF Crash, Redeploy, MinePending, vars
<1> QED
  BY <1>2, <1>3, <1>4, <1>6, <1>7, <1>8 DEF Next

\* An approve that the chain lets through: its proposal was Pending.
LEMMA MinedEffect ==
  ASSUME TypeInv, NEW r \in Requests, ApproveMined(r)
  PROVE  /\ UNCHANGED mirrors /\ InDecision(r) /\ proposals[req[r].id].status = "Pending"
         /\ req'[r].pc = "approved" /\ req'[r].id = req[r].id /\ req'[r].row = req[r].row
         /\ req'[r].change = req[r].change
         /\ \A q \in Requests \ {r} : req'[q] = req[q]
<1>1. TypeOK /\ req[r] \in DecideRequest /\ InDecision(r)
  BY RequestKinds DEF ApproveMined, InDecision, TypeInv
<1>2. UNCHANGED mirrors /\ proposals[req[r].id].status = "Pending"
  BY DEF ApproveMined, Trail!Approve, Trail!MayApprove
<1> QED
  BY <1>1, <1>2 DEF ApproveMined, TypeOK, DecideRequest

LEMMA ApplyNext ==
  ASSUME "event" \notin Faults, "redeploy" \notin Faults, ApplyInv, [Next]_vars
  PROVE  ApplyInv'
<1>0. /\ TypeInv /\ TypeOK /\ SignedInv /\ MatchInv /\ SignedInv' /\ MatchInv'
      /\ \A r \in Requests : DecidesOwn(r) /\ DecidesRoute(r) /\ AppliesOwn(r)
  BY SignedNext, MatchNext DEF ApplyInv, SignedInv, MatchInv, TypeInv
<1>1. ApplyOnce'
  <2> SUFFICES ASSUME NEW r \in Requests, NEW q \in Requests, req'[r].pc = "approved",
                      req'[q].pc = "approved", req'[r].id = req'[q].id, r # q
               PROVE  FALSE
    BY DEF ApplyOnce
  <2>1. \A o \in {r, q} : req'[o] = req[o] \/ ApproveMined(o)
    BY <1>0, DecisionMoves DEF InDecision
  <2>2. ASSUME NEW o \in {r, q}, NEW p \in {r, q}, o # p, ApproveMined(o)
        PROVE  FALSE
    <3>1. /\ proposals[req[o].id].status = "Pending" /\ req'[o].id = req[o].id
          /\ req'[p] = req[p]
      BY <1>0, <2>2, MinedEffect
    <3>2. proposals[req[p].id].status = "Executed"
      BY <1>0, <3>1 DEF DecidesOwn
    <3> QED
      BY <3>1, <3>2
  <2>3. req'[r] = req[r] /\ req'[q] = req[q]
    BY <2>1, <2>2
  <2> QED
    BY <2>3 DEF ApplyInv, ApplyOnce
<1>2. ASSUME NEW q \in Requests, req'[q] = req[q]
      PROVE  AppliesOwn(q)'
  <2>1. CASE UNCHANGED <<grades, mirrors>>
    BY <1>0, <1>2, <2>1 DEF AppliesOwn, InDecision
  <2>2. ASSUME NEW r \in Requests, CorrectionCommit(r) \/ RecordsCommit(r)
        PROVE  AppliesOwn(q)'
    <3>1. \A row \in DOMAIN mirrors : row \in DOMAIN mirrors' /\ mirrors'[row] = mirrors[row]
      BY <1>0, <2>2, CommitAppends
    <3> QED
      BY <1>0, <1>2, <3>1 DEF AppliesOwn, InDecision
  <2>3. ASSUME NEW r \in Requests, ApproveCommit(r) \/ RejectCommit(r)
        PROVE  AppliesOwn(q)'
    <3>1. /\ Finish(r) /\ DOMAIN mirrors' = DOMAIN mirrors
          /\ \A row \in DOMAIN mirrors :
                /\ mirrors'[row].change = mirrors[row].change
                /\ row # req[r].row => mirrors'[row] = mirrors[row]
                /\ row = req[r].row /\ req[r].pc = "reject" => mirrors'[row].status = "Rejected"
      BY <1>0, <2>3, StatusWrites
    <3>2. req'[r].pc = "idle" /\ req[r].pc \in {"approved", "reject"}
      BY <1>0, <2>3, <3>1, FinishEffect DEF ApproveCommit, RejectCommit
    <3>3. CASE req[q].pc = "approved" /\ IsGrade(req[q].change) /\ req[q].row = req[r].row
      <4>1. /\ req[q].row \in DOMAIN mirrors /\ mirrors[req[q].row].id = req[q].id
            /\ req[q].row # NoRow
        BY <1>0, <3>3, MirrorRows DEF DecidesOwn, InDecision
      <4>2. mirrors[req[r].row].id = req[r].id
        BY <1>0, <3>2, <3>3, <4>1 DEF DecidesRoute, InDecision
      <4>3. req[r].pc = "reject"
        BY <1>2, <3>2, <3>3, <4>1, <4>2 DEF ApplyInv, ApplyOnce
      <4> QED
        BY <1>0, <1>2, <3>1, <3>3, <4>1, <4>3 DEF AppliesOwn, InDecision
    <3>4. CASE ~(req[q].pc = "approved" /\ IsGrade(req[q].change) /\ req[q].row = req[r].row)
      BY <1>0, <1>2, <3>1, <3>4 DEF AppliesOwn, InDecision
    <3> QED
      BY <3>3, <3>4
  <2> QED
    BY <1>0, <2>1, <2>2, <2>3, TableSteps
<1>3. ASSUME NEW q \in Requests, ApproveMined(q)
      PROVE  AppliesOwn(q)'
  <2>1. /\ UNCHANGED mirrors /\ InDecision(q) /\ proposals[req[q].id].status = "Pending"
        /\ req'[q].id = req[q].id /\ req'[q].row = req[q].row /\ req'[q].change = req[q].change
    BY <1>0, <1>3, MinedEffect
  <2>2. IsGrade(req[q].change) =>
           /\ req[q].row \in DOMAIN mirrors /\ mirrors[req[q].row].id = req[q].id
           /\ mirrors[req[q].row].change = req[q].change
    BY <1>0, <2>1 DEF DecidesOwn, AppliesOwn
  <2>3. IsGrade(req[q].change) => mirrors[req[q].row].status # "Executed"
    BY <1>0, <2>1, <2>2 DEF MatchInv, MirrorMatchesChain
  <2> QED
    BY <2>1, <2>2, <2>3 DEF AppliesOwn
<1>4. ASSUME NEW q \in Requests
      PROVE  AppliesOwn(q)'
  <2>1. CASE ~InDecision(q)'
    BY <2>1 DEF AppliesOwn, InDecision
  <2>2. CASE /\ UNCHANGED mirrors /\ req'[q].pc \in {"approve", "reject"}
             /\ IsGrade(req'[q].change) => /\ req'[q].row \in DOMAIN mirrors
                                           /\ mirrors[req'[q].row].change = req'[q].change
    BY <2>2 DEF AppliesOwn
  <2> QED
    BY <1>0, <1>2, <1>3, <2>1, <2>2, DecisionMoves
<1> QED
  BY <1>0, <1>1, <1>4 DEF ApplyInv

LEMMA ApplyInit == Init => ApplyInv
<1> SUFFICES ASSUME Init
             PROVE  ApplyInv
  OBVIOUS
<1>1. \A r \in Requests : req[r].pc = "idle"
  BY DEF Init, IdleRequest
<1> QED
  BY <1>1, MatchInit DEF ApplyInv, ApplyOnce, AppliesOwn, InDecision

\* The one step that changes a grade is the commit of an approve: it applies
\* the correction of its own row, if that is what the thread still holds.
LEMMA SignedChangeStep ==
  ASSUME SignedInv, [Next]_vars, NEW g \in Grades, grades'[g].value # grades[g].value,
         \A r \in Requests : req[r].pc = "approved" /\ IsGrade(req[r].change) =>
             /\ mirrors[req[r].row].change = req[r].change
             /\ mirrors[req[r].row].status \in Applicable
  PROVE  SignedChange(g)
<1>0. TypeOK /\ TypeInv /\ grades \in [Grades -> Grade]
      /\ \A row \in DOMAIN mirrors : mirrors[row] \in Mirror
  BY TableRows DEF SignedInv, TypeInv, TypeOK
<1>1. PICK r \in Requests : ApproveCommit(r)
  <2>1. \A r \in Requests : ~CorrectionCommit(r) /\ ~RecordsCommit(r)
    BY <1>0, CorrectionWrites, RecordsWrites
  <2>2. \A r \in Requests : ~RejectCommit(r)
    BY <1>0 DEF RejectCommit, Grade
  <2> QED
    BY <1>0, <2>1, <2>2, TableSteps
<1>2. /\ req[r].change.grade = g /\ req[r].pc = "approved"
      /\ grades'[g].value = req[r].change.new
  BY <1>0, <1>1 DEF ApproveCommit
<1>3. IsGrade(req[r].change) /\ InDecision(r)
  BY <1>2, NoGradeAssumption DEF IsGrade, InDecision
<1>4. /\ req[r].row \in DOMAIN mirrors /\ mirrors[req[r].row].id = req[r].id
      /\ req[r].id \in DOMAIN proposals /\ proposals[req[r].id].status = "Executed"
  BY <1>2, <1>3 DEF SignedInv, DecidesOwn
<1>5. mirrors'[req[r].row].status = "Executed"
  <2>1. [mirrors[req[r].row] EXCEPT !.status = "Executed"].status = "Executed"
    BY <1>0, <1>4 DEF Mirror
  <2> QED
    BY <1>1, <1>4, <2>1 DEF ApproveCommit
<1>6. hasSigned[mirrors[req[r].row].id] = {Instructor, Hod}
  BY <1>4 DEF SignedInv, SignedChain
<1>7. /\ mirrors[req[r].row].change = req[r].change
      /\ mirrors[req[r].row].status \in Applicable
  BY <1>2, <1>3
<1> QED
  BY <1>2, <1>4, <1>5, <1>6, <1>7 DEF SignedChange

\* With row locks, under every fault and with the contract deployed anew, and
\* without them under one contract whose events are decoded: a grade changes
\* only in the step that closes an open correction of that grade, to the value
\* it proposes, when the chain holds an instructor's and the HOD's signature.
THEOREM GradeChangesAreSigned ==
  RowLocks \/ ("event" \notin Faults /\ "redeploy" \notin Faults) =>
     (Spec => GradeChangeIsSigned)
<1>1. ASSUME RowLocks
      PROVE  Spec => GradeChangeIsSigned
  <2>1. Init => SignedInv /\ LockInv
    BY SignedInit, LockInit
  <2>2. SignedInv /\ LockInv /\ [Next]_vars => (SignedInv /\ LockInv)'
    BY <1>1, SignedNext, LockNext
  <2>3. LockInv => \A r \in Requests : req[r].pc = "approved" /\ IsGrade(req[r].change) =>
                       /\ mirrors[req[r].row].change = req[r].change
                       /\ mirrors[req[r].row].status \in Applicable
    BY DEF LockInv, ThreadInv, InDecision, Applicable
  <2>4. SignedInv /\ LockInv /\ [Next]_vars =>
           [\A g \in Grades : grades'[g].value # grades[g].value => SignedChange(g)]_vars
    BY <2>3, SignedChangeStep
  <2> QED
    BY <2>1, <2>2, <2>4, PTL DEF Spec, GradeChangeIsSigned, SignedChange
<1>2. ASSUME "event" \notin Faults, "redeploy" \notin Faults
      PROVE  Spec => GradeChangeIsSigned
  <2>1. ApplyInv /\ [Next]_vars => ApplyInv'
    BY <1>2, ApplyNext
  <2>2. CASE RowLocks
    BY <1>1, <2>2
  <2>3. CASE ~RowLocks
    <3>1. ApplyInv => \A r \in Requests : req[r].pc = "approved" /\ IsGrade(req[r].change) =>
                         /\ mirrors[req[r].row].change = req[r].change
                         /\ mirrors[req[r].row].status \in Applicable
      <4>1. ASSUME ApplyInv, NEW r \in Requests, req[r].pc = "approved", IsGrade(req[r].change)
            PROVE  /\ mirrors[req[r].row].change = req[r].change
                   /\ mirrors[req[r].row].status \in Applicable
        <5>1. /\ req[r].row \in DOMAIN mirrors /\ mirrors[req[r].row].change = req[r].change
              /\ mirrors[req[r].row].status # "Executed"
          BY <4>1 DEF ApplyInv, AppliesOwn, InDecision
        <5>2. mirrors[req[r].row] \in Mirror
          BY <4>1, <5>1, TableRows DEF ApplyInv, SignedInv, TypeInv, TypeOK
        <5> QED
          BY <2>3, <5>1, <5>2 DEF Mirror, Applicable
      <4> QED
        BY <4>1
    <3>2. ApplyInv /\ [Next]_vars =>
             [\A g \in Grades : grades'[g].value # grades[g].value => SignedChange(g)]_vars
      BY <3>1, SignedChangeStep DEF ApplyInv
    <3> QED
      BY <2>1, <3>2, ApplyInit, PTL DEF Spec, GradeChangeIsSigned, SignedChange
  <2> QED
    BY <2>2, <2>3
<1> QED
  BY <1>1, <1>2

-----------------------------------------------------------------------------
(* Lock and pending correction, under one contract and with row locks *)

\* Only corrections are rejected.
OnlyGradesRejected ==
    \A row \in DOMAIN mirrors :
        mirrors[row].status = "Rejected" => IsGrade(mirrors[row].change)

(***************************************************************************)
(* The inductive invariant: what the row locks give (LockInv), what one    *)
(* contract gives (SignedInv, MatchInv) and the lock column's half.  A new *)
(* lock names a row that is Pending only because nobody can have executed  *)
(* the proposal while it had no row, which is OnlyMirroredExecute.         *)
(***************************************************************************)
PairedInv ==
    /\ SignedInv
    /\ MatchInv
    /\ LockInv
    /\ LockNamesPending
    /\ OnlyGradesRejected

\* A commit writes the status the chain said; a correction's is still Pending.
LEMMA CommitStatus ==
  ASSUME TypeInv, MatchInv, NEW r \in Requests, CorrectionCommit(r) \/ RecordsCommit(r)
  PROVE  /\ req[r].status \in {"Pending", "Executed"}
         /\ CorrectionCommit(r) => req[r].status = "Pending"
<1>1. req[r].pc = "mirror" /\ req[r] \in ProposeRequest
  BY RequestKinds DEF TypeInv, CorrectionCommit, RecordsCommit, InPropose
<1>2. req[r].status \in {"Pending", "Executed"}
  BY <1>1 DEF ProposeRequest
<1>3. /\ req[r].id \in DOMAIN proposals /\ MirrorOf(req[r].id) = {}
      /\ proposals[req[r].id].change = req[r].change
      /\ req[r].status = "Executed" => proposals[req[r].id].status = "Executed"
  BY <1>1 DEF TypeInv, MatchInv, OwnsId
<1>4. CorrectionCommit(r) => req[r].status # "Executed"
  BY <1>3 DEF CorrectionCommit, MatchInv, OnlyMirroredExecute
<1> QED
  BY <1>2, <1>4

LEMMA PairedCommits ==
  ASSUME PairedInv, NEW r \in Requests, CorrectionCommit(r) \/ RecordsCommit(r)
  PROVE  LockNamesPending' /\ OnlyGradesRejected'
<1> DEFINE new == Len(mirrors) + 1
           own == req[r].change.grade
<1>0. TypeInv /\ MatchInv
  BY DEF PairedInv, LockInv
<1>1. /\ DOMAIN mirrors' = DOMAIN mirrors \cup {new}
      /\ \A row \in DOMAIN mirrors : mirrors'[row] = mirrors[row]
      /\ mirrors'[new].change = req[r].change
      /\ mirrors'[new].status = req[r].status
  BY <1>0, CommitAppends
<1>2. req[r].status # "Rejected" /\ (CorrectionCommit(r) => req[r].status = "Pending")
  BY <1>0, CommitStatus
<1>3. \/ CorrectionCommit(r) /\ \A g \in Grades :
            grades'[g].lock = IF g = own THEN new ELSE grades[g].lock
      \/ RecordsCommit(r) /\ grades' = grades
  BY <1>0, CorrectionWrites, RecordsWrites
<1> HIDE DEF new
<1>4. OnlyGradesRejected'
  BY <1>1, <1>2 DEF PairedInv, OnlyGradesRejected
<1>5. ASSUME NEW g \in Grades, grades'[g].lock # NoLock
      PROVE  /\ grades'[g].lock \in DOMAIN mirrors'
             /\ mirrors'[grades'[g].lock].status = "Pending"
             /\ mirrors'[grades'[g].lock].change.grade = g
  <2>1. CASE grades'[g].lock = grades[g].lock
    BY <1>1, <1>5, <2>1 DEF PairedInv, LockNamesPending
  <2>2. CASE CorrectionCommit(r) /\ g = own /\ grades'[g].lock = new
    BY <1>1, <1>2, <2>2
  <2> QED
    BY <1>3, <2>1, <2>2
<1> QED
  BY <1>4, <1>5 DEF LockNamesPending

LEMMA PairedDecisions ==
  ASSUME PairedInv, NEW r \in Requests, ApproveCommit(r) \/ RejectCommit(r)
  PROVE  LockNamesPending' /\ OnlyGradesRejected'
<1> DEFINE own == req[r].change.grade
           mine == req[r].row
<1>0. SignedInv /\ MatchInv /\ LockInv /\ TypeOK /\ ThreadInv(r)
  BY DEF PairedInv, LockInv, TypeInv
<1>1. /\ DOMAIN mirrors' = DOMAIN mirrors
      /\ \A row \in DOMAIN mirrors :
            /\ mirrors'[row].change = mirrors[row].change
            /\ row # mine => mirrors'[row] = mirrors[row]
            /\ row = mine =>
                  mirrors'[row].status = IF req[r].pc = "reject" THEN "Rejected" ELSE "Executed"
  BY <1>0, StatusWrites
<1>2. /\ InDecision(r)
      /\ \A g \in Grades : g # own => grades'[g] = grades[g]
      /\ IsGrade(req[r].change) => grades'[own].lock = NoLock
  BY <1>0, DecisionWrites
<1>3. /\ IsGrade(req[r].change) =>
            mine \in DOMAIN mirrors /\ mirrors[mine].change = req[r].change
      /\ ~IsGrade(req[r].change) =>
            /\ req[r].pc # "reject"
            /\ mine = NoRow \/ ~IsGrade(mirrors[mine].change)
  BY <1>0, <1>2 DEF ThreadInv
<1>4. \A row \in DOMAIN mirrors : row # NoRow
  BY <1>0, MirrorRows
<1>5. OnlyGradesRejected'
  <2> SUFFICES ASSUME NEW row \in DOMAIN mirrors, mirrors'[row].status = "Rejected"
               PROVE  IsGrade(mirrors[row].change)
    BY <1>1 DEF OnlyGradesRejected
  <2>1. CASE row = mine
    BY <1>1, <1>3, <2>1
  <2>2. CASE row # mine
    BY <1>1, <2>2 DEF PairedInv, OnlyGradesRejected
  <2> QED
    BY <2>1, <2>2
<1>6. ASSUME NEW g \in Grades, grades'[g].lock # NoLock
      PROVE  /\ grades'[g].lock \in DOMAIN mirrors'
             /\ mirrors'[grades'[g].lock].status = "Pending"
             /\ mirrors'[grades'[g].lock].change.grade = g
  <2>1. g # own
    BY <1>2, <1>6, NoGradeAssumption DEF IsGrade
  <2>2. grades'[g] = grades[g]
    BY <1>2, <2>1
  <2>3. /\ grades[g].lock \in DOMAIN mirrors
        /\ mirrors[grades[g].lock].status = "Pending"
        /\ mirrors[grades[g].lock].change.grade = g
    BY <1>6, <2>2 DEF PairedInv, LockNamesPending
  <2>4. grades[g].lock # mine
    <3>1. CASE IsGrade(req[r].change)
      BY <1>3, <2>1, <2>3, <3>1
    <3>2. CASE ~IsGrade(req[r].change)
      BY <1>3, <1>4, <2>3, <3>2, NoGradeAssumption DEF IsGrade
    <3> QED
      BY <3>1, <3>2
  <2> QED
    BY <1>1, <2>2, <2>3, <2>4
<1> QED
  BY <1>5, <1>6 DEF LockNamesPending

LEMMA PairedNext ==
  ASSUME RowLocks, "event" \notin Faults, "redeploy" \notin Faults, PairedInv, [Next]_vars
  PROVE  PairedInv'
<1>1. SignedInv' /\ MatchInv' /\ LockInv'
  BY SignedNext, MatchNext, LockNext DEF PairedInv
<1>3. ASSUME NEW r \in Requests, \/ CorrectionCommit(r) \/ RecordsCommit(r)
                                 \/ ApproveCommit(r) \/ RejectCommit(r)
      PROVE  LockNamesPending' /\ OnlyGradesRejected'
  BY <1>3, PairedCommits, PairedDecisions
<1>4. LockNamesPending' /\ OnlyGradesRejected'
  <2>1. TypeOK
    BY DEF PairedInv, LockInv, TypeInv
  <2>2. CASE UNCHANGED <<grades, mirrors>>
    BY <2>2 DEF PairedInv, LockNamesPending, OnlyGradesRejected
  <2> QED
    BY <1>3, <2>1, <2>2, TableSteps
<1> QED
  BY <1>1, <1>4 DEF PairedInv

LEMMA PairedInit == Init => PairedInv
<1> SUFFICES ASSUME Init
             PROVE  PairedInv
  OBVIOUS
<1>1. SignedInv /\ MatchInv /\ LockInv
  BY MatchInit, LockInit
<1>2. DOMAIN mirrors = {} /\ \A g \in Grades : grades[g].lock = NoLock
  BY DEF Init
<1> QED
  BY <1>1, <1>2 DEF PairedInv, LockNamesPending, OnlyGradesRejected

\* With row locks and under one contract, a lock and a pending correction are
\* two halves of one fact: every lock names its grade's pending correction and
\* every pending correction holds its grade, after every interleaving of
\* proposals, decisions, /records, crashes and lost answers.
THEOREM LocksArePaired ==
  RowLocks /\ "event" \notin Faults /\ "redeploy" \notin Faults => (Spec => []LockPaired)
<1> SUFFICES ASSUME RowLocks, "event" \notin Faults, "redeploy" \notin Faults
             PROVE  Spec => []LockPaired
  OBVIOUS
<1>1. PairedInv /\ [Next]_vars => PairedInv'
  BY PairedNext
<1>2. PairedInv => LockPaired
  BY DEF PairedInv, LockInv, LockPaired
<1> QED
  BY <1>1, <1>2, PairedInit, PTL DEF Spec

LEMMA FinalStep ==
  ASSUME PairedInv, TypeOK', NEW r \in Requests,
         \/ CorrectionCommit(r) \/ RecordsCommit(r) \/ ApproveCommit(r) \/ RejectCommit(r),
         NEW row \in DOMAIN mirrors, mirrors[row].status # "Pending"
  PROVE  mirrors'[row] = mirrors[row]
<1>0. SignedInv /\ MatchInv /\ TypeInv /\ ThreadInv(r) /\ TypeOK
  BY DEF PairedInv, LockInv, TypeInv
<1>1. CASE CorrectionCommit(r) \/ RecordsCommit(r)
  BY <1>0, <1>1, CommitAppends
<1>2. CASE ApproveCommit(r) \/ RejectCommit(r)
  <2>1. /\ row \in DOMAIN mirrors'
        /\ mirrors'[row].id = mirrors[row].id
        /\ mirrors'[row].change = mirrors[row].change
        /\ row # req[r].row => mirrors'[row] = mirrors[row]
        /\ row = req[r].row =>
              mirrors'[row].status = IF req[r].pc = "reject" THEN "Rejected" ELSE "Executed"
    BY <1>0, <1>2, StatusWrites
  <2>2. mirrors[row] \in Mirror /\ mirrors'[row] \in Mirror /\ row # NoRow
    BY <1>0, <2>1, TableRows DEF TypeOK, NoRow
  \* The one closed row a decision writes is a generic one, Executed as it was.
  <2>3. ASSUME row = req[r].row
        PROVE  mirrors'[row].status = "Executed" /\ mirrors[row].status = "Executed"
    <3>1. InDecision(r)
      BY <1>2 DEF ApproveCommit, RejectCommit, InDecision
    <3>2. ~IsGrade(mirrors[row].change) /\ req[r].pc # "reject"
      BY <1>0, <2>2, <2>3, <3>1 DEF ThreadInv
    <3>3. mirrors[row].status \in {"Pending", "Executed", "Rejected"}
      BY <2>2 DEF Mirror
    <3> QED
      BY <2>1, <2>3, <3>2, <3>3 DEF PairedInv, OnlyGradesRejected
  <2>4. \A m, n \in Mirror : m.id = n.id /\ m.change = n.change /\ m.status = n.status => m = n
    BY DEF Mirror
  <2> QED
    BY <2>1, <2>2, <2>3, <2>4
<1> QED
  BY <1>1, <1>2

\* With row locks and under one contract a closed correction's row never
\* changes again: no second approve, reject or /records reopens it.
THEOREM ClosedCorrectionsAreFinal ==
  RowLocks /\ "event" \notin Faults /\ "redeploy" \notin Faults => (Spec => ClosedIsFinal)
<1> SUFFICES ASSUME RowLocks, "event" \notin Faults, "redeploy" \notin Faults
             PROVE  Spec => ClosedIsFinal
  OBVIOUS
<1>1. PairedInv /\ [Next]_vars => PairedInv'
  BY PairedNext
<1>2. PairedInv /\ [Next]_vars =>
         [\A row \in DOMAIN mirrors :
             mirrors[row].status # "Pending" => mirrors'[row] = mirrors[row]]_vars
  <2> SUFFICES ASSUME PairedInv, [Next]_vars, NEW row \in DOMAIN mirrors,
                      mirrors[row].status # "Pending"
               PROVE  mirrors'[row] = mirrors[row]
    OBVIOUS
  <2>1. TypeOK /\ TypeOK'
    BY TypeNext DEF PairedInv, LockInv, TypeInv
  <2>2. CASE UNCHANGED <<grades, mirrors>>
    BY <2>2
  <2>3. ASSUME NEW r \in Requests, \/ CorrectionCommit(r) \/ RecordsCommit(r)
                                   \/ ApproveCommit(r) \/ RejectCommit(r)
        PROVE  mirrors'[row] = mirrors[row]
    BY <2>1, <2>3, FinalStep
  <2> QED
    BY <2>1, <2>2, <2>3, TableSteps
<1> QED
  BY <1>1, <1>2, PairedInit, PTL DEF Spec, ClosedIsFinal
=============================================================================
