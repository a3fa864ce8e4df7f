-------------------------- MODULE AttendanceProofs --------------------------
(***************************************************************************)
(* Attendance for any number of classes, students, request threads and     *)
(* sessions, with every fault: type correctness; that the roster is what   *)
(* the chain has locked, once; and that closed sessions stay closed and    *)
(* their attendance settles.                                               *)
(***************************************************************************)
EXTENDS Attendance, SequenceTheorems, TLAPS

-----------------------------------------------------------------------------
(* Tables and threads *)

\* Rewriting every element of a table in place gives a table.
LEMMA SeqRewrite ==
  ASSUME NEW S, NEW q \in Seq(S), NEW g \in [DOMAIN q -> S]
  PROVE  g \in Seq(S) /\ DOMAIN g = DOMAIN q /\ Len(g) = Len(q)
<1>1. DOMAIN q = 1..Len(q) /\ Len(q) \in Nat
  BY LenProperties
<1>2. g \in Seq(S)
  BY <1>1, SeqDef
<1> QED
  BY <1>1, <1>2, LenProperties

LEMMA AppendRow ==
  ASSUME NEW S, NEW q \in Seq(S), NEW e \in S
  PROVE  /\ Append(q, e) \in Seq(S)
         /\ Len(Append(q, e)) = Len(q) + 1
         /\ \A i \in DOMAIN q : Append(q, e)[i] = q[i]
         /\ Append(q, e)[Len(q) + 1] = e
         /\ DOMAIN Append(q, e) = 1..(Len(q) + 1)
  OBVIOUS

\* The rows of attendance_sessions.
LEMMA Rows ==
  ASSUME TypeOK
  PROVE  /\ DOMAIN sessions = 1..Len(sessions)
         /\ Len(sessions) \in Nat
         /\ DOMAIN sessions \subseteq SessionIds
         /\ \A s \in DOMAIN sessions : sessions[s] \in Session
<1>1. sessions \in Seq(Session) /\ Len(sessions) <= MaxSessions
  BY DEF TypeOK
<1>2. DOMAIN sessions = 1..Len(sessions) /\ Len(sessions) \in Nat
  BY <1>1, LenProperties
<1>3. DOMAIN sessions \subseteq SessionIds
  BY <1>1, <1>2, AttendanceBounds DEF SessionIds
<1>4. \A s \in DOMAIN sessions : sessions[s] \in Session
  BY <1>1, <1>2
<1> QED
  BY <1>2, <1>3, <1>4

LEMMA RequestKinds ==
  ASSUME TypeOK, NEW r \in Requests
  PROVE  /\ req[r].pc = "idle" => req[r] = IdleRequest
         /\ req[r].pc = "start" => req[r] \in StartRequest
         /\ req[r].pc = "refresh" => req[r] \in RefreshRequest
         /\ req[r].pc \in {"isLocked", "lock", "mirror"} => req[r] \in ScanRequest
<1>1. req[r] \in {IdleRequest} \cup StartRequest \cup RefreshRequest \cup ScanRequest
  BY DEF TypeOK
<1>2. CASE req[r] = IdleRequest
  BY <1>2 DEF IdleRequest
<1>3. CASE req[r] \in StartRequest
  BY <1>3 DEF StartRequest
<1>4. CASE req[r] \in RefreshRequest
  BY <1>4 DEF RefreshRequest
<1>5. CASE req[r] \in ScanRequest
  BY <1>5 DEF ScanRequest
<1> QED
  BY <1>1, <1>2, <1>3, <1>4, <1>5

\* What a mined lockAttendance does.
LEMMA Locks ==
  ASSUME NEW st, NEW s, Mine(st, s)
  PROVE  /\ st \notin locked[s]
         /\ locked' = [locked EXCEPT ![s] = @ \cup {st}]
         /\ announced' = [announced EXCEPT ![s][st] = @ + 1]
  BY DEF Mine, Ledger!LockAttendance, Ledger!Write

LEMMA MineTyped ==
  ASSUME TypeOK, NEW st \in Students, NEW s \in SessionIds, Mine(st, s)
  PROVE  /\ locked' \in [SessionIds -> SUBSET Students]
         /\ announced' \in [SessionIds -> [Students -> Nat]]
<1>1. /\ locked' = [locked EXCEPT ![s] = @ \cup {st}]
      /\ announced' = [announced EXCEPT ![s][st] = @ + 1]
  BY Locks
<1>2. locked' \in [SessionIds -> SUBSET Students]
  BY <1>1 DEF TypeOK
<1>3. announced' \in [SessionIds -> [Students -> Nat]]
  BY <1>1 DEF TypeOK
<1> QED
  BY <1>2, <1>3

-----------------------------------------------------------------------------
(* Type correctness *)

LEMMA TypeInit == Init => TypeOK
<1> SUFFICES ASSUME Init
             PROVE  TypeOK
  OBVIOUS
<1>1. sessions \in Seq(Session) /\ Len(sessions) <= MaxSessions
  BY AttendanceBounds DEF Init
<1> QED
  BY <1>1 DEF Init, TypeOK, Ledger!LedgerInit, IdleJob

LEMMA TypeFinish ==
  ASSUME TypeOK, NEW r \in Requests, Finish(r)
  PROVE  req' \in [Requests -> {IdleRequest} \cup StartRequest \cup RefreshRequest \cup ScanRequest]
  BY DEF TypeOK, Finish

\* A rotation keeps the table well formed.
LEMMA TypeRotate ==
  ASSUME TypeOK, NEW ids, Rotate(ids)
  PROVE  /\ sessions' \in Seq(Session) /\ Len(sessions') = Len(sessions)
         /\ DOMAIN sessions' = DOMAIN sessions
<1> DEFINE row(s) == IF s \in ids
                     THEN [sessions[s] EXCEPT !.nonce = @ + 1, !.fresh = TRUE]
                     ELSE sessions[s]
<1>1. \A s \in DOMAIN sessions : row(s) \in Session
  <2> TAKE s \in DOMAIN sessions
  <2>1. sessions[s] \in Session
    BY Rows
  <2>2. sessions[s].nonce + 1 \in Nat
    BY <2>1 DEF Session
  <2>3. [sessions[s] EXCEPT !.nonce = sessions[s].nonce + 1, !.fresh = TRUE] \in Session
    BY <2>1, <2>2 DEF Session
  <2> QED
    BY <2>1, <2>3
<1>2. sessions' = [s \in DOMAIN sessions |-> row(s)]
  BY DEF Rotate
<1>3. sessions' \in [DOMAIN sessions -> Session]
  BY <1>1, <1>2
<1> QED
  BY <1>3, SeqRewrite DEF TypeOK

LEMMA TypeSession ==
  ASSUME TypeOK, NEW r \in Requests, SessionSteps(r)
  PROVE  TypeOK'
<1>1. ASSUME NEW c \in Classes, StartReads(r, c)
      PROVE  TypeOK'
  <2> DEFINE started == [pc |-> "start", class |-> c,
                         previous |-> {s \in DOMAIN sessions :
                                          sessions[s].class = c /\ sessions[s].active}]
  <2>1. started \in StartRequest
    BY Rows DEF StartRequest
  <2>2. req' = [req EXCEPT ![r] = started]
    BY <1>1 DEF StartReads
  <2> HIDE DEF started
  <2> QED
    BY <1>1, <2>1, <2>2 DEF StartReads, TypeOK, chainVars
<1>2. CASE StartCommit(r)
  <2>0. req[r] \in StartRequest
    BY <1>2, RequestKinds DEF StartCommit
  <2> DEFINE closed == [s \in DOMAIN sessions |->
                          [sessions[s] EXCEPT !.active = @ /\ s \notin req[r].previous]]
  <2>1. closed \in [DOMAIN sessions -> Session]
    <3>1. \A s \in DOMAIN sessions :
             [sessions[s] EXCEPT !.active = @ /\ s \notin req[r].previous] \in Session
      BY Rows DEF Session
    <3> QED
      BY <3>1
  <2>2. closed \in Seq(Session) /\ Len(closed) = Len(sessions)
    BY <2>1, SeqRewrite DEF TypeOK
  <2>3. NewSession(req[r].class) \in Session
    BY <2>0 DEF NewSession, Session, StartRequest
  <2>4. sessions' = Append(closed, NewSession(req[r].class))
    BY <1>2 DEF StartCommit
  <2> HIDE DEF closed
  <2>5. sessions' \in Seq(Session) /\ Len(sessions') = Len(sessions) + 1
    BY <2>2, <2>3, <2>4, AppendRow
  <2>6. Len(sessions') <= MaxSessions
    BY <1>2, <2>5, Rows, AttendanceBounds DEF StartCommit
  <2>7. Finish(r)
    BY <1>2 DEF StartCommit
  <2> QED
    BY <1>2, <2>5, <2>6, <2>7, TypeFinish DEF StartCommit, TypeOK, chainVars
<1>3. CASE StartFails(r)
  BY <1>3, TypeFinish DEF StartFails, TypeOK, chainVars
<1>4. ASSUME NEW s \in SessionIds, QrReads(r, s)
      PROVE  TypeOK'
  <2>1. [pc |-> "refresh", session |-> s] \in RefreshRequest
    BY DEF RefreshRequest
  <2> QED
    BY <1>4, <2>1 DEF QrReads, TypeOK, chainVars
<1>5. CASE QrCommit(r)
  BY <1>5, TypeFinish, TypeRotate DEF QrCommit, TypeOK, chainVars
<1>6. CASE QrFails(r)
  BY <1>6, TypeFinish DEF QrFails, TypeOK, chainVars
<1> QED
  BY <1>1, <1>2, <1>3, <1>4, <1>5, <1>6 DEF SessionSteps

LEMMA TypeScan ==
  ASSUME TypeOK, NEW r \in Requests, ScanSteps(r)
  PROVE  TypeOK'
<1>1. ASSUME NEW st \in Students, NEW s \in DOMAIN sessions, NEW nonce, ScanChecks(r, st, s, nonce)
      PROVE  TypeOK'
  <2>1. [pc |-> "isLocked", student |-> st, session |-> s] \in ScanRequest
    BY Rows DEF ScanRequest
  <2> QED
    BY <1>1, <2>1 DEF ScanChecks, BeginScan, TypeOK, chainVars
<1>2. CASE NotLocked(r)
  <2>1. [req[r] EXCEPT !.pc = "lock"] \in ScanRequest
    BY <1>2, RequestKinds DEF NotLocked, ScanRequest
  <2> QED
    BY <1>2, <2>1 DEF NotLocked, TypeOK, chainVars
<1>3. CASE AlreadyLocked(r)
  BY <1>3, TypeFinish DEF AlreadyLocked, TypeOK, chainVars
<1>4. CASE LockMined(r)
  <2>1. req[r] \in ScanRequest /\ [req[r] EXCEPT !.pc = "mirror"] \in ScanRequest
    BY <1>4, RequestKinds DEF LockMined, ScanRequest
  <2>2. req[r].student \in Students /\ req[r].session \in SessionIds
    BY <2>1 DEF ScanRequest
  <2> QED
    BY <1>4, <2>1, <2>2, MineTyped DEF LockMined, TypeOK
<1>5. CASE LockRefused(r)
  BY <1>5, TypeFinish DEF LockRefused, TypeOK, chainVars
<1>6. CASE LockUnconfirmed(r)
  <2>1. req[r] \in ScanRequest
    BY <1>6, RequestKinds DEF LockUnconfirmed
  <2>2. [student |-> req[r].student, session |-> req[r].session] \in Tx
    BY <2>1 DEF ScanRequest, Tx
  <2> QED
    BY <1>6, <2>2, TypeFinish DEF LockUnconfirmed, TypeOK
<1>7. CASE LockMinedThenRaises(r)
  <2>1. req[r] \in ScanRequest
    BY <1>7, RequestKinds DEF LockMinedThenRaises
  <2>2. req[r].student \in Students /\ req[r].session \in SessionIds
    BY <2>1 DEF ScanRequest
  <2> QED
    BY <1>7, <2>2, MineTyped, TypeFinish DEF LockMinedThenRaises, TypeOK
<1>8. CASE MirrorCommit(r)
  <2>1. req[r] \in ScanRequest
    BY <1>8, RequestKinds DEF MirrorCommit
  <2>2. checkIns' \in [SessionIds -> SUBSET Students]
    BY <1>8, <2>1 DEF MirrorCommit, ScanRequest, TypeOK
  <2> QED
    BY <1>8, <2>2, TypeFinish DEF MirrorCommit, TypeOK, chainVars
<1>9. CASE MirrorFails(r)
  BY <1>9, TypeFinish DEF MirrorFails, TypeOK, chainVars
<1> QED
  BY <1>1, <1>2, <1>3, <1>4, <1>5, <1>6, <1>7, <1>8, <1>9 DEF ScanSteps

\* One row is changed in place.
LEMMA TypeOneRow ==
  ASSUME TypeOK, NEW s \in DOMAIN sessions, NEW row \in Session,
         sessions' = [sessions EXCEPT ![s] = row]
  PROVE  /\ sessions' \in Seq(Session) /\ Len(sessions') = Len(sessions)
         /\ DOMAIN sessions' = DOMAIN sessions
<1>1. sessions' \in [DOMAIN sessions -> Session]
  BY Rows
<1> QED
  BY <1>1, SeqRewrite DEF TypeOK

LEMMA TypeRest ==
  ASSUME TypeOK,
         \/ \E s \in SessionIds : End(s) \/ NonceExpires(s)
         \/ JobReads \/ JobCommit \/ JobFails
         \/ \E tx \in pending : MinePending(tx)
         \/ Crash
  PROVE  TypeOK'
<1>1. ASSUME NEW s \in SessionIds, End(s)
      PROVE  TypeOK'
  <2>1. s \in DOMAIN sessions /\ sessions[s] \in Session
    BY <1>1, Rows DEF End
  <2>2. [sessions[s] EXCEPT !.active = FALSE, !.ended = TRUE] \in Session
    BY <2>1 DEF Session
  <2>3. sessions' = [sessions EXCEPT ![s] = [sessions[s] EXCEPT !.active = FALSE, !.ended = TRUE]]
    BY <1>1 DEF End
  <2> QED
    BY <1>1, <2>1, <2>2, <2>3, TypeOneRow DEF End, TypeOK, chainVars
<1>2. ASSUME NEW s \in SessionIds, NonceExpires(s)
      PROVE  TypeOK'
  <2>1. s \in DOMAIN sessions /\ sessions[s] \in Session
    BY <1>2, Rows DEF NonceExpires
  <2>2. [sessions[s] EXCEPT !.fresh = FALSE] \in Session
    BY <2>1 DEF Session
  <2>3. sessions' = [sessions EXCEPT ![s] = [sessions[s] EXCEPT !.fresh = FALSE]]
    BY <1>2 DEF NonceExpires
  <2> QED
    BY <1>2, <2>1, <2>2, <2>3, TypeOneRow DEF NonceExpires, TypeOK, chainVars
<1>3. CASE JobReads
  <2>1. job' \in [running : BOOLEAN, expired : SUBSET SessionIds]
    BY <1>3, Rows DEF JobReads
  <2> QED
    BY <1>3, <2>1 DEF JobReads, TypeOK, chainVars
<1>4. CASE JobCommit
  BY <1>4, TypeRotate DEF JobCommit, TypeOK, IdleJob, chainVars
<1>5. CASE JobFails
  BY <1>5 DEF JobFails, TypeOK, IdleJob, chainVars
<1>6. ASSUME NEW tx \in pending, MinePending(tx)
      PROVE  TypeOK'
  <2>1. tx.student \in Students /\ tx.session \in SessionIds
    BY DEF TypeOK, Tx
  <2>2. /\ locked' \in [SessionIds -> SUBSET Students]
        /\ announced' \in [SessionIds -> [Students -> Nat]]
    BY <1>6, <2>1, MineTyped DEF MinePending, TypeOK
  <2> QED
    BY <1>6, <2>2 DEF MinePending, TypeOK
<1>7. CASE Crash
  BY <1>7 DEF Crash, TypeOK, IdleJob, chainVars
<1> QED
  BY <1>1, <1>2, <1>3, <1>4, <1>5, <1>6, <1>7

LEMMA TypeNext == TypeOK /\ [Next]_vars => TypeOK'
<1> SUFFICES ASSUME TypeOK, [Next]_vars
             PROVE  TypeOK'
  OBVIOUS
<1>1. CASE UNCHANGED vars
  BY <1>1 DEF vars, chainVars, TypeOK
<1> QED
  BY <1>1, TypeSession, TypeScan, TypeRest DEF Next

\* In every reachable state, for any number of sessions, students and threads,
\* every row, request record and lock is well formed.
THEOREM AttendanceTypeCorrect == Spec => []TypeOK
<1> QED
  BY TypeInit, TypeNext, PTL DEF Spec

-----------------------------------------------------------------------------
(* The roster and the chain *)

\* The inductive invariant.  A thread whose transaction was mined holds the one
\* right to mirror the lock: the contract lets nobody else lock the pair, and
\* whoever is on the roster is locked, so the pair was not there before.
RosterInv == LockedOnce /\ RosterIsAnchored /\ MirroredByOne

LEMMA RosterInit == Init => RosterInv
  BY DEF Init, RosterInv, LockedOnce, RosterIsAnchored, MirroredByOne, IdleRequest,
         Ledger!LedgerInit, Ledger!EmittedOnce

\* A step that leaves chain and roster alone and puts no thread at its mirror.
LEMMA RosterQuiet ==
  ASSUME RosterInv, UNCHANGED <<locked, announced, checkIns>>,
         \A r \in Requests : req'[r].pc = "mirror" => req'[r] = req[r]
  PROVE  RosterInv'
  BY DEF RosterInv, LockedOnce, RosterIsAnchored, MirroredByOne, IsLocked, Ledger!EmittedOnce

\* A mined lock is announced once, and takes nobody's lock away.
LEMMA LockGrows ==
  ASSUME TypeOK, RosterInv, NEW st \in Students, NEW s \in SessionIds, Mine(st, s)
  PROVE  /\ LockedOnce'
         /\ st \in locked'[s]
         /\ \A z \in SessionIds : locked[z] \subseteq locked'[z]
<1>1. /\ st \notin locked[s]
      /\ locked' = [locked EXCEPT ![s] = @ \cup {st}]
      /\ announced' = [announced EXCEPT ![s][st] = @ + 1]
  BY Locks
<1>2. /\ st \in locked'[s]
      /\ \A z \in SessionIds : locked[z] \subseteq locked'[z]
  BY <1>1 DEF TypeOK
<1>3. ASSUME NEW z \in SessionIds, NEW w \in Students
      PROVE  announced'[z][w] = IF w \in locked'[z] THEN 1 ELSE 0
  <2>1. announced[z][w] = IF w \in locked[z] THEN 1 ELSE 0
    BY DEF RosterInv, LockedOnce, Ledger!EmittedOnce
  <2>2. CASE z = s /\ w = st
    BY <1>1, <2>1, <2>2 DEF TypeOK
  <2>3. CASE ~(z = s /\ w = st)
    BY <1>1, <2>1, <2>3 DEF TypeOK
  <2> QED
    BY <2>2, <2>3
<1> QED
  BY <1>2, <1>3 DEF LockedOnce, Ledger!EmittedOnce

\* A lock mined for nobody's mirror: after a lost receipt or a failed get_block.
LEMMA RosterOrphan ==
  ASSUME TypeOK, RosterInv, NEW st \in Students, NEW s \in SessionIds, Mine(st, s),
         UNCHANGED checkIns,
         \A r \in Requests : req'[r].pc = "mirror" => req'[r] = req[r]
  PROVE  RosterInv'
<1>1. LockedOnce' /\ \A z \in SessionIds : locked[z] \subseteq locked'[z]
  BY LockGrows
<1>2. \A r \in Requests : req[r].pc = "mirror" => req[r].session \in SessionIds
  BY RequestKinds DEF ScanRequest
<1>3. RosterIsAnchored'
  <2>1. \A z \in SessionIds : checkIns'[z] \subseteq locked'[z]
    BY <1>1 DEF RosterInv, RosterIsAnchored
  <2>2. \A r \in Requests : req'[r].pc = "mirror" => IsLocked(r)'
    BY <1>1, <1>2 DEF RosterInv, RosterIsAnchored, IsLocked
  <2> QED
    BY <2>1, <2>2 DEF RosterIsAnchored
<1>4. MirroredByOne'
  BY DEF RosterInv, MirroredByOne
<1> QED
  BY <1>1, <1>3, <1>4 DEF RosterInv

\* The thread whose lock was mined is the only one to mirror it.
LEMMA RosterLockMined ==
  ASSUME TypeOK, RosterInv, NEW r \in Requests, LockMined(r)
  PROVE  RosterInv'
<1> DEFINE st == req[r].student
           s == req[r].session
<1>1. req[r] \in ScanRequest /\ st \in Students /\ s \in SessionIds
  BY RequestKinds DEF LockMined, ScanRequest
<1>2. Mine(st, s)
  BY DEF LockMined
<1>3. /\ LockedOnce' /\ st \in locked'[s] /\ st \notin locked[s]
      /\ \A z \in SessionIds : locked[z] \subseteq locked'[z]
  BY <1>1, <1>2, LockGrows, Locks
<1>4. /\ req'[r].pc = "mirror" /\ req'[r].student = st /\ req'[r].session = s
      /\ \A q \in Requests \ {r} : req'[q] = req[q]
      /\ checkIns' = checkIns
  BY <1>1 DEF LockMined, TypeOK, ScanRequest
<1>5. \A q \in Requests : req[q].pc = "mirror" => req[q].session \in SessionIds
  BY RequestKinds DEF ScanRequest
<1>6. RosterIsAnchored'
  <2>1. \A z \in SessionIds : checkIns'[z] \subseteq locked'[z]
    BY <1>3, <1>4 DEF RosterInv, RosterIsAnchored
  <2>2. ASSUME NEW q \in Requests, req'[q].pc = "mirror"
        PROVE  req'[q].student \in locked'[req'[q].session]
    BY <1>3, <1>4, <1>5, <2>2 DEF RosterInv, RosterIsAnchored, IsLocked
  <2> QED
    BY <2>1, <2>2 DEF RosterIsAnchored, IsLocked
<1>7. MirroredByOne'
  <2>1. st \notin checkIns[s]
    BY <1>1, <1>3 DEF RosterInv, RosterIsAnchored
  <2>2. \A q \in Requests \ {r} :
           req[q].pc = "mirror" => req[q].student # st \/ req[q].session # s
    BY <1>3 DEF RosterInv, RosterIsAnchored, IsLocked
  <2> QED
    BY <1>4, <2>1, <2>2 DEF RosterInv, MirroredByOne
<1> QED
  BY <1>3, <1>6, <1>7 DEF RosterInv

\* Its row is new, and no other thread is about to add the same.
LEMMA RosterMirror ==
  ASSUME TypeOK, RosterInv, NEW r \in Requests, MirrorCommit(r)
  PROVE  RosterInv'
<1> DEFINE st == req[r].student
           s == req[r].session
<1>1. req[r] \in ScanRequest /\ st \in Students /\ s \in SessionIds
  BY RequestKinds DEF MirrorCommit, ScanRequest
<1>2. /\ checkIns' = [checkIns EXCEPT ![s] = @ \cup {st}]
      /\ locked' = locked /\ announced' = announced
      /\ req'[r].pc # "mirror"
      /\ \A q \in Requests \ {r} : req'[q] = req[q]
  BY DEF MirrorCommit, Finish, IdleRequest, chainVars, TypeOK
<1>3. st \in locked[s]
  BY DEF RosterInv, RosterIsAnchored, IsLocked, MirrorCommit
<1>4. LockedOnce'
  BY <1>2 DEF RosterInv, LockedOnce, Ledger!EmittedOnce
<1>5. RosterIsAnchored'
  <2>1. \A z \in SessionIds : checkIns'[z] \subseteq locked'[z]
    BY <1>1, <1>2, <1>3 DEF RosterInv, RosterIsAnchored, TypeOK
  <2>2. \A q \in Requests : req'[q].pc = "mirror" => IsLocked(q)'
    BY <1>2 DEF RosterInv, RosterIsAnchored, IsLocked
  <2> QED
    BY <2>1, <2>2 DEF RosterIsAnchored
<1>6. MirroredByOne'
  <2>1. ASSUME NEW q \in Requests, req'[q].pc = "mirror"
        PROVE  req'[q].student \notin checkIns'[req'[q].session]
    <3>1. q # r /\ req'[q] = req[q] /\ req[q].pc = "mirror" /\ req[q].session \in SessionIds
      BY <1>2, <2>1, RequestKinds DEF ScanRequest
    <3>2. /\ req[q].student \notin checkIns[req[q].session]
          /\ req[q].student # st \/ req[q].session # s
      BY <3>1 DEF RosterInv, MirroredByOne, MirrorCommit
    <3> QED
      BY <1>1, <1>2, <3>1, <3>2 DEF TypeOK
  <2>2. ASSUME NEW q \in Requests, req'[q].pc = "mirror",
               NEW p \in Requests \ {q}, req'[p].pc = "mirror"
        PROVE  req'[p].student # req'[q].student \/ req'[p].session # req'[q].session
    <3>1. q # r /\ p # r /\ req'[q] = req[q] /\ req'[p] = req[p]
      BY <1>2, <2>2
    <3> QED
      BY <2>2, <3>1 DEF RosterInv, MirroredByOne
  <2> QED
    BY <2>1, <2>2 DEF MirroredByOne
<1> QED
  BY <1>4, <1>5, <1>6 DEF RosterInv

LEMMA RosterScan ==
  ASSUME TypeOK, RosterInv, NEW r \in Requests, ScanSteps(r)
  PROVE  RosterInv'
<1>1. ASSUME NEW st \in Students, NEW s, NEW nonce, ScanChecks(r, st, s, nonce)
      PROVE  RosterInv'
  BY <1>1, RosterQuiet DEF ScanChecks, BeginScan, chainVars, TypeOK
<1>2. CASE NotLocked(r)
  <2>1. req[r] \in ScanRequest
    BY <1>2, RequestKinds DEF NotLocked
  <2> QED
    BY <1>2, <2>1, RosterQuiet DEF NotLocked, ScanRequest, chainVars, TypeOK
<1>3. CASE AlreadyLocked(r) \/ LockRefused(r) \/ LockUnconfirmed(r) \/ MirrorFails(r)
  <2>1. Finish(r) /\ UNCHANGED <<locked, announced, checkIns>>
    BY <1>3 DEF AlreadyLocked, LockRefused, LockUnconfirmed, MirrorFails, chainVars
  <2> QED
    BY <2>1, RosterQuiet DEF Finish, IdleRequest, TypeOK
<1>4. CASE LockMinedThenRaises(r)
  <2>1. req[r].student \in Students /\ req[r].session \in SessionIds
    BY <1>4, RequestKinds DEF LockMinedThenRaises, ScanRequest
  <2>2. /\ Mine(req[r].student, req[r].session) /\ UNCHANGED checkIns
        /\ \A q \in Requests : req'[q].pc = "mirror" => req'[q] = req[q]
    BY <1>4 DEF LockMinedThenRaises, Finish, IdleRequest, TypeOK
  <2> QED
    BY <2>1, <2>2, RosterOrphan
<1> QED
  BY <1>1, <1>2, <1>3, <1>4, RosterLockMined, RosterMirror DEF ScanSteps

LEMMA RosterSession ==
  ASSUME TypeOK, RosterInv, NEW r \in Requests, SessionSteps(r)
  PROVE  RosterInv'
<1>1. /\ UNCHANGED <<locked, announced, checkIns>>
      /\ \A q \in Requests : req'[q].pc = "mirror" => req'[q] = req[q]
  BY DEF SessionSteps, StartReads, StartCommit, StartFails, QrReads, QrCommit, QrFails,
         Finish, IdleRequest, chainVars, TypeOK
<1> QED
  BY <1>1, RosterQuiet

LEMMA RosterRest ==
  ASSUME TypeOK, RosterInv,
         \/ \E s \in SessionIds : End(s) \/ NonceExpires(s)
         \/ JobReads \/ JobCommit \/ JobFails
         \/ \E tx \in pending : MinePending(tx)
         \/ Crash
  PROVE  RosterInv'
<1>1. CASE \E s \in SessionIds : End(s) \/ NonceExpires(s)
  BY <1>1, RosterQuiet DEF End, NonceExpires, chainVars
<1>2. CASE JobReads \/ JobCommit \/ JobFails
  BY <1>2, RosterQuiet DEF JobReads, JobCommit, JobFails, chainVars
<1>3. CASE Crash
  BY <1>3, RosterQuiet DEF Crash, IdleRequest, chainVars
<1>4. ASSUME NEW tx \in pending, MinePending(tx)
      PROVE  RosterInv'
  <2>1. tx.student \in Students /\ tx.session \in SessionIds
    BY DEF TypeOK, Tx
  <2>2. CASE Mine(tx.student, tx.session)
    BY <1>4, <2>1, <2>2, RosterOrphan DEF MinePending
  <2>3. CASE UNCHANGED <<locked, announced>>
    BY <1>4, <2>3, RosterQuiet DEF MinePending
  <2> QED
    BY <1>4, <2>2, <2>3 DEF MinePending
<1> QED
  BY <1>1, <1>2, <1>3, <1>4

LEMMA RosterNext == TypeOK /\ RosterInv /\ [Next]_vars => RosterInv'
<1> SUFFICES ASSUME TypeOK, RosterInv, [Next]_vars
             PROVE  RosterInv'
  OBVIOUS
<1>1. CASE UNCHANGED vars
  BY <1>1, RosterQuiet DEF vars, chainVars
<1> QED
  BY <1>1, RosterSession, RosterScan, RosterRest DEF Next

LEMMA RosterAlways == Spec => []RosterInv
<1>1. Init => TypeOK /\ RosterInv
  BY TypeInit, RosterInit
<1>2. TypeOK /\ RosterInv /\ [Next]_vars => (TypeOK /\ RosterInv)'
  BY TypeNext, RosterNext
<1> QED
  BY <1>1, <1>2, PTL DEF Spec

\* However many scans of a student run side by side, the chain records and
\* announces the student once.
THEOREM LockedAndAnnouncedOnce == Spec => []LockedOnce
<1>1. RosterInv => LockedOnce
  BY DEF RosterInv
<1> QED
  BY <1>1, RosterAlways, PTL

\* Nobody is on the roster, or about to be put there, whom the chain has not
\* locked.
THEOREM RosterFollowsTheChain == Spec => []RosterIsAnchored
<1>1. RosterInv => RosterIsAnchored
  BY DEF RosterInv
<1> QED
  BY <1>1, RosterAlways, PTL

\* A lock is mirrored by one request at most, and never a second time.
THEOREM OneMirrorPerLock == Spec => []MirroredByOne
<1>1. RosterInv => MirroredByOne
  BY DEF RosterInv
<1> QED
  BY <1>1, RosterAlways, PTL

-----------------------------------------------------------------------------
(* Open and closed sessions *)

\* What a step may do to attendance_sessions: nothing, rewrite rows without
\* touching the flags, end one session, or open a new one.
SameFlags ==
  /\ DOMAIN sessions' = DOMAIN sessions
  /\ \A s \in DOMAIN sessions :
        /\ sessions'[s].class = sessions[s].class
        /\ sessions'[s].active = sessions[s].active
        /\ sessions'[s].ended = sessions[s].ended

LEMMA RotateFlags ==
  ASSUME TypeOK, NEW ids, Rotate(ids)
  PROVE  SameFlags
<1>1. DOMAIN sessions' = DOMAIN sessions
  BY TypeRotate
<1>2. ASSUME NEW s \in DOMAIN sessions
      PROVE  /\ sessions'[s].class = sessions[s].class
             /\ sessions'[s].active = sessions[s].active
             /\ sessions'[s].ended = sessions[s].ended
  <2>1. sessions'[s] = IF s \in ids
                       THEN [sessions[s] EXCEPT !.nonce = sessions[s].nonce + 1, !.fresh = TRUE]
                       ELSE sessions[s]
    BY DEF Rotate
  <2>2. sessions[s] \in Session
    BY Rows
  <2> QED
    BY <2>1, <2>2 DEF Session
<1> QED
  BY <1>1, <1>2 DEF SameFlags

\* All that End does, and all that StartCommit does.
LEMMA EndEffect ==
  ASSUME TypeOK, NEW s \in SessionIds, End(s)
  PROVE  /\ s \in DOMAIN sessions /\ DOMAIN sessions' = DOMAIN sessions
         /\ sessions'[s].class = sessions[s].class
         /\ ~sessions'[s].active /\ sessions'[s].ended
         /\ \A z \in DOMAIN sessions \ {s} : sessions'[z] = sessions[z]
<1>1. s \in DOMAIN sessions /\ sessions[s] \in Session
  BY Rows DEF End
<1>2. sessions' = [sessions EXCEPT ![s] = [sessions[s] EXCEPT !.active = FALSE, !.ended = TRUE]]
  BY DEF End
<1> QED
  BY <1>1, <1>2 DEF Session

LEMMA StartEffect ==
  ASSUME TypeOK, NEW r \in Requests, StartCommit(r)
  PROVE  LET new == Len(sessions) + 1
         IN  /\ DOMAIN sessions' = DOMAIN sessions \cup {new} /\ new \notin DOMAIN sessions
             /\ \A s \in DOMAIN sessions : s < new
             /\ sessions'[new] = NewSession(req[r].class)
             /\ \A s \in DOMAIN sessions :
                   /\ sessions'[s].class = sessions[s].class
                   /\ sessions'[s].ended = sessions[s].ended
                   /\ sessions'[s].active = (sessions[s].active /\ s \notin req[r].previous)
<1>0. req[r] \in StartRequest
  BY RequestKinds DEF StartCommit
<1> DEFINE closed == [s \in DOMAIN sessions |->
                        [sessions[s] EXCEPT !.active = @ /\ s \notin req[r].previous]]
           new == Len(sessions) + 1
<1>1. \A s \in DOMAIN sessions :
         /\ closed[s] \in Session
         /\ closed[s].class = sessions[s].class
         /\ closed[s].ended = sessions[s].ended
         /\ closed[s].active = (sessions[s].active /\ s \notin req[r].previous)
  BY Rows DEF Session
<1>2. closed \in [DOMAIN sessions -> Session]
  BY <1>1
<1>3. /\ closed \in Seq(Session) /\ Len(closed) = Len(sessions)
      /\ DOMAIN closed = DOMAIN sessions
  BY <1>2, SeqRewrite DEF TypeOK
<1>4. NewSession(req[r].class) \in Session
  BY <1>0 DEF NewSession, Session, StartRequest
<1>5. sessions' = Append(closed, NewSession(req[r].class))
  BY DEF StartCommit
<1> HIDE DEF closed
<1>6. /\ DOMAIN sessions' = 1..new
      /\ sessions'[new] = NewSession(req[r].class)
      /\ \A s \in DOMAIN sessions : sessions'[s] = closed[s]
  BY <1>3, <1>4, <1>5, AppendRow
<1>7. /\ DOMAIN sessions' = DOMAIN sessions \cup {new} /\ new \notin DOMAIN sessions
      /\ \A s \in DOMAIN sessions : s < new
  BY <1>6, Rows
<1> QED
  BY <1>1, <1>6, <1>7

\* Every step is one of these.
LEMMA SessionEffect ==
  ASSUME TypeOK, [Next]_vars
  PROVE  \/ SameFlags
         \/ \E s \in SessionIds : End(s)
         \/ \E r \in Requests : StartCommit(r)
<1>1. ASSUME UNCHANGED sessions
      PROVE  SameFlags
  BY <1>1 DEF SameFlags
<1>2. ASSUME NEW r \in Requests, SessionSteps(r), ~StartCommit(r)
      PROVE  SameFlags
  <2>1. CASE QrCommit(r)
    BY <2>1, RotateFlags DEF QrCommit
  <2>2. CASE ~QrCommit(r)
    BY <1>1, <1>2, <2>2 DEF SessionSteps, StartReads, StartFails, QrReads, QrFails
  <2> QED
    BY <2>1, <2>2
<1>3. ASSUME NEW r \in Requests, ScanSteps(r)
      PROVE  SameFlags
  BY <1>1, <1>3 DEF ScanSteps, ScanChecks, BeginScan, NotLocked, AlreadyLocked, LockMined,
                    LockRefused, LockUnconfirmed, LockMinedThenRaises, MirrorCommit, MirrorFails
<1>4. ASSUME NEW s \in SessionIds, NonceExpires(s)
      PROVE  SameFlags
  <2>1. s \in DOMAIN sessions /\ sessions[s] \in Session
    BY <1>4, Rows DEF NonceExpires
  <2>2. sessions' = [sessions EXCEPT ![s] = [sessions[s] EXCEPT !.fresh = FALSE]]
    BY <1>4 DEF NonceExpires
  <2> QED
    BY <2>1, <2>2 DEF SameFlags, Session
<1>5. CASE JobReads \/ JobFails \/ Crash \/ \E tx \in pending : MinePending(tx)
  BY <1>1, <1>5 DEF JobReads, JobFails, Crash, MinePending
<1>6. CASE JobCommit
  BY <1>6, RotateFlags DEF JobCommit
<1>7. CASE UNCHANGED vars
  BY <1>1, <1>7 DEF vars
<1> QED
  BY <1>2, <1>3, <1>4, <1>5, <1>6, <1>7 DEF Next

\* No step of any thread, not even one whose read is long out of date, revives
\* a session that was ended or replaced.
THEOREM ClosedStaysClosed == Spec => ClosedForGood
<1> DEFINE Step == \A s \in DOMAIN sessions :
                      /\ ~sessions[s].active => ~sessions'[s].active
                      /\ sessions[s].ended => sessions'[s].ended
<1>1. ASSUME TypeOK, [Next]_vars
      PROVE  Step
  <2>1. CASE SameFlags
    BY <2>1 DEF SameFlags
  <2>2. ASSUME NEW s \in SessionIds, End(s)
        PROVE  Step
    BY <1>1, <2>2, EndEffect
  <2>3. ASSUME NEW r \in Requests, StartCommit(r)
        PROVE  Step
    BY <1>1, <2>3, StartEffect
  <2> QED
    BY <1>1, <2>1, <2>2, <2>3, SessionEffect
<1>2. TypeOK /\ [Next]_vars => [Step]_vars
  BY <1>1
<1> QED
  BY <1>2, AttendanceTypeCorrect, PTL DEF Spec, ClosedForGood

\* A start closes sessions of its own class only, and only such that existed
\* when it read them.
StartsReadOwnClass ==
  \A r \in Requests : req[r].pc = "start" =>
     \A s \in req[r].previous : s \in DOMAIN sessions /\ sessions[s].class = req[r].class

NewestInv == NewestSessionLive /\ StartsReadOwnClass

LEMMA NewestInit == Init => NewestInv
  BY DEF Init, NewestInv, NewestSessionLive, StartsReadOwnClass, IdleRequest

LEMMA StartsNext ==
  ASSUME TypeOK, StartsReadOwnClass, [Next]_vars
  PROVE  StartsReadOwnClass'
<1>1. /\ DOMAIN sessions \subseteq DOMAIN sessions'
      /\ \A s \in DOMAIN sessions : sessions'[s].class = sessions[s].class
  <2>1. CASE SameFlags
    BY <2>1 DEF SameFlags
  <2>2. ASSUME NEW s \in SessionIds, End(s)
        PROVE  <1>1!1 /\ <1>1!2
    BY <2>2, EndEffect
  <2>3. ASSUME NEW r \in Requests, StartCommit(r)
        PROVE  <1>1!1 /\ <1>1!2
    BY <2>3, StartEffect
  <2> QED
    BY <2>1, <2>2, <2>3, SessionEffect
<1>2. ASSUME NEW r \in Requests, req'[r].pc = "start", req'[r] # req[r]
      PROVE  \A s \in req'[r].previous :
                s \in DOMAIN sessions /\ sessions[s].class = req'[r].class
  <2>1. ASSUME NEW q \in Requests, NEW c \in Classes, StartReads(q, c)
        PROVE  \A s \in req'[r].previous :
                  s \in DOMAIN sessions /\ sessions[s].class = req'[r].class
    <3>1. req' = [req EXCEPT ![q] =
                    [pc |-> "start", class |-> c,
                     previous |-> {s \in DOMAIN sessions :
                                      sessions[s].class = c /\ sessions[s].active}]]
      BY <2>1 DEF StartReads
    <3>2. r = q
      BY <1>2, <3>1 DEF TypeOK
    <3>3. req'[r] = [pc |-> "start", class |-> c,
                     previous |-> {s \in DOMAIN sessions :
                                      sessions[s].class = c /\ sessions[s].active}]
      BY <3>1, <3>2 DEF TypeOK
    <3> QED
      BY <3>3
  <2>2. ASSUME NEW q \in Requests,
               \/ StartCommit(q) \/ StartFails(q) \/ QrCommit(q) \/ QrFails(q)
               \/ \E s \in SessionIds : QrReads(q, s)
        PROVE  FALSE
    BY <1>2, <2>2 DEF StartCommit, StartFails, QrCommit, QrFails, QrReads, Finish, IdleRequest, TypeOK
  <2>3. ASSUME NEW q \in Requests, ScanSteps(q)
        PROVE  FALSE
    <3>1. CASE Finish(q)
      BY <1>2, <3>1 DEF Finish, IdleRequest, TypeOK
    <3>2. CASE \E st \in Students, s \in DOMAIN sessions :
                  \E nonce \in 0..sessions[s].nonce : ScanChecks(q, st, s, nonce)
      BY <1>2, <3>2 DEF ScanChecks, BeginScan, TypeOK
    <3>3. CASE NotLocked(q) \/ LockMined(q)
      <4>1. req[q] \in ScanRequest
        BY <3>3, RequestKinds DEF NotLocked, LockMined
      <4> QED
        BY <1>2, <3>3, <4>1 DEF NotLocked, LockMined, ScanRequest, TypeOK
    <3> QED
      BY <2>3, <3>1, <3>2, <3>3 DEF ScanSteps, AlreadyLocked, LockRefused, LockUnconfirmed,
         LockMinedThenRaises, MirrorCommit, MirrorFails
  <2>4. CASE \/ \E s \in SessionIds : End(s) \/ NonceExpires(s)
             \/ JobReads \/ JobCommit \/ JobFails
             \/ \E tx \in pending : MinePending(tx)
             \/ UNCHANGED vars
    BY <1>2, <2>4 DEF End, NonceExpires, JobReads, JobCommit, JobFails, MinePending, vars
  <2>5. CASE Crash
    BY <1>2, <2>5 DEF Crash, IdleRequest
  <2> QED
    BY <2>1, <2>2, <2>3, <2>4, <2>5 DEF Next, SessionSteps
<1>3. ASSUME NEW r \in Requests, req'[r].pc = "start", NEW s \in req'[r].previous
      PROVE  s \in DOMAIN sessions /\ sessions[s].class = req'[r].class
  BY <1>2, <1>3 DEF StartsReadOwnClass
<1> QED
  BY <1>1, <1>3 DEF StartsReadOwnClass

LEMMA NewestNext == TypeOK /\ NewestInv /\ [Next]_vars => NewestInv'
<1> SUFFICES ASSUME TypeOK, NewestInv, [Next]_vars
             PROVE  NewestSessionLive'
  BY StartsNext DEF NewestInv
<1>1. CASE SameFlags
  BY <1>1 DEF SameFlags, NewestInv, NewestSessionLive
<1>2. ASSUME NEW s \in SessionIds, End(s)
      PROVE  NewestSessionLive'
  <2>1. \A z \in DOMAIN sessions : sessions'[z].class = sessions[z].class
    BY <1>2, EndEffect
  <2> QED
    BY <1>2, <2>1, EndEffect DEF NewestInv, NewestSessionLive
<1>3. ASSUME NEW r \in Requests, StartCommit(r)
      PROVE  NewestSessionLive'
  <2> DEFINE new == Len(sessions) + 1
  <2>1. /\ DOMAIN sessions' = DOMAIN sessions \cup {new}
        /\ \A s \in DOMAIN sessions : s < new
        /\ sessions'[new] = NewSession(req[r].class)
        /\ \A s \in DOMAIN sessions :
              /\ sessions'[s].class = sessions[s].class
              /\ sessions'[s].ended = sessions[s].ended
              /\ sessions'[s].active = (sessions[s].active /\ s \notin req[r].previous)
    BY <1>3, StartEffect
  <2>2. req[r].pc = "start"
    BY <1>3 DEF StartCommit
  <2>3. ASSUME NEW s \in DOMAIN sessions',
               \A z \in DOMAIN sessions' : sessions'[z].class = sessions'[s].class => z <= s
        PROVE  sessions'[s].active <=> ~sessions'[s].ended
    <3>1. CASE s = new
      BY <2>1, <3>1 DEF NewSession
    <3>2. CASE s # new
      <4>1. s \in DOMAIN sessions /\ ~(new <= s)
        BY <2>1, <3>2, Rows
      <4>2. sessions[s].class # req[r].class
        BY <2>1, <2>3, <4>1 DEF NewSession
      <4>3. s \notin req[r].previous
        BY <2>2, <4>2 DEF NewestInv, StartsReadOwnClass
      <4>4. \A z \in DOMAIN sessions : sessions[z].class = sessions[s].class => z <= s
        BY <2>1, <2>3, <4>1
      <4> QED
        BY <2>1, <4>1, <4>3, <4>4 DEF NewestInv, NewestSessionLive
    <3> QED
      BY <3>1, <3>2
  <2> QED
    BY <2>3 DEF NewestSessionLive
<1> QED
  BY <1>1, <1>2, <1>3, SessionEffect

\* However starts of one class overlap, the newest session of a class is open
\* until it is ended.
THEOREM NewestIsLive == Spec => []NewestSessionLive
<1>1. Init => TypeOK /\ NewestInv
  BY TypeInit, NewestInit
<1>2. TypeOK /\ NewestInv /\ [Next]_vars => (TypeOK /\ NewestInv)'
  BY TypeNext, NewestNext
<1>3. NewestInv => NewestSessionLive
  BY DEF NewestInv
<1> QED
  BY <1>1, <1>2, <1>3, PTL DEF Spec

-----------------------------------------------------------------------------
(* The attendance of a closed session settles *)

\* What SettledIsFinal asks of a step, for one session.
Settles(s) ==
  ~sessions[s].active /\ ~InFlight(s) =>
     ~InFlight(s)' /\ locked'[s] = locked[s] /\ checkIns'[s] = checkIns[s]

\* A step that puts no thread to a scan of the session, sends nothing and
\* writes neither the chain nor the roster.
LEMMA SettlesQuiet ==
  ASSUME TypeOK, NEW s \in DOMAIN sessions, UNCHANGED <<locked, checkIns>>,
         pending' \subseteq pending,
         \A r \in Requests :
            req'[r].pc \in {"isLocked", "lock", "mirror"} /\ req'[r].session = s =>
               req[r].pc \in {"isLocked", "lock", "mirror"} /\ req[r].session = s
  PROVE  Settles(s)
  BY DEF Settles, InFlight

\* A thread at work on a scan works for a session that is in flight.
LEMMA SettlesScan ==
  ASSUME TypeOK, NEW s \in DOMAIN sessions, NEW r \in Requests, ScanSteps(r)
  PROVE  Settles(s)
<1>0. s \in SessionIds
  BY Rows
<1>1. ASSUME NEW st \in Students, NEW z \in DOMAIN sessions, NEW nonce, ScanChecks(r, st, z, nonce)
      PROVE  Settles(s)
  <2>1. /\ sessions[z].active
        /\ req' = [req EXCEPT ![r] = [pc |-> "isLocked", student |-> st, session |-> z]]
        /\ UNCHANGED <<locked, checkIns, pending>>
    BY <1>1 DEF ScanChecks, BeginScan, chainVars
  <2>2. CASE z = s
    BY <2>1, <2>2 DEF Settles
  <2>3. CASE z # s
    BY <2>1, <2>3, SettlesQuiet DEF TypeOK
  <2> QED
    BY <2>2, <2>3
<1>2. CASE req[r].pc \in {"isLocked", "lock", "mirror"}
  <2>1. req[r] \in ScanRequest
    BY <1>2, RequestKinds
  <2>2. CASE req[r].session = s
    BY <1>2, <2>2 DEF Settles, InFlight
  <2>3. CASE req[r].session # s
    <3>1. CASE NotLocked(r)
      <4>1. UNCHANGED <<locked, checkIns, pending>>
        BY <3>1 DEF NotLocked, chainVars
      <4>2. \A q \in Requests :
               req'[q].pc \in {"isLocked", "lock", "mirror"} /\ req'[q].session = s =>
                  req'[q] = req[q]
        BY <2>1, <2>3, <3>1 DEF NotLocked, ScanRequest, TypeOK
      <4> QED
        BY <4>1, <4>2, SettlesQuiet
    <3>2. CASE AlreadyLocked(r) \/ LockRefused(r) \/ MirrorFails(r)
      <4>1. UNCHANGED <<locked, checkIns, pending>> /\ Finish(r)
        BY <3>2 DEF AlreadyLocked, LockRefused, MirrorFails, chainVars
      <4>2. \A q \in Requests :
               req'[q].pc \in {"isLocked", "lock", "mirror"} => req'[q] = req[q]
        BY <4>1 DEF Finish, IdleRequest, TypeOK
      <4> QED
        BY <4>1, <4>2, SettlesQuiet
    <3>3. CASE LockMined(r) \/ LockMinedThenRaises(r)
      <4>1. locked'[s] = locked[s] /\ pending' = pending /\ checkIns' = checkIns
        <5>1. Mine(req[r].student, req[r].session)
          BY <3>3 DEF LockMined, LockMinedThenRaises
        <5>2. locked' = [locked EXCEPT ![req[r].session] = @ \cup {req[r].student}]
          BY <5>1, Locks
        <5> QED
          BY <2>3, <3>3, <5>2, <1>0 DEF LockMined, LockMinedThenRaises, TypeOK
      <4>2. \A q \in Requests :
               req'[q].pc \in {"isLocked", "lock", "mirror"} /\ req'[q].session = s =>
                  req'[q] = req[q]
        BY <2>1, <2>3, <3>3 DEF LockMined, LockMinedThenRaises, Finish, IdleRequest,
              ScanRequest, TypeOK
      <4> QED
        BY <4>1, <4>2 DEF Settles, InFlight
    <3>4. CASE LockUnconfirmed(r)
      <4>1. /\ locked' = locked /\ checkIns' = checkIns
            /\ \A tx \in pending' : tx \in pending \/ tx.session # s
        BY <2>3, <3>4 DEF LockUnconfirmed
      <4>2. \A q \in Requests :
               req'[q].pc \in {"isLocked", "lock", "mirror"} => req'[q] = req[q]
        BY <3>4 DEF LockUnconfirmed, Finish, IdleRequest, TypeOK
      <4> QED
        BY <4>1, <4>2 DEF Settles, InFlight
    <3>5. CASE MirrorCommit(r)
      <4>1. /\ locked' = locked /\ pending' = pending
            /\ checkIns'[s] = checkIns[s]
        BY <2>3, <3>5, <1>0 DEF MirrorCommit, chainVars, TypeOK
      <4>2. \A q \in Requests :
               req'[q].pc \in {"isLocked", "lock", "mirror"} => req'[q] = req[q]
        BY <3>5 DEF MirrorCommit, Finish, IdleRequest, TypeOK
      <4> QED
        BY <4>1, <4>2 DEF Settles, InFlight
    <3>6. \/ NotLocked(r) \/ AlreadyLocked(r) \/ LockMined(r) \/ LockRefused(r)
          \/ LockUnconfirmed(r) \/ LockMinedThenRaises(r) \/ MirrorCommit(r) \/ MirrorFails(r)
      <4>1. ~\E st \in Students, z \in DOMAIN sessions :
                \E nonce \in 0..sessions[z].nonce : ScanChecks(r, st, z, nonce)
        BY <1>2 DEF ScanChecks
      <4> QED
        BY <4>1 DEF ScanSteps
    <3> QED
      BY <3>1, <3>2, <3>3, <3>4, <3>5, <3>6
  <2> QED
    BY <2>2, <2>3
<1>3. CASE req[r].pc \notin {"isLocked", "lock", "mirror"}
  <2>1. \E st \in Students, z \in DOMAIN sessions :
           \E nonce \in 0..sessions[z].nonce : ScanChecks(r, st, z, nonce)
    BY <1>3 DEF ScanSteps, NotLocked, AlreadyLocked, LockMined, LockRefused, LockUnconfirmed,
          LockMinedThenRaises, MirrorCommit, MirrorFails
  <2> QED
    BY <1>1, <2>1
<1> QED
  BY <1>2, <1>3

LEMMA SettlesNext ==
  ASSUME TypeOK, [Next]_vars, NEW s \in DOMAIN sessions
  PROVE  Settles(s)
<1>1. ASSUME NEW r \in Requests, SessionSteps(r)
      PROVE  Settles(s)
  <2>1. /\ UNCHANGED <<locked, checkIns, pending>>
        /\ \A q \in Requests :
              req'[q].pc \in {"isLocked", "lock", "mirror"} => req'[q] = req[q]
    BY <1>1 DEF SessionSteps, StartReads, StartCommit, StartFails, QrReads, QrCommit, QrFails,
          Finish, IdleRequest, chainVars, TypeOK
  <2> QED
    BY <2>1, SettlesQuiet
<1>2. CASE \/ \E z \in SessionIds : End(z) \/ NonceExpires(z)
           \/ JobReads \/ JobCommit \/ JobFails \/ UNCHANGED vars
  <2>1. UNCHANGED <<locked, checkIns, pending, req>>
    BY <1>2 DEF End, NonceExpires, JobReads, JobCommit, JobFails, vars, chainVars
  <2> QED
    BY <2>1, SettlesQuiet
<1>3. CASE Crash
  BY <1>3, SettlesQuiet DEF Crash, IdleRequest, chainVars
<1>4. ASSUME NEW tx \in pending, MinePending(tx)
      PROVE  Settles(s)
  <2>1. s \in SessionIds
    BY Rows
  <2>2. CASE tx.session = s
    BY <2>2 DEF Settles, InFlight
  <2>3. CASE tx.session # s
    <3>1. locked'[s] = locked[s]
      <4>1. CASE Mine(tx.student, tx.session)
        <5>1. locked' = [locked EXCEPT ![tx.session] = @ \cup {tx.student}]
          BY <4>1, Locks
        <5> QED
          BY <2>1, <2>3, <5>1 DEF TypeOK
      <4>2. CASE locked' = locked
        BY <4>2
      <4> QED
        BY <1>4, <4>1, <4>2 DEF MinePending
    <3> QED
      BY <1>4, <3>1 DEF MinePending, Settles, InFlight
  <2> QED
    BY <2>2, <2>3
<1> QED
  BY <1>1, <1>2, <1>3, <1>4, SettlesScan DEF Next

\* Once the last scan of a closed session is through, nothing changes its
\* attendance, on the chain or on the roster: neither a new scan nor an old
\* transaction can appear.
THEOREM AttendanceSettles == Spec => SettledIsFinal
<1> DEFINE Step == \A s \in DOMAIN sessions :
                      ~sessions[s].active /\ ~InFlight(s) =>
                         /\ ~InFlight(s)'
                         /\ locked'[s] = locked[s] /\ checkIns'[s] = checkIns[s]
<1>1. ASSUME TypeOK, [Next]_vars
      PROVE  Step
  BY <1>1, SettlesNext DEF Settles
<1>2. TypeOK /\ [Next]_vars => [Step]_vars
  BY <1>1
<1> QED
  BY <1>2, AttendanceTypeCorrect, PTL DEF Spec, SettledIsFinal
=============================================================================
