-------------------------- MODULE LiveRosterProofs --------------------------
(***************************************************************************)
(* LiveRoster for any set of students and any number of connections, lost  *)
(* at any step: type correctness, and the panel that shows exactly the     *)
(* roster once it has caught up.                                           *)
(***************************************************************************)
EXTENDS LiveRoster, TLAPS

(***************************************************************************)
(* The inductive invariant, in four parts.                                 *)
(***************************************************************************)

\* Whatever names a student, on its way to the browser or there, names one who
\* has checked in.
Genuine ==
    /\ rows \subseteq checkIns
    /\ toEmit \subseteq checkIns \cup {Ended}
    /\ inbox \subseteq checkIns \cup {Joined, Ended}
    /\ \A load \in loads : load.answer \subseteq checkIns

\* A panel that is live is in its room; a card that has closed does not come
\* back.
Connected ==
    /\ joining \/ room => link = "up"
    /\ Joined \in inbox => room
    /\ Mounted /\ status = "live" => room
    /\ endCall # "none" => ending
    /\ ~Mounted => endCall = "none"

\* One load at most is the last, and it is in flight exactly while the panel
\* waits for it.
OneLast ==
    /\ caughtUp = "out" <=> \E load \in loads : load.last
    /\ \A l1, l2 \in loads : l1.last /\ l2.last => l1 = l2

\* What a live panel does not show yet is on its way to it: as an event, or in
\* the answer of the last load, unless that load failed.
OnItsWay(st) ==
    \/ st \in rows \cup toEmit \cup inbox
    \/ \E load \in loads : load.last /\ (load.answered => st \in load.answer)

NothingLost ==
    Mounted /\ status = "live" /\ caughtUp # "failed" => \A st \in checkIns : OnItsWay(st)

RosterInv == TypeOK /\ Genuine /\ Connected /\ OneLast /\ NothingLost

-----------------------------------------------------------------------------
(* Loads *)

LEMMA EventNames == Joined \notin Students /\ Ended \notin Students /\ Joined # Ended
  BY EventsApart DEF Joined, Ended

LEMMA AnsweredLoad ==
  ASSUME NEW load \in Load, NEW answer \in SUBSET Students
  PROVE  LET l == [load EXCEPT !.answered = TRUE, !.answer = answer]
         IN  l \in Load /\ l.last = load.last /\ l.answered /\ l.answer = answer
  BY DEF Load

LEMMA OlderLoad ==
  ASSUME NEW load \in Load, NEW l, l = [load EXCEPT !.last = FALSE]
  PROVE  l \in Load /\ ~l.last /\ l.answered = load.answered /\ l.answer = load.answer
  BY DEF Load

LEMMA FreshLoad ==
  ASSUME NEW last \in BOOLEAN
  PROVE  /\ NewLoad(last) \in Load
         /\ NewLoad(last).last = last /\ ~NewLoad(last).answered /\ NewLoad(last).answer = {}
  BY DEF NewLoad, Load

\* What ReceiveJoined leaves in flight.
LEMMA LoadsAfterJoin ==
  ASSUME TypeOK, ReceiveJoined
  PROVE  /\ loads' \in SUBSET Load
         /\ NewLoad(TRUE) \in loads'
         /\ \A l \in loads' \ {NewLoad(TRUE)} :
               ~l.last /\ \E load \in loads : l.answer = load.answer
<1>1. loads' = {[load EXCEPT !.last = FALSE] : load \in loads} \cup {NewLoad(TRUE)}
  BY DEF ReceiveJoined
<1>2. ASSUME NEW load \in loads, NEW l, l = [load EXCEPT !.last = FALSE]
      PROVE  l \in Load /\ ~l.last /\ l.answer = load.answer
  BY <1>2, OlderLoad DEF TypeOK
<1> QED
  BY <1>1, <1>2, FreshLoad

-----------------------------------------------------------------------------
(* Types *)

LEMMA RosterTypeInit == Init => TypeOK
<1>1. 0 \in 0..MaxConnects
  BY ConnectsBound
<1>2. {NewLoad(FALSE)} \in SUBSET Load
  BY FreshLoad
<1> QED
  BY <1>1, <1>2 DEF Init, TypeOK

LEMMA LoseLinkTypes ==
  ASSUME TypeOK, LoseLink
  PROVE  /\ link' = "down" /\ ~room' /\ ~joining' /\ inbox' = {}
         /\ status' \in {"connecting", "live", "reconnecting"}
         /\ UNCHANGED <<connects, loads, caughtUp, rows, view, endCall, ending>>
  BY DEF TypeOK, LoseLink, loadVars, viewVars

LEMMA RosterTypeStep == TypeOK /\ [Next]_vars => TypeOK'
<1> SUFFICES ASSUME TypeOK, [Next]_vars
             PROVE  TypeOK'
  OBVIOUS
<1> USE DEF serverVars, socketVars, loadVars, viewVars, TypeOK
<1>1. ASSUME NEW st \in Students, CheckIn(st) \/ ReceiveCheckedIn(st)
      PROVE  TypeOK'
  BY <1>1 DEF CheckIn, ReceiveCheckedIn, Receive
<1>2. CASE EndElsewhere \/ Replaced \/ EndOwn
  <2>1. /\ toEmit' \in SUBSET (Students \cup {Ended}) /\ inactive' = TRUE
        /\ endCall' \in {"none", "sent", "answered"}
        /\ UNCHANGED <<checkIns, socketVars, loadVars, rows, status, view, ending>>
    BY <1>2 DEF EndElsewhere, Replaced, EndOwn
  <2> QED
    BY <2>1
<1>3. ASSUME NEW event \in Students \cup {Ended}, Emit(event)
      PROVE  TypeOK'
  BY <1>3 DEF Emit, Event
<1>4. CASE ServerJoins
  BY <1>4 DEF ServerJoins, Event
<1>4a. CASE Connect
  <2>1. connects' \in 0..MaxConnects
    BY <1>4a, ConnectsBound DEF Connect
  <2> QED
    BY <1>4a, <2>1 DEF Connect
<1>4b. CASE ConnectError
  BY <1>4b DEF ConnectError
<1>5. CASE Drop \/ Crash
  <2>1. LoseLink /\ toEmit' \in SUBSET (Students \cup {Ended})
        /\ UNCHANGED <<checkIns, inactive>>
    BY <1>5 DEF Drop, Crash
  <2> QED
    BY <2>1 DEF LoseLink
<1>6. CASE ReceiveJoined
  BY <1>6, LoadsAfterJoin DEF ReceiveJoined, Receive
<1>7. CASE ReceiveEnded
  BY <1>7, FreshLoad DEF ReceiveEnded, Receive
<1>8. ASSUME NEW load \in loads, Answer(load)
      PROVE  TypeOK'
  <2>1. [load EXCEPT !.answered = TRUE, !.answer = checkIns] \in Load
    BY AnsweredLoad
  <2> QED
    BY <1>8, <2>1 DEF Answer
<1>9. ASSUME NEW load \in loads, LoadArrives(load) \/ LoadFails(load)
      PROVE  TypeOK'
  <2>1. load.answer \in SUBSET Students
    BY DEF Load
  <2> QED
    BY <1>9, <2>1 DEF LoadArrives, LoadFails, Settled
<1>10. CASE PollSeesEnd \/ PressEnd \/ EndAnswered \/ EndCallFails
  BY <1>10 DEF PollSeesEnd, PressEnd, EndAnswered, EndCallFails
<1>11. CASE UNCHANGED vars
  BY <1>11 DEF vars
<1> QED
  BY <1>1, <1>2, <1>3, <1>4, <1>4a, <1>4b, <1>5, <1>6, <1>7, <1>8, <1>9, <1>10, <1>11 DEF Next

\* Every state of the server, the connection and the browser is well typed.
THEOREM RosterTypeCorrect == Spec => []TypeOK
  BY RosterTypeInit, RosterTypeStep, PTL DEF Spec

-----------------------------------------------------------------------------
(* The inductive invariant *)

LEMMA RosterInit == Init => RosterInv
<1> SUFFICES ASSUME Init
             PROVE  RosterInv
  OBVIOUS
<1>1. TypeOK
  BY RosterTypeInit
<1>2. loads = {NewLoad(FALSE)} /\ ~NewLoad(FALSE).last /\ NewLoad(FALSE).answer = {}
  BY FreshLoad DEF Init
<1>3. Genuine
  BY <1>2 DEF Init, Genuine
<1>4. Connected /\ NothingLost
  BY DEF Init, Connected, NothingLost, Mounted
<1>5. OneLast
  BY <1>2 DEF Init, OneLast
<1> QED
  BY <1>1, <1>3, <1>4, <1>5 DEF RosterInv

LEMMA GenuineStep == TypeOK /\ Genuine /\ [Next]_vars => Genuine'
<1> SUFFICES ASSUME TypeOK, Genuine, [Next]_vars
             PROVE  Genuine'
  OBVIOUS
<1> USE DEF serverVars, socketVars, loadVars, viewVars, Genuine
<1>1. ASSUME NEW st \in Students, CheckIn(st) \/ ReceiveCheckedIn(st)
      PROVE  Genuine'
  BY <1>1, EventNames DEF CheckIn, ReceiveCheckedIn, Receive
<1>2. CASE EndElsewhere \/ Replaced \/ EndOwn
  BY <1>2 DEF EndElsewhere, Replaced, EndOwn
<1>3. ASSUME NEW event \in Students \cup {Ended}, Emit(event)
      PROVE  Genuine'
  BY <1>3 DEF Emit
<1>4. CASE ServerJoins \/ Connect \/ ConnectError
  BY <1>4 DEF ServerJoins, Connect, ConnectError
<1>5. CASE Drop \/ Crash
  BY <1>5 DEF Drop, Crash, LoseLink
<1>6. CASE ReceiveJoined
  <2>1. \A l \in loads' : l.answer \subseteq checkIns
    BY <1>6, LoadsAfterJoin, FreshLoad
  <2> QED
    BY <1>6, <2>1 DEF ReceiveJoined, Receive
<1>7. CASE ReceiveEnded
  BY <1>7, FreshLoad DEF ReceiveEnded, Receive
<1>8. ASSUME NEW load \in loads, Answer(load)
      PROVE  Genuine'
  <2>1. [load EXCEPT !.answered = TRUE, !.answer = checkIns].answer = checkIns
    BY AnsweredLoad DEF TypeOK
  <2> QED
    BY <1>8, <2>1 DEF Answer
<1>9. ASSUME NEW load \in loads, LoadArrives(load) \/ LoadFails(load)
      PROVE  Genuine'
  BY <1>9 DEF LoadArrives, LoadFails, Settled
<1>10. CASE PollSeesEnd \/ PressEnd \/ EndAnswered \/ EndCallFails
  BY <1>10 DEF PollSeesEnd, PressEnd, EndAnswered, EndCallFails
<1>11. CASE UNCHANGED vars
  BY <1>11 DEF vars
<1> QED
  BY <1>1, <1>2, <1>3, <1>4, <1>5, <1>6, <1>7, <1>8, <1>9, <1>10, <1>11 DEF Next

LEMMA ConnectedStep == TypeOK /\ Connected /\ [Next]_vars => Connected'
<1> SUFFICES ASSUME TypeOK, Connected, [Next]_vars
             PROVE  Connected'
  OBVIOUS
<1> USE DEF serverVars, socketVars, loadVars, viewVars, Connected, Mounted
<1>1. ASSUME NEW st \in Students, CheckIn(st) \/ ReceiveCheckedIn(st)
      PROVE  Connected'
  BY <1>1, EventNames DEF CheckIn, ReceiveCheckedIn, Receive
<1>2. CASE EndElsewhere \/ Replaced \/ EndOwn
  BY <1>2 DEF EndElsewhere, Replaced, EndOwn
<1>3. ASSUME NEW event \in Students \cup {Ended}, Emit(event)
      PROVE  Connected'
  BY <1>3, EventNames DEF Emit
<1>4. CASE ServerJoins \/ Connect \/ ConnectError
  BY <1>4 DEF ServerJoins, Connect, ConnectError
<1>5. CASE Drop \/ Crash
  BY <1>5 DEF Drop, Crash, LoseLink, TypeOK
<1>6. CASE ReceiveJoined
  BY <1>6 DEF ReceiveJoined, Receive
<1>6a. CASE ReceiveEnded
  BY <1>6a DEF ReceiveEnded, Receive
<1>7. ASSUME NEW load \in loads, Answer(load) \/ LoadArrives(load) \/ LoadFails(load)
      PROVE  Connected'
  BY <1>7 DEF Answer, LoadArrives, LoadFails, Settled
<1>8. CASE PollSeesEnd \/ PressEnd \/ EndAnswered \/ EndCallFails
  BY <1>8 DEF PollSeesEnd, PressEnd, EndAnswered, EndCallFails
<1>9. CASE UNCHANGED vars
  BY <1>9 DEF vars
<1> QED
  BY <1>1, <1>2, <1>3, <1>4, <1>5, <1>6, <1>6a, <1>7, <1>8, <1>9 DEF Next

LEMMA OneLastStep == TypeOK /\ OneLast /\ [Next]_vars => OneLast'
<1> SUFFICES ASSUME TypeOK, OneLast, [Next]_vars
             PROVE  OneLast'
  OBVIOUS
<1> USE DEF serverVars, socketVars, loadVars, viewVars, OneLast
<1>1. ASSUME NEW st \in Students, CheckIn(st) \/ ReceiveCheckedIn(st)
      PROVE  OneLast'
  BY <1>1 DEF CheckIn, ReceiveCheckedIn
<1>2. CASE EndElsewhere \/ Replaced \/ EndOwn \/ ServerJoins \/ Connect \/ ConnectError
  BY <1>2 DEF EndElsewhere, Replaced, EndOwn, ServerJoins, Connect, ConnectError
<1>3. ASSUME NEW event \in Students \cup {Ended}, Emit(event)
      PROVE  OneLast'
  BY <1>3 DEF Emit
<1>4. CASE Drop \/ Crash
  BY <1>4 DEF Drop, Crash, LoseLink
<1>5. CASE ReceiveJoined
  BY <1>5, LoadsAfterJoin, FreshLoad DEF ReceiveJoined
<1>6. CASE ReceiveEnded
  BY <1>6, FreshLoad DEF ReceiveEnded
<1>7. ASSUME NEW load \in loads, Answer(load)
      PROVE  OneLast'
  <2> DEFINE l == [load EXCEPT !.answered = TRUE, !.answer = checkIns]
  <2>0. load \in Load /\ checkIns \in SUBSET Students
    BY DEF TypeOK
  <2>1. l.last = load.last
    BY <2>0, AnsweredLoad
  <2>2. loads' = (loads \ {load}) \cup {l} /\ caughtUp' = caughtUp
    BY <1>7 DEF Answer
  <2> HIDE DEF l
  <2> QED
    BY <2>1, <2>2
<1>8. ASSUME NEW load \in loads, LoadArrives(load) \/ LoadFails(load)
      PROVE  OneLast'
  BY <1>8 DEF LoadArrives, LoadFails, Settled
<1>9. CASE PollSeesEnd \/ PressEnd \/ EndAnswered \/ EndCallFails
  BY <1>9 DEF PollSeesEnd, PressEnd, EndAnswered, EndCallFails
<1>10. CASE UNCHANGED vars
  BY <1>10 DEF vars
<1> QED
  BY <1>1, <1>2, <1>3, <1>4, <1>5, <1>6, <1>7, <1>8, <1>9, <1>10 DEF Next

LEMMA NothingLostStep == RosterInv /\ [Next]_vars => NothingLost'
<1> SUFFICES ASSUME RosterInv, [Next]_vars, Mounted', status' = "live", caughtUp' # "failed",
                    NEW st \in checkIns'
             PROVE  OnItsWay(st)'
  BY DEF NothingLost
<1>0. TypeOK /\ Genuine /\ Connected /\ OneLast
      /\ (Mounted /\ status = "live" /\ caughtUp # "failed" /\ st \in checkIns => OnItsWay(st))
  BY DEF RosterInv, NothingLost
<1> USE DEF serverVars, socketVars, loadVars, viewVars, Mounted
<1>1. ASSUME NEW s \in Students, CheckIn(s) \/ ReceiveCheckedIn(s)
      PROVE  OnItsWay(st)'
  BY <1>0, <1>1 DEF CheckIn, ReceiveCheckedIn, Receive, OnItsWay
<1>2. CASE EndElsewhere \/ Replaced \/ EndOwn
  BY <1>0, <1>2 DEF EndElsewhere, Replaced, EndOwn, OnItsWay
<1>3. ASSUME NEW event \in Students \cup {Ended}, Emit(event)
      PROVE  OnItsWay(st)'
  BY <1>0, <1>3 DEF Emit, OnItsWay, Connected
<1>4. CASE ServerJoins \/ Connect \/ ConnectError
  BY <1>0, <1>4 DEF ServerJoins, Connect, ConnectError, OnItsWay
<1>5. CASE Drop \/ Crash
  BY <1>0, <1>5 DEF Drop, Crash, LoseLink, Connected, TypeOK
<1>6. CASE ReceiveJoined
  BY <1>0, <1>6, LoadsAfterJoin, FreshLoad DEF OnItsWay
<1>7. CASE ReceiveEnded
  <2>1. st \in Students /\ Ended \notin Students
    BY <1>0, <1>7, EventNames DEF ReceiveEnded, TypeOK
  <2> QED
    BY <1>0, <1>7, <2>1 DEF ReceiveEnded, Receive, OnItsWay
<1>8. ASSUME NEW load \in loads, Answer(load)
      PROVE  OnItsWay(st)'
  <2> DEFINE l == [load EXCEPT !.answered = TRUE, !.answer = checkIns]
  <2>0. load \in Load /\ checkIns \in SUBSET Students
    BY <1>0 DEF TypeOK
  <2>1. l.last = load.last /\ l.answer = checkIns
    BY <2>0, AnsweredLoad
  <2>2. loads' = (loads \ {load}) \cup {l}
        /\ UNCHANGED <<caughtUp, rows, toEmit, inbox, checkIns, view, status>>
    BY <1>8 DEF Answer
  <2> HIDE DEF l
  <2> QED
    BY <1>0, <2>1, <2>2 DEF OnItsWay
<1>9. ASSUME NEW load \in loads, LoadArrives(load)
      PROVE  OnItsWay(st)'
  <2>1. caughtUp = "failed" => ~load.last
    BY <1>0 DEF OneLast
  <2> QED
    BY <1>0, <1>9, <2>1 DEF LoadArrives, Settled, OnItsWay, OneLast
<1>10. ASSUME NEW load \in loads, LoadFails(load)
       PROVE  OnItsWay(st)'
  BY <1>0, <1>10 DEF LoadFails, Settled, OnItsWay
<1>11. CASE PollSeesEnd \/ PressEnd \/ EndAnswered \/ EndCallFails
  BY <1>0, <1>11 DEF PollSeesEnd, PressEnd, EndAnswered, EndCallFails, OnItsWay, Connected
<1>12. CASE UNCHANGED vars
  BY <1>0, <1>12 DEF vars, OnItsWay
<1> QED
  BY <1>1, <1>2, <1>3, <1>4, <1>5, <1>6, <1>7, <1>8, <1>9, <1>10, <1>11, <1>12 DEF Next

\* However often the connection is lost or the server restarts, and in whatever
\* order the load, the join and the events come through: a live panel that has
\* caught up and waits for nothing shows exactly the roster.
THEOREM PanelCatchesUp == Spec => []CaughtUp
<1>1. RosterInv /\ [Next]_vars => RosterInv'
  BY RosterTypeStep, GenuineStep, ConnectedStep, OneLastStep, NothingLostStep DEF RosterInv
<1>2. RosterInv => CaughtUp
  <2> SUFFICES ASSUME RosterInv
               PROVE  CaughtUp
    OBVIOUS
  <2>1. ASSUME Mounted, status = "live", toEmit = {}, inbox = {}, caughtUp = "done"
        PROVE  checkIns \subseteq rows
    BY <2>1 DEF RosterInv, NothingLost, OnItsWay, OneLast
  <2> QED
    BY <2>1 DEF RosterInv, Genuine, CaughtUp
<1> QED
  BY <1>1, <1>2, RosterInit, PTL DEF Spec
=============================================================================
