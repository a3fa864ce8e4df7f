----------------------------- MODULE LiveRoster -----------------------------
(***************************************************************************)
(* The live view of one attendance session: the server's room and emits    *)
(* (app/sockets.py), GET /session/<id>/attendees, and the browser's        *)
(* LiveAttendancePanel.jsx and LiveSessionCard.jsx.                        *)
(*                                                                         *)
(* The viewer is signed in and may watch the session.  What reaches the    *)
(* roster table is Attendance's business; here rows appear at any time, as *)
(* they may even after the session was ended.                              *)
(***************************************************************************)
EXTENDS Naturals

CONSTANTS
    Students,    \* students who check in
    MaxConnects  \* bound: connections the socket ever makes

ASSUME ConnectsBound == MaxConnects \in Nat \ {0}
ASSUME EventsApart == Students \cap {"joined", "session_ended"} = {}

VARIABLES
    checkIns,   \* server: the session's attendance_check_ins
    inactive,   \* server: the session's is_active is false
    toEmit,     \* server: emits that requests still have to make
    room,       \* server: the viewer's socket is in session:<id>
    link,       \* the socket's transport
    connects,   \* connections made so far
    joining,    \* join_session is on its way to the server
    inbox,      \* events on their way to the browser
    loads,      \* GET /attendees calls in flight
    caughtUp,   \* what became of the load made at the last join
    rows,       \* browser: the roster shown
    status,     \* browser: the panel's status
    view,       \* browser: what the session card does
    endCall,    \* browser: the card's own POST /end
    ending      \* browser: endingRef

serverVars == <<checkIns, inactive, toEmit>>
socketVars == <<room, link, connects, joining, inbox>>
viewVars == <<view, endCall, ending>>
loadVars == <<loads, caughtUp>>
vars == <<serverVars, socketVars, loadVars, rows, status, viewVars>>

Joined == "joined"
Ended == "session_ended"
Event == Students \cup {Joined, Ended}  \* a student: "student_checked_in"

\* A load is unanswered until the server reads the roster for it, and its
\* answer is the roster at that moment.  Loads are merged into what the panel
\* shows, so two in flight that are alike count as one.
Load == [last : BOOLEAN, answered : BOOLEAN, answer : SUBSET Students]
NewLoad(last) == [last |-> last, answered |-> FALSE, answer |-> {}]

TypeOK ==
    /\ checkIns \in SUBSET Students /\ rows \in SUBSET Students
    /\ inactive \in BOOLEAN /\ room \in BOOLEAN /\ joining \in BOOLEAN
    /\ toEmit \in SUBSET (Students \cup {Ended})
    /\ link \in {"down", "up"} /\ connects \in 0..MaxConnects
    /\ inbox \in SUBSET Event
    /\ loads \in SUBSET Load /\ caughtUp \in {"none", "out", "done", "failed"}
    /\ status \in {"connecting", "live", "reconnecting"}
    /\ view \in {"polling", "ended", "closed"}
    /\ endCall \in {"none", "sent", "answered"} /\ ending \in BOOLEAN

\* The card mounts: the panel opens its socket and loads the roster at once.
Init ==
    /\ checkIns = {} /\ rows = {}
    /\ inactive = FALSE /\ toEmit = {}
    /\ room = FALSE /\ link = "down" /\ connects = 0
    /\ joining = FALSE /\ inbox = {}
    /\ loads = {NewLoad(FALSE)} /\ caughtUp = "none"
    /\ status = "connecting"
    /\ view = "polling" /\ endCall = "none" /\ ending = FALSE

Mounted == view # "closed"

(***************************************************************************)
(* The server                                                              *)
(***************************************************************************)

\* A scan commits its row and emits afterwards.
CheckIn(st) ==
    /\ st \notin checkIns
    /\ checkIns' = checkIns \cup {st}
    /\ toEmit' = toEmit \cup {st}
    /\ UNCHANGED <<inactive, socketVars, loadVars, rows, status, viewVars>>

\* POST /end from another device.  Ending twice changes nothing and emits again.
EndElsewhere ==
    /\ inactive' = TRUE
    /\ toEmit' = toEmit \cup {Ended}
    /\ UNCHANGED <<checkIns, socketVars, loadVars, rows, status, viewVars>>

\* A newer session of the class replaces this one: nothing is emitted.
Replaced ==
    /\ inactive' = TRUE
    /\ UNCHANGED <<checkIns, toEmit, socketVars, loadVars, rows, status, viewVars>>

\* The card's own POST /end.
EndOwn ==
    /\ endCall = "sent"
    /\ endCall' = "answered"
    /\ inactive' = TRUE
    /\ toEmit' = toEmit \cup {Ended}
    /\ UNCHANGED <<checkIns, socketVars, loadVars, rows, status, view, ending>>

\* An emit that fails (_safe_emit swallows it) is left out: see README.md.
Emit(event) ==
    /\ event \in toEmit
    /\ toEmit' = toEmit \ {event}
    /\ inbox' = IF room THEN inbox \cup {event} ELSE inbox
    /\ UNCHANGED <<checkIns, inactive, room, link, connects, joining, loadVars, rows, status,
                   viewVars>>

\* join_session: join_room first, then the reply.
ServerJoins ==
    /\ joining
    /\ joining' = FALSE
    /\ room' = TRUE
    /\ inbox' = inbox \cup {Joined}
    /\ UNCHANGED <<serverVars, link, connects, loadVars, rows, status, viewVars>>

Answer(load) ==
    /\ ~load.answered
    /\ loads' = (loads \ {load}) \cup {[load EXCEPT !.answered = TRUE, !.answer = checkIns]}
    /\ UNCHANGED <<serverVars, socketVars, caughtUp, rows, status, viewVars>>

(***************************************************************************)
(* The transport                                                           *)
(***************************************************************************)

\* "connect": the panel joins its room again after every connection.
Connect ==
    /\ Mounted
    /\ link = "down" /\ connects < MaxConnects
    /\ link' = "up" /\ connects' = connects + 1
    /\ joining' = TRUE
    /\ status' = "connecting"
    /\ UNCHANGED <<serverVars, room, inbox, loadVars, rows, viewVars>>

ConnectError ==
    /\ Mounted /\ link = "down"
    /\ status' = "reconnecting"
    /\ UNCHANGED <<serverVars, socketVars, loadVars, rows, viewVars>>

LoseLink ==
    /\ link' = "down" /\ room' = FALSE /\ joining' = FALSE /\ inbox' = {}
    /\ status' = IF link = "up" THEN "reconnecting" ELSE status
    /\ UNCHANGED <<connects, loadVars, rows, viewVars>>

\* Only while the bound leaves another connection.
Drop ==
    /\ link = "up" /\ connects < MaxConnects
    /\ LoseLink
    /\ UNCHANGED serverVars

\* The server process dies: what it had committed stays, what it had not yet
\* emitted is lost.
Crash ==
    /\ connects < MaxConnects
    /\ LoseLink
    /\ toEmit' = {}
    /\ UNCHANGED <<checkIns, inactive>>

(***************************************************************************)
(* The browser                                                             *)
(***************************************************************************)

Receive(event) == Mounted /\ event \in inbox /\ inbox' = inbox \ {event}

\* A panel that trusts the live events once it has joined.
ReceiveJoinedWithoutLoad ==
    /\ Receive(Joined)
    /\ status' = "live"
    /\ UNCHANGED <<serverVars, room, link, connects, joining, loadVars, rows, viewVars>>

ReceiveJoined ==
    /\ Receive(Joined)
    /\ status' = "live"
    /\ loads' = {[load EXCEPT !.last = FALSE] : load \in loads} \cup {NewLoad(TRUE)}
    /\ caughtUp' = "out"
    /\ UNCHANGED <<serverVars, room, link, connects, joining, rows, viewVars>>

ReceiveCheckedIn(st) ==
    /\ Receive(st)
    /\ rows' = rows \cup {st}          \* mergeRows
    /\ UNCHANGED <<serverVars, room, link, connects, joining, loadVars, status, viewVars>>

ReceiveEnded ==
    /\ Receive(Ended)
    /\ view' = "ended"
    /\ loads' = loads \cup {NewLoad(FALSE)}
    /\ UNCHANGED <<serverVars, room, link, connects, joining, caughtUp, rows, status,
                   endCall, ending>>

Settled(load, outcome) ==
    /\ loads' = loads \ {load}
    /\ caughtUp' = IF load.last THEN outcome ELSE caughtUp

\* A load that replaces what the panel shows.
LoadArrivesReplacing(load) ==
    /\ Mounted /\ load.answered
    /\ Settled(load, "done")
    /\ rows' = load.answer
    /\ UNCHANGED <<serverVars, socketVars, status, viewVars>>

LoadArrives(load) ==
    /\ Mounted /\ load.answered
    /\ Settled(load, "done")
    /\ rows' = rows \cup load.answer   \* mergeRows
    /\ UNCHANGED <<serverVars, socketVars, status, viewVars>>

\* The panel shows a warning and does not try again.
LoadFails(load) ==
    /\ Settled(load, "failed")
    /\ UNCHANGED <<serverVars, socketVars, rows, status, viewVars>>

\* GET /session/<id>/qr answers 409 once the session is closed.  The card then
\* unmounts, with the panel and its socket, unless its own /end is in flight.
PollSeesEnd ==
    /\ view = "polling" /\ inactive
    /\ ~ending
    /\ view' = "closed"
    /\ link' = "down" /\ room' = FALSE /\ joining' = FALSE /\ inbox' = {}
    /\ UNCHANGED <<serverVars, connects, loadVars, rows, status, endCall, ending>>

PressEnd ==
    /\ view = "polling" /\ endCall = "none"
    /\ endCall' = "sent" /\ ending' = TRUE
    /\ UNCHANGED <<serverVars, socketVars, loadVars, rows, status, view>>

\* endingRef stays set.
EndAnswered ==
    /\ endCall = "answered"
    /\ endCall' = "none"
    /\ view' = "ended"
    /\ UNCHANGED <<serverVars, socketVars, loadVars, rows, status, ending>>

\* A call that leaves endingRef set when it fails.
EndCallFailsSilently ==
    /\ endCall \in {"sent", "answered"}
    /\ endCall' = "none"
    /\ UNCHANGED <<serverVars, socketVars, loadVars, rows, status, view, ending>>

\* No answer, or an error, whether the server got as far as its commit or not.
EndCallFails ==
    /\ endCall \in {"sent", "answered"}
    /\ endCall' = "none" /\ ending' = FALSE
    /\ UNCHANGED <<serverVars, socketVars, loadVars, rows, status, view>>

Next ==
    \/ \E st \in Students : CheckIn(st) \/ ReceiveCheckedIn(st)
    \/ EndElsewhere
    \/ Replaced
    \/ EndOwn
    \/ \E event \in Students \cup {Ended} : Emit(event)
    \/ ServerJoins
    \/ Connect
    \/ ConnectError
    \/ Drop
    \/ Crash
    \/ ReceiveJoined
    \/ ReceiveEnded
    \/ \E load \in loads : Answer(load) \/ LoadArrives(load) \/ LoadFails(load)
    \/ PollSeesEnd
    \/ PressEnd
    \/ EndAnswered
    \/ EndCallFails

Spec == Init /\ [][Next]_vars

\* The browser's event loop and timers, the server's threads and the network
\* keep going; a connection that is lost is made again; the card polls every two
\* seconds, also between one press of its End button and the next.  Nobody has
\* to check in, to press a button or to lose a connection.
Fairness ==
    /\ WF_vars(Connect) /\ WF_vars(ServerJoins)
    /\ \A event \in Students \cup {Ended} : WF_vars(Emit(event))
    /\ WF_vars(ReceiveJoined) /\ WF_vars(ReceiveEnded)
    /\ \A st \in Students : WF_vars(ReceiveCheckedIn(st))
    /\ \A last \in BOOLEAN : WF_vars(\E load \in loads : load.last = last /\ Answer(load))
    /\ \A last \in BOOLEAN : WF_vars(\E load \in loads : load.last = last /\ LoadArrives(load))
    /\ SF_vars(PollSeesEnd)
    /\ WF_vars(EndOwn \/ EndAnswered \/ EndCallFails)

FairSpec == Spec /\ Fairness

(***************************************************************************)
(* Properties                                                              *)
(***************************************************************************)

\* LiveAttendancePanel.jsx:34-36 and :55-57: whatever the order in which the
\* load, the join and the events of a connection, and what was left of earlier
\* ones, came through, a panel that is live, has caught up and waits for
\* nothing shows exactly the roster.
CaughtUp ==
    /\ rows \subseteq checkIns
    /\ (/\ Mounted /\ status = "live"
        /\ toEmit = {} /\ inbox = {} /\ caughtUp = "done")
       => rows = checkIns

\* A check-in appears in the panel although it, or its event, met a lost
\* connection or a restart, unless the load after the last join failed: the
\* panel then only warns.
CheckInShown ==
    \A st \in Students :
        st \in checkIns ~> (st \in rows \/ ~Mounted \/ caughtUp = "failed")

\* A session ended from another device, or by an /end whose answer was lost,
\* stops this view (LiveSessionCard.jsx:91-92) even if the event never comes.
EndReachesView == inactive ~> view # "polling"
=============================================================================
