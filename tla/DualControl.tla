---------------------------- MODULE DualControl ----------------------------
(***************************************************************************)
(* What RecordAuditTrail promises, without its roles, counters and enums:  *)
(* a proposal takes effect in the very step in which a second party        *)
(* endorses it, and from then on nothing about it changes.                 *)
(***************************************************************************)
CONSTANTS Ids, Parties

VARIABLES
    endorsers,  \* endorsers[id] = the parties that endorsed proposal id
    effective   \* the proposals that took effect

controlVars == <<endorsers, effective>>

Init ==
    /\ endorsers = [id \in Ids |-> {}]
    /\ effective = {}

Endorse(id, party) ==
    /\ id \notin effective
    /\ party \notin endorsers[id]
    /\ endorsers' = [endorsers EXCEPT ![id] = @ \cup {party}]
    /\ effective' = IF endorsers[id] = {} THEN effective ELSE effective \cup {id}

Next == \E id \in Ids, party \in Parties : Endorse(id, party)

Spec == Init /\ [][Next]_controlVars
=============================================================================
