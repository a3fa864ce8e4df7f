------------------------------ MODULE WriteOnce ------------------------------
(***************************************************************************)
(* What EduLedger's on-chain ledgers promise, whoever calls them: a store  *)
(* in which every key is written at most once and then never changes.      *)
(***************************************************************************)
CONSTANTS Keys, Values,
          None  \* marks a key nothing was written for; not one of Values

VARIABLE store

TypeOK == store \in [Keys -> Values \cup {None}]

Init == store = [k \in Keys |-> None]

Put(k, v) ==
    /\ store[k] = None
    /\ store' = [store EXCEPT ![k] = v]

Next == \E k \in Keys, v \in Values : Put(k, v)

Spec == Init /\ [][Next]_store
=============================================================================
