------------------------------ MODULE MCAccounts ------------------------------
(***************************************************************************)
(* Values for Accounts: two addresses that each can become the             *)
(* administrator's, a student's, or for one of them the HOD's; both may    *)
(* claim one roll number.                                                  *)
(***************************************************************************)
EXTENDS Accounts

CONSTANTS e1, e2, i1, i2

MCForms == {[email |-> e1, role |-> "STUDENT", ident |-> i1],
            [email |-> e2, role |-> "STUDENT", ident |-> i1],
            [email |-> e2, role |-> "STUDENT", ident |-> i2],
            [email |-> e2, role |-> "HOD", ident |-> i2]}

MCWhitelist == {[email |-> e2, ident |-> i2]}
=============================================================================
