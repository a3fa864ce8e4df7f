---------------------------- MODULE AccessControl ----------------------------
(***************************************************************************)
(* OpenZeppelin's AccessControl, the base contract of every EduLedger      *)
(* ledger (its code is a dependency, not part of this repository).  A role *)
(* is a set of accounts; members of DEFAULT_ADMIN_ROLE grant and revoke    *)
(* every role, and an account may renounce a role it holds.  Each          *)
(* transaction is atomic: a caller that lacks the role reverts, which      *)
(* changes nothing and is therefore no step here.                          *)
(***************************************************************************)
CONSTANTS
    Accounts,   \* externally owned accounts that send transactions
    Roles       \* names of the contract's roles, DEFAULT_ADMIN among them

VARIABLE roles  \* roles[role] = the accounts that hold it

DefaultAdmin == "DEFAULT_ADMIN_ROLE"

RolesTypeOK == roles \in [Roles -> SUBSET Accounts]

\* The state the constructor leaves: _grantRole(DEFAULT_ADMIN_ROLE, admin).
RolesInit(admin) ==
    roles = [role \in Roles |-> IF role = DefaultAdmin THEN {admin} ELSE {}]

HasRole(role, account) == account \in roles[role]

GrantRole(caller, role, account) ==
    /\ HasRole(DefaultAdmin, caller)
    /\ roles' = [roles EXCEPT ![role] = @ \cup {account}]

RevokeRole(caller, role, account) ==
    /\ HasRole(DefaultAdmin, caller)
    /\ roles' = [roles EXCEPT ![role] = @ \ {account}]

RenounceRole(caller, role) ==
    roles' = [roles EXCEPT ![role] = @ \ {caller}]

RoleChange ==
    \E caller \in Accounts, role \in Roles :
        \/ RenounceRole(caller, role)
        \/ \E account \in Accounts :
              \/ GrantRole(caller, role, account)
              \/ RevokeRole(caller, role, account)
=============================================================================
