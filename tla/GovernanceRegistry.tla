-------------------------- MODULE GovernanceRegistry --------------------------
(***************************************************************************)
(* contracts/contracts/GovernanceRegistry.sol: the address of the system's *)
(* root, locked once for the lifetime of the chain.                        *)
(***************************************************************************)
CONSTANTS
    Addresses,    \* accounts, and addresses that can become the root
    ZeroAddress,  \* address(0)
    Deployer      \* who deployed the registry

ASSUME DeployerAssumption == Deployer \in Addresses

VARIABLES
    locked,    \* _locked
    rootAdmin  \* _rootAdmin

registryVars == <<locked, rootAdmin>>

RegistryTypeOK ==
    /\ locked \in BOOLEAN
    /\ rootAdmin \in Addresses \cup {ZeroAddress}

Unlocked == locked = FALSE /\ rootAdmin = ZeroAddress

\* A careless edit of lockRoot: RootAlreadyLocked is not raised.
MayLockAgain(caller, newRoot) == caller = Deployer /\ newRoot # ZeroAddress

\* revert NotDeployer, RootAlreadyLocked, ZeroRootAddress.
MayLock(caller, newRoot) ==
    /\ caller = Deployer
    /\ ~locked
    /\ newRoot # ZeroAddress

LockRoot(caller, newRoot) ==
    /\ MayLock(caller, newRoot)
    /\ locked' = TRUE
    /\ rootAdmin' = newRoot
=============================================================================
