SPECIFICATION Spec
CONSTANTS
    e1 = e1
    e2 = e2
    i1 = i1
    i2 = i2
    Emails = {e1, e2}
    Idents = {i1, i2}
    NoIdent = NoIdent
    Forms <- MCForms
    Whitelist <- MCWhitelist
    Devices = {d1}
    NoDevice = NoDevice
    NoUser = NoUser
    NoCid = NoCid
    NoRow = NoRow
    Addresses = {deployer, root}
    ZeroAddress = ZeroAddress
    Deployer = deployer
    AdminRoot = root
    Threads = {t1, t2}
    MaxRequests = 6
    MaxFaults = 1
    MaxDeployments = 2
INVARIANTS AdminPerLock CidDescribesOwner
PROPERTIES AccountsKept BindingNeverLost ProfilesPinned
CHECK_DEADLOCK FALSE
