SPECIFICATION Spec
CONSTANTS
    Changes = {fix, blank}
    Incomplete = {blank}
    Accounts = {a1, a2, a3}
    Admin = a1
    MaxProposals = 2
INVARIANTS SignaturesAgree AnchoredOnce
PROPERTIES ImplementsDualControl
