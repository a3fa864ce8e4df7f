SPECIFICATION SignerSpec
CONSTANTS
    Classes = {c1}
    Professors = {p1}
    NoProfessor = NoProfessor
    Accounts = {backend}
    Admin = backend
    Signer = backend
    Threads = {t1, t2}
    Nobody = Nobody
    Elsewhere = Elsewhere
    MaxTx = 3
INVARIANT NoNonceGap
PROPERTIES OneEntryPerClass ImplementsChainCall
