\* The engine as the frontend drives it, once recovery is over.
CONSTANTS
    u1 = u1
    pwd = pwd
    k1 = k1
    v1 = v1
    v2 = v2
    Users <- MCUsers
    Keys <- MCKeys
    Vals <- MCVals
    Pwd <- pwd
    Empty = Empty
    None = None
    MaxSeq = 3
    CkptPeriod = 3
    SignedUpClients = TRUE
    ServeBeforeInit = FALSE

SPECIFICATION Spec
INVARIANT TypeOK
INVARIANT RecoveredMatchesStore
INVARIANT WalOrdered
PROPERTY GetsReturnsStore
