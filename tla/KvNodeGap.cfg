\* CPUT failures, then a logged write: can the WAL still be replayed?
CONSTANTS
    u1 = u1
    pwd = pwd
    k1 = k1
    v1 = v1
    v2 = v2
    Users <- MCUsers
    Keys <- MCKeys
    Vals <- MCVals
    Pwd <- pwd
    Empty = Empty
    None = None
    MaxSeq = 3
    CkptPeriod = 3
    SignedUpClients = TRUE
    ServeBeforeInit = FALSE

SPECIFICATION Spec
INVARIANT RecoverableLog
