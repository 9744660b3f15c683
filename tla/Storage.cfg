\* Two frontends serve one user's requests, with failing calls and crashes.
CONSTANTS
    f1 = f1  f2 = f2  x = x  y = y
    Frontends <- MCFrontends  Names <- MCNames  Ops <- AllOps
    MaxReq = 3  MaxAttempt = 1  MaxKvFail = 1  Crashes = TRUE
SPECIFICATION Spec
INVARIANT TypeOK StoredIdsAllocated
PROPERTY LatestNeverDecreases
