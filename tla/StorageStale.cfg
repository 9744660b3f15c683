\* Uploads and deletes on two frontends, with no failing call and no crash.
CONSTANTS
    f1 = f1  f2 = f2  x = x  y = y
    Frontends <- MCFrontends  Names <- MCNames  Ops <- UploadDelete
    MaxReq = 3  MaxAttempt = 1  MaxKvFail = 0  Crashes = FALSE
SPECIFICATION Spec
INVARIANT NoGhostFile
