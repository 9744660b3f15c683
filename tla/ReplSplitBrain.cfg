\* A fresh deployment in which a backend may start twice.
CONSTANTS
    a = a  b = b  pwd = pwd  v1 = v1  v2 = v2
    Empty = Empty  None = None  Master = Master  Client = Client
    Nodes <- MCNodes  Keys <- MCKeys  Vals <- MCVals  Pwd = pwd
    ClientCmds <- MCClientCmds
    MaxAdmin = 0  MaxBoots = 2  CkptPeriod = 2  Deployed = FALSE  Crashes = TRUE
SPECIFICATION Spec
INVARIANT ViewsFollowMaster
CHECK_DEADLOCK FALSE
SYMMETRY MCSymmetry
CONSTRAINT QueueBound
